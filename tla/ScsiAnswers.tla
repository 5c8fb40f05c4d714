---------------------------- MODULE ScsiAnswers ----------------------------
(***************************************************************************)
(* What hpt_queuecommand answers by itself (INQUIRY, MODE SENSE, READ      *)
(* CAPACITY) and how it decodes what it sends to the LDM (READ, WRITE and  *)
(* VERIFY, ATA pass-through), composed with the disk driver sd, which      *)
(* learns a disk from these answers and then addresses it accordingly.     *)
(*                                                                         *)
(* The bytes of block addresses and counts have Byte values instead of     *)
(* 256, so that 8 of them stay within TLC's integers.  A capacity, an LBA  *)
(* and nSectors count 512 bytes; a block of sd is 512 << sector_size_shift *)
(* of them.                                                                *)
(***************************************************************************)
EXTENDS Integers, Sequences

CONSTANTS
  Byte,        \* the values of a byte of an address or a count
  Capacities,  \* capacities an array or disk may have
  Shifts,      \* sector_size_shift of the arrays
  Blocks,      \* the first blocks sd asks for
  MaxSectors   \* max_sectors of the host template, in 512 bytes

(* The number of values of n bytes.                                        *)
Power[n \in 0 .. 8] == IF n = 0 THEN 1 ELSE Byte * Power[n - 1]

ASSUME ScsiAnswersAssumption ==
  /\ Byte \in Nat \ {0, 1} /\ MaxSectors \in 1 .. Power[2] - 1
  /\ Capacities \subseteq 1 .. Power[8] - 1
  /\ Shifts \subseteq 0 .. 3 /\ Blocks \subseteq Nat

VARIABLES
  vdev,    \* the PVDEV: type, capacity, sector_size_shift, cache_policy
  probe,   \* the command sd sends next to learn the disk, or "ready"
  sd,      \* what it knows: sectors, sector_size, length of page 8, WCE
  grown,   \* the array was expanded after READ CAPACITY
  pages,   \* the VPD pages the mid layer knows of
  answer,  \* the answer to the MODE SENSE or the VPD page in hand
  req,     \* or the transfer in hand, as sd or a user asked for it
  pCmd     \* and the COMMAND hpt_queuecommand made of it

answersVars == <<vdev, probe, sd, grown, pages, answer, req, pCmd>>

None == [op |-> "none"]

AnswersInit ==
  /\ vdev \in [type : {"raw"}, capacity : Capacities, sector_size_shift : {0},
               cache_policy : {"through", "back"}]
         \cup [type : {"array"}, capacity : Capacities, sector_size_shift : Shifts,
               cache_policy : {"through", "back"}]
  /\ probe = "capacity10"
  /\ sd = [sectors |-> 0, sector_size |-> 0, length |-> 0, WCE |-> FALSE]
  /\ grown = FALSE /\ pages = {0}
  /\ answer = None /\ req = None /\ pCmd = None

-----------------------------------------------------------------------------
(* Big-endian bytes.                                                       *)
Bytes(v, n) == [k \in 1 .. n |-> (v \div Power[n - k]) % Byte]

Value(bytes) ==
  LET v[k \in 0 .. Len(bytes)] == IF k = 0 THEN 0 ELSE v[k - 1] * Byte + bytes[k]
  IN  v[Len(bytes)]

(* Bytes 4 to 7 of both capacities: only byte 6 of the answer is not 0.    *)
SectorSizeByte == (2 * 2 ^ vdev.sector_size_shift) % 256

(* Mutant of ReadCapacity: the low 32 bits of a large number.              *)
ReadCapacityLow ==
  LET new_cap == vdev.capacity \div 2 ^ vdev.sector_size_shift
  IN  Bytes(new_cap - 1, 4) \o <<SectorSizeByte>>

(* READ CAPACITY (10): the last block, or 0xffffffff.                      *)
ReadCapacity ==
  LET new_cap == vdev.capacity \div 2 ^ vdev.sector_size_shift
  IN  Bytes(IF new_cap > Power[4] - 1 THEN Power[4] - 1 ELSE new_cap - 1, 4)
      \o <<SectorSizeByte>>

ReadCapacity16 ==
  Bytes(vdev.capacity \div 2 ^ vdev.sector_size_shift - 1, 8) \o <<SectorSizeByte>>

-----------------------------------------------------------------------------
(* The mode pages: code, the length byte and sizeof.                       *)
RwRecoveryPage == [code |-> 1, len |-> 10, size |-> 12, WCE |-> FALSE]
CachingPage == [code |-> 8, len |-> 18, size |-> 20, WCE |-> vdev.cache_policy = "back"]
ControlPage == [code |-> 10, len |-> 10, size |-> 12, WCE |-> FALSE]

(* Mutant of FillMsense: a page that does not fit is not counted.          *)
FillMsenseFitting(out, page, bufflen) ==
  IF out.output_len + page.size <= bufflen
  THEN [output_len |-> out.output_len + page.size,
        filled |-> Append(out.filled, [at |-> out.output_len, page |-> page])]
  ELSE out

(* fill_msense_*: a page that does not fit is counted and not copied.      *)
FillMsense(out, page, bufflen) ==
  [output_len |-> out.output_len + page.size,
   filled |-> IF out.output_len + page.size <= bufflen
              THEN Append(out.filled, [at |-> out.output_len, page |-> page])
              ELSE out.filled]

(* The pages that do_mode_sense knows, and its switch.                     *)
ModePages == {1, 8, 10, 63}

FillPages(out, page, bufflen) ==
  LET recovery(o) == FillMsense(o, RwRecoveryPage, bufflen)
      caching(o)  == FillMsense(o, CachingPage, bufflen)
      control(o)  == FillMsense(o, ControlPage, bufflen)
  IN  CASE page = 1  -> recovery(out)
        [] page = 8  -> caching(out)
        [] page = 10 -> control(out)
        [] page = 63 -> control(caching(recovery(out)))

Header(op) == IF op = "MODE_SENSE" THEN 4 ELSE 8

CheckCondition(op, asc) == [op |-> op, result |-> "check_condition", asc |-> asc]

(* do_mode_sense; length is what the header announces, itself included.    *)
DoModeSense(op, control, page, bufflen) ==
  IF control = 3 THEN CheckCondition(op, 57)
  ELSE IF control # 0 \/ bufflen < Header(op) \/ page \notin ModePages
  THEN CheckCondition(op, 36)
  ELSE LET out == FillPages([output_len |-> Header(op), filled |-> <<>>], page, bufflen)
       IN  [op |-> op, result |-> "ok", page |-> page, bufflen |-> bufflen,
            length |-> IF op = "MODE_SENSE" THEN ((out.output_len - 1) % 256) + 1
                                            ELSE out.output_len,
            filled |-> out.filled]

(* Mutant of VpdList: its length is one short.                             *)
VpdListShort == <<0, 128>>

(* Page 0.                                                                 *)
VpdList == <<0, 128, 131>>

(* INQUIRY of a VPD page: rbuf[1], and the payload of rbuf[3] bytes.       *)
VpdPage(page, buflen) ==
  IF buflen < 36 THEN [op |-> "VPD", result |-> "abort"]
  ELSE CASE page = 0 -> [op |-> "VPD", result |-> "ok", code |-> 0,
                         len |-> Len(VpdList), payload |-> VpdList]
         [] page = 128 ->    \* the serial number, or one blank
              LET n == IF vdev.type = "raw" THEN 20 ELSE 1
              IN  [op |-> "VPD", result |-> "ok", code |-> 128,
                   len |-> n, payload |-> [k \in 1 .. n |-> 32]]
         [] page = 131 -> [op |-> "VPD", result |-> "ok", code |-> 131, len |-> 12,
                           payload |-> <<1, 2, 0, 8, 0, 25, 60, 0, 0, 0, 0, 0>>]
         [] OTHER -> CheckCondition("VPD", 36)

-----------------------------------------------------------------------------
(* The CDB sd makes for n blocks from block on: READ_16 beyond 32 bits,    *)
(* READ_6 only where it is told to and the numbers are small enough.       *)
SdCdb(block, n, use_10) ==
  IF block > Power[4] - 1
  THEN [form |-> 16, lba |-> Bytes(block, 8), count |-> Bytes(n, 4)]
  ELSE IF use_10 \/ n > Byte - 1 \/ block > Power[3] \div 8 - 1
  THEN [form |-> 10, lba |-> Bytes(block, 4), count |-> Bytes(n, 2)]
  ELSE [form |-> 6, lba |-> Bytes(block, 3), count |-> Bytes(n, 1)]

(* Mutant of Decode: the count is not shifted.                             *)
DecodeCount(cdb) ==
  [op |-> "ide", Lba |-> Value(cdb.lba) * 2 ^ vdev.sector_size_shift,
   nSectors |-> Value(cdb.count)]

(* READ_6, _10 and _16 and their kin; of READ_16's count bytes 12 and 13.  *)
Decode(cdb) ==
  LET count == IF cdb.form = 16 THEN SubSeq(cdb.count, 3, 4) ELSE cdb.count
  IN  [op |-> "ide",
       Lba |-> (Value(cdb.lba) * 2 ^ vdev.sector_size_shift) % Power[8],
       nSectors |-> (Value(count) * 2 ^ vdev.sector_size_shift) % Power[2]]

(* ATA_12 and ATA_16: refused for an array, for protocols other than PIO   *)
(* and no data, for a multiple count with a command that has none, for a   *)
(* change of the transfer mode, and if T_DIR is not the protocol's.        *)
DecodePassthrough(r) ==
  IF \/ vdev.type = "array"
     \/ r.prot \notin 3 .. 5
     \/ r.multi # 0 /\ r.command # "MULTI"
     \/ r.command = "SET_XFER"
     \/ r.t_length # 0 /\ r.prot = 4 /\ r.t_dir = "out"
     \/ r.t_length # 0 /\ r.prot = 5 /\ r.t_dir = "in"
  THEN None
  ELSE [op |-> "passthrough", data_in |-> r.prot = 4, data_out |-> r.prot = 5]

-----------------------------------------------------------------------------
(* One command at a time is of interest: the next is looked at when the    *)
(* last one has been taken note of.                                        *)
Idle == answer = None /\ req = None

AnswerDone ==
  /\ ~Idle
  /\ answer' = None /\ req' = None /\ pCmd' = None
  /\ UNCHANGED <<vdev, probe, sd, grown, pages>>

(* sd and the mid layer.  The last block + 1; of 0xffffffff, ask again.    *)
LearnCapacity10 ==
  /\ Idle /\ probe = "capacity10"
  /\ grown' = FALSE
  /\ LET top == Value(SubSeq(ReadCapacity, 1, 4))
     IN  IF top = Power[4] - 1
         THEN probe' = "capacity16" /\ UNCHANGED sd
         ELSE /\ probe' = "mode4"
              /\ sd' = [sd EXCEPT !.sectors = top + 1,
                                  !.sector_size = ReadCapacity[5] * 256]
  /\ UNCHANGED <<answer, req, pCmd, vdev, pages>>

LearnCapacity16 ==
  /\ Idle /\ probe = "capacity16"
  /\ sd' = [sd EXCEPT !.sectors = Value(SubSeq(ReadCapacity16, 1, 8)) + 1,
                      !.sector_size = ReadCapacity16[9] * 256]
  /\ probe' = "mode4"
  /\ UNCHANGED <<answer, req, pCmd, vdev, grown, pages>>

(* sd_read_cache_type: first the header, then the length it announces, of  *)
(* which sd takes 20 at most, and the header.                              *)
LearnModeLength ==
  /\ Idle /\ probe = "mode4"
  /\ answer' = DoModeSense("MODE_SENSE", 0, 8, 4)
  /\ sd' = [sd EXCEPT !.length = IF answer'.result = "ok" THEN answer'.length ELSE 0]
  /\ probe' = "mode"
  /\ UNCHANGED <<req, pCmd, vdev, grown, pages>>

LearnCachePolicy ==
  /\ Idle /\ probe = "mode"
  /\ answer' = DoModeSense("MODE_SENSE", 0, 8, (IF sd.length > 20 THEN 20 ELSE sd.length) + 4)
  /\ sd' = [sd EXCEPT !.WCE = /\ answer'.result = "ok" /\ answer'.filled # <<>>
                              /\ answer'.filled[1].page.WCE]
  /\ probe' = "ready"
  /\ UNCHANGED <<req, pCmd, vdev, grown, pages>>

(* Somebody asks for mode pages or for a VPD page.                         *)
AskMode ==
  /\ Idle /\ probe = "ready"
  /\ \E op \in {"MODE_SENSE", "MODE_SENSE_10"}, control \in {0, 1, 3},
        page \in {1, 8, 10, 12, 63}, bufflen \in {4, 8, 20, 24, 28, 40, 48, 52, 64} :
       answer' = DoModeSense(op, control, page, bufflen)
  /\ UNCHANGED <<req, pCmd, vdev, probe, sd, grown, pages>>

AskVpd ==
  /\ Idle /\ probe = "ready"
  /\ \E page \in {0, 128, 131, 176}, buflen \in {4, 36, 255} :
       LET vpd == VpdPage(page, buflen)
       IN  /\ answer' = [op |-> "VPD", asked |-> page, bufflen |-> buflen, vpd |-> vpd]
           /\ pages' = IF page = 0 /\ vpd.result = "ok"
                       THEN {vpd.payload[k] : k \in 1 .. vpd.len} ELSE pages
  /\ UNCHANGED <<req, pCmd, vdev, probe, sd, grown>>

(* The LDM has expanded the array; sd asks again when it revalidates the   *)
(* disk.                                                                   *)
Grow ==
  /\ Idle /\ vdev.type = "array"
  /\ \E c \in Capacities : c > vdev.capacity /\ vdev' = [vdev EXCEPT !.capacity = c]
  /\ grown' = TRUE
  /\ UNCHANGED <<answer, req, pCmd, probe, sd, pages>>

Revalidate ==
  /\ Idle /\ probe = "ready" /\ grown
  /\ probe' = "capacity10"
  /\ UNCHANGED <<answer, req, pCmd, vdev, sd, grown, pages>>

(* A transfer within the disk as sd knows it.                              *)
Transfer ==
  /\ Idle /\ sd.sectors > 0
  /\ \E block \in Blocks, n \in {1, 2, Byte - 1, Byte, (MaxSectors * 512) \div sd.sector_size} :
       /\ n > 0 /\ n * sd.sector_size <= MaxSectors * 512
       /\ block + n <= sd.sectors
       /\ req' = [op |-> "rw", bytes |-> sd.sector_size, block |-> block, n |-> n]
       /\ \E use_10 \in BOOLEAN : pCmd' = Decode(SdCdb(block, n, use_10))
  /\ UNCHANGED <<answer, vdev, probe, sd, grown, pages>>

(* An ATA command of a user.                                               *)
Passthrough ==
  /\ Idle /\ probe = "ready"
  /\ req' \in [op : {"ata"}, prot : 2 .. 6, multi : {0, 1}, t_length : {0, 2},
               t_dir : {"in", "out"}, command : {"MULTI", "SET_XFER", "OTHER"}]
  /\ pCmd' = DecodePassthrough(req')
  /\ UNCHANGED <<answer, vdev, probe, sd, grown, pages>>

AnswersNext ==
  \/ LearnCapacity10 \/ LearnCapacity16 \/ LearnModeLength \/ LearnCachePolicy
  \/ AskMode \/ AskVpd \/ Grow \/ Revalidate \/ Transfer \/ Passthrough
  \/ AnswerDone

AnswersSpec == AnswersInit /\ [][AnswersNext]_answersVars

-----------------------------------------------------------------------------
(* A disk that has been probed is known as it is: every whole block of the *)
(* capacity, whether 32 bits hold the number or not, the size of a block,  *)
(* and its cache policy, which sd reads with a length it asked for first.  *)
SdKnowsTheDisk ==
  probe = "ready" /\ ~grown =>
    /\ sd.sector_size = 512 * 2 ^ vdev.sector_size_shift
    /\ sd.sectors = (vdev.capacity * 512) \div sd.sector_size
    /\ sd.WCE <=> vdev.cache_policy = "back"

(* What goes to the LDM is what was asked for: the same bytes of the disk, *)
(* none of them beyond its end, however the CDB carried the address and    *)
(* also when the array grew under sd; and pass-through data goes the way   *)
(* the CDB says.                                                           *)
CarriesTheRequest ==
  /\ pCmd.op = "ide" =>
       /\ pCmd.Lba * 512 = req.block * req.bytes
       /\ pCmd.nSectors * 512 = req.n * req.bytes
       /\ pCmd.nSectors > 0 /\ pCmd.Lba + pCmd.nSectors <= vdev.capacity
  /\ pCmd.op = "passthrough" =>
       /\ ~(pCmd.data_in /\ pCmd.data_out)
       /\ req.t_length # 0 => /\ pCmd.data_in => req.t_dir = "in"
                              /\ pCmd.data_out => req.t_dir = "out"

(* A reader of mode pages who steps from page to page by their length      *)
(* bytes finds no gap and, if its buffer holds the announced length, comes *)
(* out exactly there.                                                      *)
ModePagesFillTheLength ==
  answer.op \in {"MODE_SENSE", "MODE_SENSE_10"} /\ answer.result = "ok" =>
    LET f == answer.filled
        next(k) == f[k].at + 2 + f[k].page.len
    IN  /\ f # <<>> => f[1].at = Header(answer.op)
        /\ \A k \in 1 .. Len(f) - 1 : f[k + 1].at = next(k)
        /\ answer.bufflen >= answer.length => f # <<>> /\ next(Len(f)) = answer.length

(* The VPD pages of the list are the ones that are answered, each with its *)
(* own code.                                                               *)
VpdListIsTrue ==
  answer.op = "VPD" /\ answer.bufflen >= 36 =>
    LET vpd == answer.vpd
    IN  /\ vpd.result = "ok" => vpd.code = answer.asked /\ vpd.len = Len(vpd.payload)
        /\ pages # {0} => (answer.asked \in pages <=> vpd.result = "ok")
=============================================================================
