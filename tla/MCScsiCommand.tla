--------------------------- MODULE MCScsiCommand ---------------------------
(***************************************************************************)
(* The instance of the SCSI command path: what becomes of the commands     *)
(* (ScsiCommand), the dialogue in which the disk driver learns the disk    *)
(* and has its requests decoded (ScsiAnswers), and the list os_buildsgl    *)
(* makes of a command's segments (SgList).  The three share no state: a    *)
(* behaviour is one of one of them, while the others rest.                 *)
(***************************************************************************)
EXTENDS ScsiCommand, ScsiAnswers, SgList

LOCAL INSTANCE SequencesExt

(* Two commands for three COMMANDs: one that needs two leaves one, which   *)
(* is enough for the other or not.                                         *)
MCCmd == {"c1", "c2"}

(* Bytes of 4 values: 32 bits hold up to 255 and 16 bits up to 15;         *)
(* capacities and addresses on both sides of these limits.                 *)
MCCapacities == {40, 255, 256, 257, 513, 1030}
MCBlocks == {0, 6, 7, 8, 63, 64, 127, 252, 254, 255, 256, 257, 500, 512, 1028}

(* Lists of up to three segments around one boundary, at 8.                *)
MCSegments == [addr : {0, 2, 3, 4, 6, 8, 10}, len : {1, 2, 4}]
MCInputs == SeqOf(MCSegments, 3)
MCBoundaries == {0, 8}

VARIABLE part

pathVars == <<part, vars, answersVars, sgVars>>

AnswersRest == vdev.type = "raw" /\ vdev.capacity = 40 /\ vdev.cache_policy = "back"
ListRests == logical /\ segs = <<>>

PathInit ==
  /\ part \in {"commands", "answers", "list"}
  /\ Init /\ AnswersInit /\ SgInit
  /\ part # "commands" => \A c \in Cmd : mapped[c]
  /\ part # "answers" => AnswersRest
  /\ part # "list" => ListRests

PathNext ==
  /\ part' = part
  /\ \/ part = "commands" /\ Next /\ UNCHANGED <<answersVars, sgVars>>
     \/ part = "answers" /\ AnswersNext /\ UNCHANGED <<vars, sgVars>>
     \/ part = "list" /\ SgNext /\ UNCHANGED <<vars, answersVars>>
     \/ part = "list" /\ result # "building" /\ UNCHANGED <<vars, answersVars, sgVars>>

PathSpec == PathInit /\ [][PathNext]_pathVars /\ Fairness
=============================================================================
