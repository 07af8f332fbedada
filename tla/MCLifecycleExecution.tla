------------------------ MODULE MCLifecycleExecution ------------------------
(***************************************************************************)
(* Two questions asked of small instances, one of them in each behaviour.  *)
(* "again": one operation id, sent again over a second connection and      *)
(* shown on a second document while the user changes the state.  "beside": *)
(* two operations on one annotation while the user edits it in any way.    *)
(***************************************************************************)
EXTENDS LifecycleExecution

CONSTANTS Id, MaxEdited   \* whom "again" is about; the last edit of "beside"
VARIABLE focus
mcVars == <<vars, focus>>

Edited == version' # version /\ applied' = applied /\ item'.state # "gone"

MCInit == Init /\ focus \in {"again", "beside"}
MCNext ==
  /\ Next
  /\ IF focus = "again"
     THEN /\ \A s \in Submissions : s[2] # Id => asked'[s] = "none"
          /\ Edited => item'.state # item.state
     ELSE /\ connections' <= 1 /\ document' <= 1
          /\ Edited => version' <= MaxEdited
  /\ UNCHANGED focus
MCSpec == MCInit /\ [][MCNext]_mcVars
=============================================================================
