----------------------------- MODULE BlockingCall -----------------------------
(***************************************************************************)
(* What every function of the public API promises its caller: it blocks    *)
(* until the event it waits for has happened or a time limit is reached,   *)
(* it reports success exactly when the event happened during this call,    *)
(* and it always returns.  An event from before the call never counts.     *)
(***************************************************************************)
VARIABLES
  waiting,   (* The call is in progress.                                   *)
  arrived,   (* Its event has happened since it started.                   *)
  result     (* What the latest call returned; "none" before any.          *)

callVars == <<waiting, arrived, result>>

Init == ~ waiting /\ ~ arrived /\ result = "none"

Start ==
  /\ ~ waiting
  /\ waiting' = TRUE
  /\ arrived' = FALSE
  /\ UNCHANGED result

Arrive ==
  /\ waiting /\ ~ arrived
  /\ arrived' = TRUE
  /\ UNCHANGED <<waiting, result>>

Return ==
  /\ waiting
  /\ waiting' = FALSE
  /\ arrived' = FALSE
  /\ result' = IF arrived THEN "SUCCESS" ELSE "TIMEOUT"

(* The result is gone once another function has returned.                  *)
Forget ==
  /\ ~ waiting
  /\ result' = "none"
  /\ UNCHANGED <<waiting, arrived>>

Next == Start \/ Arrive \/ Return \/ Forget

Spec == Init /\ [][Next]_callVars /\ WF_callVars(Return)

SafetySpec == Init /\ [][Next]_callVars

=============================================================================
