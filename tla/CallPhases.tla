------------------------------ MODULE CallPhases ------------------------------
(***************************************************************************)
(* What whoever placed or took a modern call may rely on, whichever of its *)
(* threads runs when: what a call shows follows from what it has, and what *)
(* it has it comes by in one order.  A pair is selected, the handshake     *)
(* over that pair succeeds, the keys of the handshake are installed, and   *)
(* only somebody who hangs up takes them away again.  A call that fails    *)
(* has a pair or has tried as often as it may.                             *)
(*                                                                         *)
(* It does not promise that what is shown only goes forward: a handler     *)
(* that is late shows what was true when it looked.                        *)
(***************************************************************************)
EXTENDS Naturals

CONSTANT MaxAttempts

VARIABLES
  shown,     \* the state the call reports
  retries,   \* how often it tried to reach the peer, after the first time
  paired,    \* a candidate pair is selected
  secured,   \* the handshake has succeeded
  keyed,     \* the keys of the handshake are there
  over       \* somebody has hung up

phases == <<shown, retries, paired, secured, keyed, over>>

Init ==
  /\ shown = "Connecting" /\ retries = 0
  /\ ~paired /\ ~secured /\ ~keyed /\ ~over

Began == shown # "Connecting"

Begin ==
  /\ shown = "Connecting" /\ shown' \in {"IceConnecting", "Failed"}
  /\ UNCHANGED <<retries, paired, secured, keyed, over>>

Retry ==
  /\ Began /\ retries < MaxAttempts /\ retries' = retries + 1
  /\ UNCHANGED <<shown, paired, secured, keyed, over>>

Pair ==
  /\ Began /\ paired' = TRUE
  /\ UNCHANGED <<shown, retries, secured, keyed, over>>

Handshake ==
  /\ paired /\ shown' = "DtlsHandshaking"
  /\ UNCHANGED <<retries, paired, secured, keyed, over>>

Secure ==
  /\ paired /\ secured' = TRUE
  /\ UNCHANGED <<shown, retries, paired, keyed, over>>

Key ==
  /\ secured /\ keyed' = TRUE
  /\ UNCHANGED <<shown, retries, paired, secured, over>>

Connect ==
  /\ secured /\ (keyed \/ over) /\ shown' = "Connected"
  /\ UNCHANGED <<retries, paired, secured, keyed, over>>

Fail ==
  /\ Began /\ (paired \/ retries = MaxAttempts) /\ shown' = "Failed"
  /\ UNCHANGED <<retries, paired, secured, keyed, over>>

HangUp ==
  /\ Began /\ over' = TRUE
  /\ UNCHANGED <<shown, retries, paired, secured, keyed>>

End ==
  /\ over /\ shown' = "Stopped" /\ keyed' = FALSE
  /\ UNCHANGED <<retries, paired, secured, over>>

Next ==
  \/ Begin \/ Retry \/ Pair \/ Handshake \/ Secure
  \/ Key \/ Connect \/ Fail \/ HangUp \/ End

Spec == Init /\ [][Next]_phases
===============================================================================
