-------------------------------- MODULE IrLog --------------------------------
(***************************************************************************)
(* What an IR output stream promises the reader of its sink: an append-only*)
(* log of timestamps.  A writer submits one event at a time; the call ends *)
(* with a commit, which adds the event, or a reject, which does not.  The  *)
(* log ends when the reader can get no further (EOF byte or damage); what  *)
(* is committed after that never shows.                                    *)
(***************************************************************************)
EXTENDS Integers, Sequences

CONSTANTS Streams, Timestamps

VARIABLES
  pending,   \* the events being written: none or one
  log,       \* what the reader sees
  committed, \* number of calls that returned normally
  ended      \* the reader has reached the end

vars == <<pending, log, committed, ended>>

Init ==
  /\ pending = [s \in Streams |-> {}]
  /\ log = [s \in Streams |-> <<>>]
  /\ committed = [s \in Streams |-> 0]
  /\ ended = [s \in Streams |-> FALSE]

Submit(s, ts) ==
  /\ pending[s] = {}
  /\ pending' = [pending EXCEPT ![s] = {ts}]
  /\ UNCHANGED <<log, committed, ended>>

Commit(s) ==
  \E ts \in pending[s] :
    /\ log' = IF ended[s] THEN log ELSE [log EXCEPT ![s] = Append(@, ts)]
    /\ committed' = [committed EXCEPT ![s] = @ + 1]
    /\ pending' = [pending EXCEPT ![s] = {}]
    /\ UNCHANGED ended

\* A call that fails may damage the sink and so end the log.
Reject(s) ==
  /\ pending[s] # {}
  /\ pending' = [pending EXCEPT ![s] = {}]
  /\ \E e \in {ended[s], TRUE} : ended' = [ended EXCEPT ![s] = e]
  /\ UNCHANGED <<log, committed>>

\* close(), whether it succeeds or fails half-way.
End(s) ==
  /\ pending[s] = {}
  /\ ended' = [ended EXCEPT ![s] = TRUE]
  /\ UNCHANGED <<pending, log, committed>>

Next ==
  \E s \in Streams :
    Commit(s) \/ Reject(s) \/ End(s) \/ \E ts \in Timestamps : Submit(s, ts)

Spec == Init /\ [][Next]_vars
=============================================================================
