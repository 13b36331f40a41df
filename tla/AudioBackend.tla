---------------------------- MODULE AudioBackend ----------------------------
(***************************************************************************)
(* What an AudioCaptureBackend promises the session that starts it         *)
(* (prollyglot-core): start_capture answers once, a session it answered    *)
(* with is stopped once, and no thread of the backend outlives the call    *)
(* that ends it, so that nothing is sent to a channel whose owner has been *)
(* told that capture is over.                                              *)
(***************************************************************************)
EXTENDS Integers, Sequences

VARIABLES
  call,    \* the caller: idle, starting, running, joining, failing, over, failed
  alive,   \* the worker thread exists
  events   \* the channel of capture events

vars == <<call, alive, events>>

Terminal(e) == e.kind \in {"Stopped", "Error"}
Over == events # <<>> /\ Terminal(events[Len(events)])
Extends(s, t) == Len(s) <= Len(t) /\ SubSeq(t, 1, Len(s)) = s

Init == call = "idle" /\ alive = FALSE /\ events = <<>>

Refuse == call = "idle" /\ call' = "failed" /\ UNCHANGED <<alive, events>>
Start == call = "idle" /\ call' = "starting" /\ alive' = TRUE /\ UNCHANGED events

\* The worker sends; what says that it is over is the last it sends.
Send ==
  /\ alive /\ ~Over
  /\ Extends(events, events')
  /\ \A i \in 1..(Len(events') - 1) : ~Terminal(events'[i])
  /\ alive' = FALSE \/ (alive' = TRUE /\ (events' # <<>> => ~Terminal(events'[Len(events')])))
  /\ UNCHANGED call

Receive == events # <<>> /\ events' = Tail(events) /\ UNCHANGED <<call, alive>>
Discard == events' = <<>> /\ UNCHANGED <<call, alive>>

Answer == call = "starting" /\ call' \in {"running", "failing"} /\ UNCHANGED <<alive, events>>
Stop == call = "running" /\ call' = "joining" /\ UNCHANGED <<alive, events>>
Return ==
  /\ ~alive
  /\ \/ call = "joining" /\ call' = "over"
     \/ call = "failing" /\ call' = "failed"
  /\ UNCHANGED <<alive, events>>

Next == Refuse \/ Start \/ Send \/ Receive \/ Discard \/ Answer \/ Stop \/ Return

Spec == Init /\ [][Next]_vars
=============================================================================
