---------------------------- MODULE EventChannel ----------------------------
(***************************************************************************)
(* What the storage module expects of the message queue between its        *)
(* uevent listener and its message thread: a channel that delivers what    *)
(* was sent, in the order it was sent, each message once, and that may be  *)
(* closed with messages still in it.  Closing happens after the sender has *)
(* stopped, and at most one message is still taken once it is closed.      *)
(***************************************************************************)
EXTENDS Naturals, Sequences

CONSTANT Msg

VARIABLES sent,      \* every message accepted by the channel, in order
          received,  \* every message taken out of it, in order
          closed     \* has the receiver been told to quit

chanVars == <<sent, received, closed>>

ChanInit ==
  /\ sent = << >>
  /\ received = << >>
  /\ closed = FALSE

Send ==
  /\ ~closed
  /\ \E m \in Msg : sent' = Append(sent, m)
  /\ UNCHANGED <<received, closed>>

Receive ==
  /\ Len(received) < Len(sent)
  /\ received' = Append(received, sent[Len(received) + 1])
  /\ UNCHANGED <<sent, closed>>

Close ==
  /\ ~closed
  /\ closed' = TRUE
  /\ UNCHANGED <<sent, received>>

ChanNext == Send \/ Receive \/ Close

ChanSpec == ChanInit /\ [][ChanNext]_chanVars
=============================================================================
