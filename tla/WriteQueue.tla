----------------------------- MODULE WriteQueue -----------------------------
(***************************************************************************)
(* What the app relies on when it hands a write to the Firestore client,   *)
(* without streams, handshakes or pipelines: the writes of one client      *)
(* reach the server in the order they were issued, none is skipped, and    *)
(* they complete in that order, each only after the server has applied it  *)
(* or has refused it.                                                      *)
(*                                                                         *)
(* A write is applied at least once, not exactly once: the client resumes  *)
(* no stream, so the writes that were applied but not acknowledged when    *)
(* the connection broke are all applied again, from the first one on.      *)
(***************************************************************************)
EXTENDS Naturals, Sequences

CONSTANTS
  Write,  \* the writes of this client
  Other   \* the writes of the other clients to the same document

VARIABLES
  queue,   \* issued and not completed, in order
  applied, \* how many of the queue the server has applied since the last break
  log,     \* all that was applied to the document, in order
  refused  \* the writes that completed with an error

queueVars == <<queue, applied, log, refused>>

Init ==
  /\ queue = <<>>
  /\ applied = 0
  /\ log = <<>>
  /\ refused = {}

Issue(w) ==
  /\ queue' = Append(queue, w)
  /\ UNCHANGED <<applied, log, refused>>

(* The server applies the next write of the queue. *)
Apply ==
  /\ applied < Len(queue)
  /\ log' = Append(log, queue[applied + 1])
  /\ applied' = applied + 1
  /\ UNCHANGED <<queue, refused>>

(* Another client's write is applied. *)
Interfere(o) ==
  /\ log' = Append(log, o)
  /\ UNCHANGED <<queue, applied, refused>>

(* The first write was applied: it completes. *)
Complete ==
  /\ applied > 0
  /\ queue' = Tail(queue)
  /\ applied' = applied - 1
  /\ UNCHANGED <<log, refused>>

(* The first write was not applied: it completes with an error. *)
Refuse ==
  /\ applied = 0
  /\ queue # <<>>
  /\ refused' = refused \cup {Head(queue)}
  /\ queue' = Tail(queue)
  /\ UNCHANGED <<applied, log>>

(* The connection breaks: what was not acknowledged is sent again. *)
Resend ==
  /\ applied' = 0
  /\ UNCHANGED <<queue, log, refused>>

Next ==
  \/ \E w \in Write : Issue(w)
  \/ \E o \in Other : Interfere(o)
  \/ Apply \/ Complete \/ Refuse \/ Resend

Spec == Init /\ [][Next]_queueVars
=============================================================================
