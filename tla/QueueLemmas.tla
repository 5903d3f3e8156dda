---------------------------- MODULE QueueLemmas ----------------------------
(***************************************************************************)
(* What the queues of reports do: the facts about sequences that the       *)
(* proofs about ReportExchange and FlashTransfer share.                    *)
(***************************************************************************)
EXTENDS SequenceTheorems, TLAPS

\* A report is added at the end.
LEMMA Appended ==
  ASSUME NEW S, NEW q \in Seq(S), NEW e \in S
  PROVE  /\ Append(q, e) \in Seq(S)
         /\ Len(Append(q, e)) = Len(q) + 1 /\ Len(q) \in Nat
         /\ DOMAIN Append(q, e) = DOMAIN q \cup {Len(q) + 1} /\ Len(q) + 1 \notin DOMAIN q
         /\ \A i \in DOMAIN q : Append(q, e)[i] = q[i]
         /\ Append(q, e)[Len(q) + 1] = e
BY LenProperties

\* The oldest report is taken.
LEMMA Taken ==
  ASSUME NEW S, NEW q \in Seq(S), q # <<>>
  PROVE  /\ Head(q) \in S /\ Head(q) = q[1] /\ 1 \in DOMAIN q
         /\ Tail(q) \in Seq(S)
         /\ Len(Tail(q)) = Len(q) - 1 /\ Len(q) \in Nat \ {0}
         /\ \A i \in DOMAIN Tail(q) : i + 1 \in DOMAIN q /\ i + 1 # 1 /\ Tail(q)[i] = q[i + 1]
BY HeadTailProperties, LenProperties, EmptySeq

\* Reports are sent behind those that are queued.
LEMMA Joined ==
  ASSUME NEW S, NEW p \in Seq(S), NEW q \in Seq(S)
  PROVE  /\ p \o q \in Seq(S) /\ Len(p \o q) = Len(p) + Len(q)
         /\ Len(p) \in Nat /\ Len(q) \in Nat
         /\ DOMAIN p = 1 .. Len(p) /\ DOMAIN q = 1 .. Len(q) /\ DOMAIN (p \o q) = 1 .. Len(p \o q)
         /\ \A i \in DOMAIN p : (p \o q)[i] = p[i]
         /\ \A i \in DOMAIN q : (p \o q)[Len(p) + i] = q[i]
BY ConcatProperties, LenProperties

\* A function on 1 .. n is a queue of n reports.
LEMMA Queued ==
  ASSUME NEW S, NEW n \in Nat, NEW q \in [1 .. n -> S]
  PROVE  q \in Seq(S) /\ Len(q) = n /\ DOMAIN q = 1 .. n
BY IsASeq, LenProperties
=============================================================================
