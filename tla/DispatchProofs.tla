--------------------------- MODULE DispatchProofs ---------------------------
(***************************************************************************)
(* Proofs about Dispatch.  What a dispatch still has to do is a list of    *)
(* steps; every such list belongs to one of seven phases, and a step moves *)
(* from one phase to the next.  The invariants say what a run holds in     *)
(* each phase: a lease, money, nothing.  What is said of the budget rows   *)
(* is taken from BudgetProofs, for the instance of Budget that Dispatch    *)
(* composes.                                                               *)
(***************************************************************************)
EXTENDS Dispatch, WorkQueueProofs, SequenceTheorems

Steps == {"begin", "agent", "acquire", "preflight", "reserve", "create", "bind", "mark",
          "worker", "commit", "reread", "pause", "finish", "settle", "release",
          "refund", "requeue", "failrun", "fail", "block"}

-----------------------------------------------------------------------------
(* Lists of steps. *)

\* What is left of a dispatch that has come to its i-th step.
Rest(i) == SubSeq(DispatchOnce, i, 12)

\* The steps after the lease was returned on a path that is not the successful one.
LastSteps == {"failrun", "fail", "block", "pause"}

Unclaimed(t) == t \in {<<"begin">>, Rest(1), Rest(2)}
Claimed(t) == t \in {Rest(3), Rest(4)}
Paid(t) == t \in {Rest(5), Rest(6), Rest(7), Rest(8), Rest(9)}
Charged(t) == \/ t \in {Rest(10), Rest(11), Rest(12)}
              \/ t # <<>> /\ Head(t) \in {"reread", "pause"} /\ Tail(t) = Rest(10)
Over(t) == t \in Seq(LastSteps)
Returning(t) == t # <<>> /\ Head(t) = "requeue" /\ Over(Tail(t))
Refunding(t) == t # <<>> /\ Head(t) = "refund" /\ Returning(Tail(t))

Phase(t) ==
  CASE Unclaimed(t) -> "unclaimed"
    [] Claimed(t) -> "claimed"
    [] Paid(t) -> "paid"
    [] Charged(t) -> "charged"
    [] Refunding(t) -> "refunding"
    [] Returning(t) -> "returning"
    [] Over(t) -> "over"
    [] OTHER -> "none"

LEMMA RestProperties ==
  /\ DispatchOnce = Rest(1) /\ Rest(13) = <<>>
  /\ \A i \in 1 .. 12 : /\ Rest(i) # <<>> /\ Head(Rest(i)) = DispatchOnce[i]
                        /\ Tail(Rest(i)) = Rest(i + 1)
  /\ \A i \in 1 .. 13 : Rest(i) \in Seq(Steps)
<1> DEFINE D == DispatchOnce
<1>1. D \in Seq(Steps) /\ Len(D) = 12 
  BY DEF DispatchOnce, Steps
<1> HIDE DEF D
<1>2. Rest(1) = D /\ Rest(13) = <<>>
  BY <1>1, SubSeqFull, SubSeqEmpty DEF Rest, D
<1>3. ASSUME NEW i \in 1 .. 12
      PROVE  Head(Rest(i)) = D[i] /\ Tail(Rest(i)) = Rest(i + 1)
  BY <1>1, HeadTailOfSubSeq DEF Rest, D
<1>4. ASSUME NEW i \in 1 .. 13
      PROVE  Rest(i) \in Seq(Steps) /\ Len(Rest(i)) = 13 - i
  <2>1. \A j \in i .. 12 : D[j] \in Steps
    <3>1. \A j \in 1 .. 12 : D[j] \in Steps
      BY <1>1, ElementOfSeq
    <3> QED BY <3>1
  <2>2. i \in Int /\ 12 \in Int
    OBVIOUS
  <2>3. /\ SubSeq(D, i, 12) \in Seq(Steps)
        /\ Len(SubSeq(D, i, 12)) = IF i <= 12 THEN 12 - i + 1 ELSE 0
    BY <2>1, <2>2, SubSeqProperties
  <2> QED BY <2>3 DEF Rest, D
<1>5. ASSUME NEW i \in 1 .. 12 PROVE Rest(i) # <<>>
  <2>1. i \in 1 .. 13 /\ 13 - i # 0
    OBVIOUS
  <2>3. Len(Rest(i)) = 13 - i
    BY <2>1, <1>4
  <2>2. Len(<<>>) = 0
    BY EmptySeq
  <2> QED BY <2>1, <2>2, <2>3
<1> QED BY <1>2, <1>3, <1>4, <1>5 DEF D

LEMMA Push ==
  ASSUME NEW S, NEW x \in S, NEW s \in Seq(S)
  PROVE  /\ <<x>> \o s \in Seq(S) /\ <<x>> \o s # <<>>
         /\ Head(<<x>> \o s) = x /\ Tail(<<x>> \o s) = s
         /\ <<>> \o s = s
<1>1. <<x>> \in Seq(S) /\ Len(<<x>>) = 1 /\ <<x>>[1] = x
  OBVIOUS
<1> DEFINE t == <<x>> \o s
<1>2. /\ t \in Seq(S) /\ Len(t) = 1 + Len(s)
      /\ \A i \in 1 .. Len(t) : t[i] = IF i = 1 THEN x ELSE s[i - 1]
  <2>1. /\ t \in Seq(S) /\ Len(t) = Len(<<x>>) + Len(s)
        /\ \A i \in 1 .. Len(<<x>>) + Len(s) : t[i] = IF i <= Len(<<x>>) THEN <<x>>[i] ELSE s[i - Len(<<x>>)]
    BY <1>1, ConcatProperties
  <2> QED BY <1>1, <2>1
<1> HIDE DEF t
<1>3. Len(s) \in Nat
  OBVIOUS
<1>4. t # <<>> /\ Head(t) = x
  BY <1>2, <1>3
<1>5. Tail(t) = s
  <2>1. Tail(t) \in Seq(S) /\ Len(Tail(t)) = Len(s) /\ \A i \in 1 .. Len(s) : Tail(t)[i] = s[i]
    BY <1>2, <1>3, <1>4, HeadTailProperties
  <2> QED BY <2>1, SeqEqual
<1>6. <<>> \o s = s
  BY ConcatEmptySeq
<1> QED BY <1>2, <1>4, <1>5, <1>6 DEF t

\* The lists of the successful path, one by one.
LEMMA RestSteps ==
  /\ Rest(1) = DispatchOnce /\ Rest(13) = <<>>
  /\ \A i \in 1 .. 12 : Rest(i) \in Seq(Steps)
  /\ Rest(1) # <<>> /\ Rest(2) # <<>> /\ Rest(3) # <<>> /\ Rest(4) # <<>> /\ Rest(5) # <<>>
  /\ Rest(6) # <<>> /\ Rest(7) # <<>> /\ Rest(8) # <<>> /\ Rest(9) # <<>> /\ Rest(10) # <<>>
  /\ Rest(11) # <<>> /\ Rest(12) # <<>>
  /\ Head(Rest(1)) = "agent" /\ Tail(Rest(1)) = Rest(2)
  /\ Head(Rest(2)) = "acquire" /\ Tail(Rest(2)) = Rest(3)
  /\ Head(Rest(3)) = "preflight" /\ Tail(Rest(3)) = Rest(4)
  /\ Head(Rest(4)) = "reserve" /\ Tail(Rest(4)) = Rest(5)
  /\ Head(Rest(5)) = "create" /\ Tail(Rest(5)) = Rest(6)
  /\ Head(Rest(6)) = "bind" /\ Tail(Rest(6)) = Rest(7)
  /\ Head(Rest(7)) = "mark" /\ Tail(Rest(7)) = Rest(8)
  /\ Head(Rest(8)) = "worker" /\ Tail(Rest(8)) = Rest(9)
  /\ Head(Rest(9)) = "commit" /\ Tail(Rest(9)) = Rest(10)
  /\ Head(Rest(10)) = "finish" /\ Tail(Rest(10)) = Rest(11)
  /\ Head(Rest(11)) = "settle" /\ Tail(Rest(11)) = Rest(12)
  /\ Head(Rest(12)) = "release" /\ Tail(Rest(12)) = <<>>
<1>1. /\ DispatchOnce[1] = "agent" /\ DispatchOnce[2] = "acquire"
      /\ DispatchOnce[3] = "preflight" /\ DispatchOnce[4] = "reserve"
      /\ DispatchOnce[5] = "create" /\ DispatchOnce[6] = "bind" /\ DispatchOnce[7] = "mark"
      /\ DispatchOnce[8] = "worker" /\ DispatchOnce[9] = "commit"
      /\ DispatchOnce[10] = "finish" /\ DispatchOnce[11] = "settle" /\ DispatchOnce[12] = "release"
  BY DEF DispatchOnce
<1>2. ASSUME NEW i \in 1 .. 12, NEW j, j = i + 1
      PROVE  Head(Rest(i)) = DispatchOnce[i] /\ Tail(Rest(i)) = Rest(j)
  BY <1>2, RestProperties
<1>3. \A i \in 1 .. 12 : Head(Rest(i)) = DispatchOnce[i]
  BY RestProperties
<1>4. Tail(Rest(1)) = Rest(2)
  BY <1>2
<1>5. Tail(Rest(2)) = Rest(3)
  BY <1>2
<1>6. Tail(Rest(3)) = Rest(4)
  BY <1>2
<1>7. Tail(Rest(4)) = Rest(5)
  BY <1>2
<1>8. Tail(Rest(5)) = Rest(6)
  BY <1>2
<1>9. Tail(Rest(6)) = Rest(7)
  BY <1>2
<1>10. Tail(Rest(7)) = Rest(8)
  BY <1>2
<1>11. Tail(Rest(8)) = Rest(9)
  BY <1>2
<1>12. Tail(Rest(9)) = Rest(10)
  BY <1>2
<1>13. Tail(Rest(10)) = Rest(11)
  BY <1>2
<1>14. Tail(Rest(11)) = Rest(12)
  BY <1>2
<1>15. Tail(Rest(12)) = Rest(13)
  BY <1>2
<1>16. \A i \in 1 .. 12 : Rest(i) \in Seq(Steps) /\ Rest(i) # <<>>
  <2>1. \A i \in 1 .. 12 : i \in 1 .. 13
    OBVIOUS
  <2> QED BY <2>1, RestProperties
<1>17. /\ Rest(1) # <<>> /\ Rest(2) # <<>> /\ Rest(3) # <<>> /\ Rest(4) # <<>>
       /\ Rest(5) # <<>> /\ Rest(6) # <<>> /\ Rest(7) # <<>> /\ Rest(8) # <<>>
       /\ Rest(9) # <<>> /\ Rest(10) # <<>> /\ Rest(11) # <<>> /\ Rest(12) # <<>>
  BY <1>16
<1>18. /\ Head(Rest(1)) = "agent" /\ Head(Rest(2)) = "acquire" /\ Head(Rest(3)) = "preflight"
       /\ Head(Rest(4)) = "reserve" /\ Head(Rest(5)) = "create" /\ Head(Rest(6)) = "bind"
       /\ Head(Rest(7)) = "mark" /\ Head(Rest(8)) = "worker" /\ Head(Rest(9)) = "commit"
       /\ Head(Rest(10)) = "finish" /\ Head(Rest(11)) = "settle" /\ Head(Rest(12)) = "release"
  BY <1>1, <1>3
<1> QED BY <1>4, <1>5, <1>6, <1>7, <1>8, <1>9, <1>10, <1>11, <1>12, <1>13, <1>14, <1>15, <1>16,
           <1>17, <1>18, RestProperties

LEMMA BlockedLists == /\ Blocked(TRUE) = <<"requeue", "block", "pause">>
                      /\ Blocked(FALSE) = <<"requeue", "block">>
<1> DEFINE S == {"requeue", "block", "pause"}
           s == <<"requeue", "block">>
           p == <<"pause">>
<1>1. s \in Seq(S) /\ p \in Seq(S) /\ Len(s) = 2 /\ Len(p) = 1
  OBVIOUS
<1>2. /\ s \o p \in Seq(S) /\ Len(s \o p) = 3
      /\ \A i \in 1 .. 3 : (s \o p)[i] = IF i <= 2 THEN s[i] ELSE p[i - 2]
  <2>1. /\ s \o p \in Seq(S) /\ Len(s \o p) = Len(s) + Len(p)
        /\ \A i \in 1 .. Len(s) + Len(p) : (s \o p)[i] = IF i <= Len(s) THEN s[i] ELSE p[i - Len(s)]
    BY <1>1, ConcatProperties
  <2> QED BY <1>1, <2>1
<1>3. (s \o p)[1] = "requeue" /\ (s \o p)[2] = "block" /\ (s \o p)[3] = "pause"
  BY <1>2
<1>4. s \o p = <<"requeue", "block", "pause">>
  <2> DEFINE t == s \o p
  <2>1. t \in Seq(S) /\ Len(t) = 3 /\ t[1] = "requeue" /\ t[2] = "block" /\ t[3] = "pause"
    BY <1>2, <1>3
  <2> HIDE DEF t, s, p
  <2>2. t = <<t[1], t[2], t[3]>>
    BY <2>1
  <2> QED BY <2>1, <2>2 DEF t
<1>5. s \o <<>> = s
  BY <1>1, ConcatEmptySeq
<1> QED BY <1>4, <1>5 DEF Blocked

\* The heads of the lists of a phase.
LEMMA PhaseHeads ==
  ASSUME NEW t \in Seq(Steps)
  PROVE  /\ Unclaimed(t) => t # <<>> /\ Head(t) \in {"begin", "agent", "acquire"}
         /\ Claimed(t) => t # <<>> /\ Head(t) \in {"preflight", "reserve"}
         /\ Paid(t) => t # <<>> /\ Head(t) \in {"create", "bind", "mark", "worker", "commit"}
         /\ Charged(t) => t # <<>> /\ Head(t) \in {"reread", "pause", "finish", "settle", "release"}
         /\ Over(t) => t = <<>> \/ (Head(t) \in LastSteps /\ Over(Tail(t)))
         /\ Charged(t) => ~Over(t)
<1>1. <<"begin">> # <<>> /\ Head(<<"begin">>) = "begin"
  OBVIOUS
<1>2. ASSUME NEW s \in Seq(LastSteps), s # <<>>
      PROVE  Head(s) \in LastSteps /\ Tail(s) \in Seq(LastSteps)
  BY <1>2, HeadTailProperties
<1>3. Over(t) => t = <<>> \/ (Head(t) \in LastSteps /\ Over(Tail(t)))
  BY <1>2 DEF Over
<1>4. ASSUME Charged(t), Over(t) PROVE FALSE
  <2>1. Head(t) \in LastSteps /\ t # <<>> /\ Over(Tail(t))
    BY <1>3, <1>4, RestSteps DEF Charged
  <2>2. Tail(t) = Rest(10)
    BY <1>4, <2>1, RestSteps DEF Charged, LastSteps
  <2>3. Head(Rest(10)) \in LastSteps
    BY <1>2, <2>1, <2>2, RestSteps DEF Over
  <2> QED BY <2>3, RestSteps DEF LastSteps
<1> QED BY <1>1, <1>3, <1>4, RestSteps DEF Unclaimed, Claimed, Paid, Charged

\* The phases are disjoint.
LEMMA PhaseIs ==
  ASSUME NEW t \in Seq(Steps)
  PROVE  /\ Unclaimed(t) => Phase(t) = "unclaimed"
         /\ Claimed(t) => Phase(t) = "claimed"
         /\ Paid(t) => Phase(t) = "paid"
         /\ Charged(t) => Phase(t) = "charged"
         /\ Refunding(t) => Phase(t) = "refunding"
         /\ Returning(t) => Phase(t) = "returning"
         /\ Over(t) => Phase(t) = "over"
         /\ Phase(t) = "unclaimed" => Unclaimed(t)
         /\ Phase(t) = "claimed" => Claimed(t)
         /\ Phase(t) = "paid" => Paid(t)
         /\ Phase(t) = "charged" => Charged(t)
         /\ Phase(t) = "refunding" => Refunding(t)
         /\ Phase(t) = "returning" => Returning(t)
         /\ Phase(t) = "over" => Over(t)
  BY PhaseHeads DEF Phase, Refunding, Returning, LastSteps

\* The next step tells the phase, and the phase of the rest.
LEMMA PhaseSteps ==
  ASSUME NEW t \in Seq(Steps), t # <<>>, Phase(t) # "none"
  PROVE  /\ Head(t) = "begin" => t = <<"begin">> /\ Phase(t) = "unclaimed"
         /\ Head(t) = "agent" => /\ Phase(t) = "unclaimed" /\ Phase(Tail(t)) = "unclaimed"
                                 /\ Head(Tail(t)) = "acquire"
         /\ Head(t) = "acquire" => Phase(t) = "unclaimed" /\ Phase(Tail(t)) = "claimed"
         /\ Head(t) = "preflight" => Phase(t) = "claimed" /\ Phase(Tail(t)) = "claimed"
         /\ Head(t) = "reserve" => Phase(t) = "claimed" /\ Phase(Tail(t)) = "paid"
         /\ Head(t) \in {"create", "bind", "mark", "worker"} =>
              Phase(t) = "paid" /\ Phase(Tail(t)) = "paid"
         /\ Head(t) = "commit" => Phase(t) = "paid" /\ Tail(t) = Rest(10)
         /\ Head(t) = "reread" => Phase(t) = "charged" /\ Tail(t) = Rest(10)
         /\ Head(t) = "pause" => Phase(t) \in {"charged", "over"} /\ Phase(Tail(t)) = Phase(t)
         /\ Head(t) \in {"finish", "settle"} =>
              Phase(t) = "charged" /\ Phase(Tail(t)) = "charged"
         /\ Head(t) = "release" => Phase(t) = "charged"
         /\ Head(t) = "refund" => Phase(t) = "refunding" /\ Phase(Tail(t)) = "returning"
         /\ Head(t) = "requeue" => Phase(t) = "returning" /\ Phase(Tail(t)) = "over"
         /\ Head(t) \in {"failrun", "fail", "block"} =>
              Phase(t) = "over" /\ Phase(Tail(t)) = "over"
<1>1. Tail(t) \in Seq(Steps)
  BY HeadTailProperties
<1>2. Head(<<"begin">>) = "begin"
  OBVIOUS
<1>5. CASE Unclaimed(t)
  BY <1>1, <1>2, <1>5, RestSteps, PhaseIs DEF Unclaimed, Claimed
<1>6. CASE Claimed(t)
  BY <1>1, <1>2, <1>6, RestSteps, PhaseIs DEF Claimed, Paid
<1>7. CASE Paid(t)
  BY <1>1, <1>2, <1>7, RestSteps, PhaseIs DEF Paid
<1>8. CASE Charged(t)
  BY <1>1, <1>2, <1>8, RestSteps, PhaseIs DEF Charged
<1>9. CASE Refunding(t)
  BY <1>1, <1>9, PhaseIs DEF Refunding
<1>10. CASE Returning(t)
  BY <1>1, <1>10, PhaseIs DEF Returning
<1>11. CASE Over(t)
  BY <1>1, <1>11, PhaseIs, PhaseHeads DEF LastSteps
<1> QED BY <1>5, <1>6, <1>7, <1>8, <1>9, <1>10, <1>11 DEF Phase

\* The lists that replace what was left.
LEMMA NewLists ==
  /\ <<>> \in Seq(Steps) /\ Phase(<<>>) = "over"
  /\ <<"begin">> \in Seq(Steps) /\ Phase(<<"begin">>) = "unclaimed"
  /\ DispatchOnce \in Seq(Steps) /\ Phase(DispatchOnce) = "unclaimed"
  /\ FailDispatch \in Seq(Steps) /\ Phase(FailDispatch) = "refunding"
  /\ <<"refund", "requeue", "fail">> \in Seq(Steps)
  /\ Phase(<<"refund", "requeue", "fail">>) = "refunding"
  /\ <<"requeue">> \in Seq(Steps) /\ Phase(<<"requeue">>) = "returning"
  /\ \A pause \in BOOLEAN : Blocked(pause) \in Seq(Steps) /\ Phase(Blocked(pause)) = "returning"
  /\ Rest(10) \in Seq(Steps) /\ Phase(Rest(10)) = "charged"
  /\ \A step \in {"reread", "pause"} : /\ <<step>> \o Rest(10) \in Seq(Steps)
                                       /\ Phase(<<step>> \o Rest(10)) = "charged"
  /\ <<>> \o Rest(10) = Rest(10)
<1>1. /\ <<>> \in Seq(Steps) /\ Phase(<<>>) = "over"
      /\ <<"begin">> \in Seq(Steps) /\ Phase(<<"begin">>) = "unclaimed"
  <2>1. <<>> \in Seq(Steps) /\ <<>> \in Seq(LastSteps) /\ <<"begin">> \in Seq(Steps)
    BY DEF Steps
  <2> QED BY <2>1, PhaseIs DEF Over, Unclaimed
<1>2. DispatchOnce \in Seq(Steps) /\ Phase(DispatchOnce) = "unclaimed"
  BY RestSteps, PhaseIs DEF Unclaimed
<1>3. ASSUME NEW t \in Seq(Steps), t # <<>>, Head(t) = "requeue", Tail(t) \in Seq(LastSteps)
      PROVE  Phase(t) = "returning"
  BY <1>3, PhaseIs DEF Returning, Over
<1>4. ASSUME NEW t \in Seq(Steps), t # <<>>, Head(t) = "refund", Tail(t) # <<>>,
             Head(Tail(t)) = "requeue", Tail(Tail(t)) \in Seq(LastSteps)
      PROVE  Phase(t) = "refunding"
  BY <1>4, PhaseIs DEF Refunding, Returning, Over
<1>5. FailDispatch \in Seq(Steps) /\ Phase(FailDispatch) = "refunding"
  <2>1. /\ FailDispatch \in Seq(Steps) /\ FailDispatch # <<>> /\ Head(FailDispatch) = "refund"
        /\ Tail(FailDispatch) = <<"requeue", "failrun", "fail">>
    BY DEF FailDispatch, Steps
  <2>2. /\ <<"requeue", "failrun", "fail">> # <<>>
        /\ Head(<<"requeue", "failrun", "fail">>) = "requeue"
        /\ Tail(<<"requeue", "failrun", "fail">>) \in Seq(LastSteps)
    BY DEF LastSteps
  <2> QED BY <1>4, <2>1, <2>2
<1>6. /\ <<"refund", "requeue", "fail">> \in Seq(Steps)
      /\ Phase(<<"refund", "requeue", "fail">>) = "refunding"
  <2> DEFINE t == <<"refund", "requeue", "fail">>
  <2>1. t \in Seq(Steps) /\ t # <<>> /\ Head(t) = "refund" /\ Tail(t) = <<"requeue", "fail">>
    BY DEF Steps
  <2>2. /\ <<"requeue", "fail">> # <<>> /\ Head(<<"requeue", "fail">>) = "requeue"
        /\ Tail(<<"requeue", "fail">>) \in Seq(LastSteps)
    BY DEF LastSteps
  <2> HIDE DEF t
  <2>3. Phase(t) = "refunding"
    BY <1>4, <2>1, <2>2
  <2> QED BY <2>1, <2>3 DEF t
<1>7. <<"requeue">> \in Seq(Steps) /\ Phase(<<"requeue">>) = "returning"
  <2> DEFINE t == <<"requeue">>
  <2>1. t \in Seq(Steps) /\ t # <<>> /\ Head(t) = "requeue" /\ Tail(t) \in Seq(LastSteps)
    BY DEF Steps
  <2> HIDE DEF t
  <2>2. Phase(t) = "returning"
    BY <1>3, <2>1
  <2> QED BY <2>1, <2>2 DEF t
<1>8. ASSUME NEW pause \in BOOLEAN
      PROVE  Blocked(pause) \in Seq(Steps) /\ Phase(Blocked(pause)) = "returning"
  <2>1. CASE pause
    <3> DEFINE t == <<"requeue", "block", "pause">>
    <3>1. t \in Seq(Steps) /\ t # <<>> /\ Head(t) = "requeue" /\ Tail(t) = <<"block", "pause">>
      BY DEF Steps
    <3>2. <<"block", "pause">> \in Seq(LastSteps)
      BY DEF LastSteps
    <3> HIDE DEF t
    <3>3. Phase(t) = "returning"
      BY <1>3, <3>1, <3>2
    <3> QED BY <2>1, <3>1, <3>3, BlockedLists DEF t
  <2>2. CASE ~pause
    <3> DEFINE t == <<"requeue", "block">>
    <3>1. t \in Seq(Steps) /\ t # <<>> /\ Head(t) = "requeue" /\ Tail(t) = <<"block">>
      BY DEF Steps
    <3>2. <<"block">> \in Seq(LastSteps)
      BY DEF LastSteps
    <3> HIDE DEF t
    <3>3. Phase(t) = "returning"
      BY <1>3, <3>1, <3>2
    <3> QED BY <2>2, <3>1, <3>3, BlockedLists DEF t
  <2> QED BY <2>1, <2>2
<1>9. Rest(10) \in Seq(Steps) /\ Phase(Rest(10)) = "charged"
  BY RestSteps, PhaseIs DEF Charged
<1>10. ASSUME NEW step \in {"reread", "pause"}
       PROVE  <<step>> \o Rest(10) \in Seq(Steps) /\ Phase(<<step>> \o Rest(10)) = "charged"
  <2> DEFINE t == <<step>> \o Rest(10)
  <2>1. t \in Seq(Steps) /\ t # <<>> /\ Head(t) = step /\ Tail(t) = Rest(10)
    BY <1>9, Push DEF Steps
  <2> HIDE DEF t
  <2>2. Phase(t) = "charged"
    BY <2>1, PhaseIs DEF Charged
  <2> QED BY <2>1, <2>2 DEF t
<1>11. <<>> \o Rest(10) = Rest(10)
  BY <1>9, ConcatEmptySeq
<1> QED BY <1>1, <1>2, <1>5, <1>6, <1>7, <1>8, <1>9, <1>10, <1>11

\* A list is opaque in what follows.
StepLists == Seq(Steps)

LEMMA NewStepLists ==
  /\ <<>> \in StepLists /\ Phase(<<>>) = "over"
  /\ <<"begin">> \in StepLists /\ Phase(<<"begin">>) = "unclaimed"
  /\ DispatchOnce \in StepLists /\ Phase(DispatchOnce) = "unclaimed"
  /\ FailDispatch \in StepLists /\ Phase(FailDispatch) = "refunding"
  /\ <<"refund", "requeue", "fail">> \in StepLists
  /\ Phase(<<"refund", "requeue", "fail">>) = "refunding"
  /\ <<"requeue">> \in StepLists /\ Phase(<<"requeue">>) = "returning"
  /\ \A pause \in BOOLEAN : Blocked(pause) \in StepLists /\ Phase(Blocked(pause)) = "returning"
  /\ Rest(10) \in StepLists /\ Phase(Rest(10)) = "charged"
  /\ \A step \in {"reread", "pause"} : /\ <<step>> \o Rest(10) \in StepLists
                                       /\ Phase(<<step>> \o Rest(10)) = "charged"
  /\ <<>> \o Rest(10) = Rest(10)
  BY NewLists DEF StepLists

LEMMA ListSteps ==
  \A t \in StepLists :
    t # <<>> /\ Phase(t) # "none" =>
      /\ Head(t) = "begin" => t = <<"begin">> /\ Phase(t) = "unclaimed"
      /\ Head(t) = "agent" => /\ Phase(t) = "unclaimed" /\ Phase(Tail(t)) = "unclaimed"
                              /\ Head(Tail(t)) = "acquire"
      /\ Head(t) = "acquire" => Phase(t) = "unclaimed" /\ Phase(Tail(t)) = "claimed"
      /\ Head(t) = "preflight" => Phase(t) = "claimed" /\ Phase(Tail(t)) = "claimed"
      /\ Head(t) = "reserve" => Phase(t) = "claimed" /\ Phase(Tail(t)) = "paid"
      /\ Head(t) \in {"create", "bind", "mark", "worker"} =>
           Phase(t) = "paid" /\ Phase(Tail(t)) = "paid"
      /\ Head(t) = "commit" => Phase(t) = "paid" /\ Tail(t) = Rest(10)
      /\ Head(t) = "reread" => Phase(t) = "charged" /\ Tail(t) = Rest(10)
      /\ Head(t) = "pause" => Phase(t) \in {"charged", "over"} /\ Phase(Tail(t)) = Phase(t)
      /\ Head(t) \in {"finish", "settle"} =>
           Phase(t) = "charged" /\ Phase(Tail(t)) = "charged"
      /\ Head(t) = "release" => Phase(t) = "charged"
      /\ Head(t) = "refund" => Phase(t) = "refunding" /\ Phase(Tail(t)) = "returning"
      /\ Head(t) = "requeue" => Phase(t) = "returning" /\ Phase(Tail(t)) = "over"
      /\ Head(t) \in {"failrun", "fail", "block"} =>
           Phase(t) = "over" /\ Phase(Tail(t)) = "over"
  BY PhaseSteps DEF StepLists

-----------------------------------------------------------------------------
(* Runs. *)

Reports == {"none", "error", "not_started", "blocked", "ok", "failed"}
RunRow == [todo : StepLists, work : Works \cup {NoWork}, lease : Leases \cup {NoLease},
           left : Left, status : WorkStatus, attempt : Nat, reported : Reports]

\* In these phases a run has a lease.
Holding == {"claimed", "paid", "charged", "refunding", "returning"}

RunOK(row) ==
  /\ Phase(row.todo) # "none"
  /\ row.todo # <<"begin">> => row.work \in Works
  /\ Phase(row.todo) \in Holding => row.lease \in Leases

DispatchTypes ==
  /\ QueueTypeOK
  /\ runRow \in [Runs -> {"none", "running", "succeeded", "failed"}]
  /\ run \in [Runs -> RunRow]
  /\ \A r \in Runs : RunOK(run[r])

\* Run r goes on with list t; what it works on stays the same.
Becomes(r, t) ==
  /\ run' \in [Runs -> RunRow]
  /\ \A q \in Runs \ {r} : run'[q] = run[q]
  /\ run'[r].work = run[r].work /\ run'[r].lease = run[r].lease
  /\ run'[r].todo = t

LEMMA GotoBecomes ==
  ASSUME DispatchTypes, NEW r \in Runs, NEW t \in StepLists, Goto(r, t)
  PROVE  Becomes(r, t)
<1>1. run[r] \in RunRow
  BY DEF DispatchTypes
<1> DEFINE row == [run[r] EXCEPT !.todo = t]
<1>2. row \in RunRow /\ row.todo = t /\ row.work = run[r].work /\ row.lease = run[r].lease
  BY <1>1 DEF RunRow
<1>3. run' = [run EXCEPT ![r] = row]
  BY DEF Goto
<1> HIDE DEF row
<1> QED BY <1>2, <1>3 DEF DispatchTypes, Becomes

LEMMA ReturnBecomes ==
  ASSUME DispatchTypes, NEW r \in Runs, NEW result \in Reports, Return(r, result)
  PROVE  Becomes(r, <<>>)
<1>1. run[r] \in RunRow /\ <<>> \in StepLists
  BY NewStepLists DEF DispatchTypes
<1> DEFINE row == [run[r] EXCEPT !.todo = <<>>, !.reported = result]
<1>2. row \in RunRow /\ row.todo = <<>> /\ row.work = run[r].work /\ row.lease = run[r].lease
  BY <1>1 DEF RunRow
<1>3. run' = [run EXCEPT ![r] = row]
  BY DEF Return
<1> HIDE DEF row
<1> QED BY <1>2, <1>3 DEF DispatchTypes, Becomes

LEMMA ProceedBecomes ==
  ASSUME DispatchTypes, NEW r \in Runs, run[r].todo # <<>>
  PROVE  /\ Tail(run[r].todo) \in StepLists
         /\ Proceed(r) => Becomes(r, Tail(run[r].todo))
         /\ \A result \in Reports :
              ProceedOrReturn(r, result) => Becomes(r, Tail(run[r].todo))
<1> DEFINE t == run[r].todo
<1>1. t \in StepLists /\ t # <<>>
  BY DEF DispatchTypes, RunOK, RunRow
<1> HIDE DEF t
<1>2. Tail(t) \in StepLists /\ Len(Tail(t)) = Len(t) - 1
  BY <1>1, HeadTailProperties DEF StepLists
<1>3. Len(t) = 1 => Tail(t) = <<>>
  <2>1. Tail(t) # <<>> => Len(Tail(t)) \in Nat \ {0}
    BY <1>2, EmptySeq DEF StepLists
  <2> QED BY <1>2, <2>1
<1> QED BY <1>2, <1>3, GotoBecomes, ReturnBecomes DEF t, Proceed, ProceedOrReturn

\* A step of run r between two phases, for a run that has read its item.
Moves(r, from, to) ==
  /\ run' \in [Runs -> RunRow]
  /\ \A q \in Runs \ {r} : run'[q] = run[q]
  /\ run'[r].work = run[r].work /\ run'[r].lease = run[r].lease
  /\ run[r].todo # <<"begin">> /\ run'[r].todo # <<"begin">>
  /\ Phase(run[r].todo) \in from /\ Phase(run'[r].todo) \in to
  /\ Phase(run'[r].todo) # "none"

LEMMA BecomesMoves ==
  ASSUME DispatchTypes, NEW r \in Runs, NEW t \in StepLists, Becomes(r, t),
         NEW from, NEW to, Phase(run[r].todo) \in from, Phase(t) \in to, Phase(t) # "none",
         run[r].todo # <<"begin">>, t # <<"begin">>
  PROVE  Moves(r, from, to)
  BY DEF Becomes, Moves

\* The phases a step goes between.
LEMMA StepMoves ==
  ASSUME DispatchTypes, NEW r \in Runs
  PROVE  /\ LoadAgent(r) => Moves(r, {"unclaimed"}, {"unclaimed", "over"})
         /\ NotStarted(r) => Moves(r, {"unclaimed"}, {"over"})
         /\ NoPolicy(r) => Moves(r, {"claimed"}, {"returning"})
         /\ BudgetPreflight(r) => Moves(r, {"claimed"}, {"claimed", "returning"})
         /\ Reserve(r) => Moves(r, {"claimed"}, {"paid"})
         /\ ReserveRefused(r) => Moves(r, {"claimed"}, {"returning"})
         /\ CreateRun(r) => Moves(r, {"paid"}, {"paid", "refunding"})
         /\ StepFails(r) => Moves(r, {"paid"}, {"refunding"})
         /\ MarkRunning(r) => Moves(r, {"paid"}, {"paid"})
         /\ RunWorker(r) => Moves(r, {"paid"}, {"paid", "refunding"})
         /\ \A actual : CommitBudget(r, actual) => Moves(r, {"paid"}, {"charged"})
         /\ RereadAgent(r) => Moves(r, {"charged"}, {"charged"})
         /\ PauseAgent(r) => Moves(r, {"charged"}, {"charged"}) \/ Moves(r, {"over"}, {"over"})
         /\ FinishRun(r) => Moves(r, {"charged"}, {"charged", "over"})
         /\ SettleItem(r) => Moves(r, {"charged"}, {"charged"})
         /\ FinishLease(r) => Moves(r, {"charged"}, {"over"})
         /\ RequeueLease(r) => Moves(r, {"returning"}, {"over"})
         /\ BlockItem(r) => Moves(r, {"over"}, {"over"})
         /\ Refund(r) => Moves(r, {"refunding"}, {"returning"})
         /\ FailRun(r) => Moves(r, {"over"}, {"over"})
         /\ FailItem(r) => Moves(r, {"over"}, {"over"})
         /\ Crash(r) => Moves(r, {Phase(run[r].todo)}, {"over"})
<1> DEFINE t == run[r].todo
           s == Tail(t)
<1>1. t \in StepLists /\ Phase(t) # "none"
  BY DEF DispatchTypes, RunOK, RunRow
<1>2. /\ Head(<<"begin">>) = "begin" /\ <<"begin">> # <<>> /\ Phase(<<"begin">>) = "unclaimed"
      /\ <<>> # <<"begin">> /\ Phase(<<>>) = "over" /\ <<>> \in StepLists
  BY NewStepLists
<1>3. ASSUME NEW step, At(r, step) PROVE t # <<>> /\ Head(t) = step /\ s \in StepLists
  BY <1>3, ProceedBecomes DEF At
<1>4. ASSUME NEW step, At(r, step), step # "begin", step # "agent", Proceed(r),
             NEW from, NEW to, Phase(t) \in from, Phase(s) \in to, Phase(s) \notin {"none", "unclaimed"}
      PROVE  Moves(r, from, to)
  BY <1>1, <1>2, <1>3, <1>4, ProceedBecomes, BecomesMoves
<1>5. ASSUME NEW step, At(r, step), step # "begin", NEW u \in StepLists, Goto(r, u),
             NEW from, NEW to, Phase(t) \in from, Phase(u) \in to, Phase(u) \notin {"none", "unclaimed"}
      PROVE  Moves(r, from, to)
  BY <1>1, <1>2, <1>3, <1>5, GotoBecomes, BecomesMoves
<1>6. ASSUME NEW step, At(r, step), step # "begin", NEW result \in Reports, Return(r, result),
             NEW from, NEW to, Phase(t) \in from, "over" \in to
      PROVE  Moves(r, from, to)
  BY <1>1, <1>2, <1>3, <1>6, ReturnBecomes, BecomesMoves
<1>7. ASSUME NEW step, At(r, step), step # "begin", NEW result \in Reports, ProceedOrReturn(r, result),
             NEW from, NEW to, Phase(t) \in from, Phase(s) \in to, Phase(s) \notin {"none", "unclaimed"}
      PROVE  Moves(r, from, to)
  BY <1>1, <1>2, <1>3, <1>7, ProceedBecomes, BecomesMoves
<1>8. {"error", "not_started", "blocked", "ok", "failed"} \subseteq Reports
  BY DEF Reports
<1>9. LoadAgent(r) => Moves(r, {"unclaimed"}, {"unclaimed", "over"})
  <2>1. ASSUME LoadAgent(r), Proceed(r) PROVE Moves(r, {"unclaimed"}, {"unclaimed", "over"})
    <3>1. At(r, "agent") /\ t # <<>> /\ Head(t) = "agent" /\ s \in StepLists
      BY <1>3, <2>1 DEF LoadAgent
    <3>2. Phase(t) = "unclaimed" /\ Phase(s) = "unclaimed" /\ Head(s) = "acquire"
      BY <1>1, <3>1, ListSteps
    <3>3. Becomes(r, s)
      BY <2>1, <3>1, ProceedBecomes
    <3>4. t # <<"begin">> /\ s # <<"begin">>
      BY <1>2, <3>1, <3>2
    <3>5. ASSUME NEW u \in StepLists, u # <<"begin">>, Becomes(r, u), Phase(u) = "unclaimed"
          PROVE  Moves(r, {"unclaimed"}, {"unclaimed", "over"})
      BY <3>2, <3>4, <3>5, BecomesMoves
    <3> QED BY <3>1, <3>2, <3>3, <3>4, <3>5
  <2>2. ASSUME LoadAgent(r), Return(r, "error") PROVE Moves(r, {"unclaimed"}, {"unclaimed", "over"})
    BY <1>1, <1>3, <1>6, <1>8, <2>2, ListSteps DEF LoadAgent
  <2> QED BY <2>1, <2>2 DEF LoadAgent
<1>10. NotStarted(r) => Moves(r, {"unclaimed"}, {"over"})
  BY <1>1, <1>3, <1>6, <1>8, ListSteps DEF NotStarted
<1>11. NoPolicy(r) => Moves(r, {"claimed"}, {"returning"})
  BY <1>1, <1>3, <1>5, NewStepLists, ListSteps DEF NoPolicy
<1>12. BudgetPreflight(r) => Moves(r, {"claimed"}, {"claimed", "returning"})
  <2>1. (OnExhausted = "pause_agent") \in BOOLEAN
    OBVIOUS
  <2>2. ASSUME BudgetPreflight(r)
        PROVE  /\ At(r, "preflight")
               /\ Proceed(r) \/ Goto(r, Blocked(OnExhausted = "pause_agent"))
    BY <2>2 DEF BudgetPreflight
  <2>3. \A pause \in BOOLEAN : At(r, "preflight") /\ Goto(r, Blocked(pause)) =>
                                Moves(r, {"claimed"}, {"claimed", "returning"})
    BY <1>1, <1>3, <1>5, NewStepLists, ListSteps
  <2>4. At(r, "preflight") /\ Proceed(r) => Moves(r, {"claimed"}, {"claimed", "returning"})
    BY <1>1, <1>3, <1>4, ListSteps
  <2> QED BY <2>1, <2>2, <2>3, <2>4
<1>13. Reserve(r) => Moves(r, {"claimed"}, {"paid"})
  BY <1>1, <1>3, <1>4, ListSteps DEF Reserve
<1>14. ReserveRefused(r) => Moves(r, {"claimed"}, {"returning"})
  <2>1. \A pause \in BOOLEAN : At(r, "reserve") /\ Goto(r, Blocked(pause)) =>
                                Moves(r, {"claimed"}, {"returning"})
    BY <1>1, <1>3, <1>5, NewStepLists, ListSteps
  <2>2. FALSE \in BOOLEAN
    OBVIOUS
  <2> QED BY <2>1, <2>2 DEF ReserveRefused
<1>15. CreateRun(r) => Moves(r, {"paid"}, {"paid", "refunding"})
  BY <1>1, <1>3, <1>4, <1>5, NewStepLists, ListSteps DEF CreateRun
<1>16. StepFails(r) => Moves(r, {"paid"}, {"refunding"})
  BY <1>1, <1>3, <1>5, NewStepLists, ListSteps DEF StepFails
<1>17. MarkRunning(r) => Moves(r, {"paid"}, {"paid"})
  BY <1>1, <1>3, <1>4, ListSteps DEF MarkRunning
<1>18. RunWorker(r) => Moves(r, {"paid"}, {"paid", "refunding"})
  BY <1>1, <1>3, <1>4, <1>5, NewStepLists, ListSteps DEF RunWorker
<1>19. \A actual : CommitBudget(r, actual) => Moves(r, {"paid"}, {"charged"})
  <2> SUFFICES ASSUME NEW actual, CommitBudget(r, actual) PROVE Moves(r, {"paid"}, {"charged"})
    OBVIOUS
  <2>1. At(r, "commit") /\ t # <<>> /\ Head(t) = "commit"
    BY <1>3 DEF CommitBudget
  <2>2. Phase(t) = "paid" /\ s = Rest(10)
    BY <1>1, <2>1, ListSteps
  <2>3. Goto(r, <<"reread">> \o Rest(10)) \/ Goto(r, <<>> \o Rest(10))
    BY <2>2 DEF CommitBudget
  <2>4. <<"reread">> \o Rest(10) \in StepLists /\ Phase(<<"reread">> \o Rest(10)) = "charged"
    BY NewStepLists
  <2>5. Goto(r, <<"reread">> \o Rest(10)) => Moves(r, {"paid"}, {"charged"})
    BY <1>5, <2>1, <2>2, <2>4
  <2>6. Goto(r, <<>> \o Rest(10)) => Moves(r, {"paid"}, {"charged"})
    BY <1>5, <2>1, <2>2, NewStepLists
  <2> QED BY <2>3, <2>5, <2>6
<1>20. RereadAgent(r) => Moves(r, {"charged"}, {"charged"})
  <2> SUFFICES ASSUME RereadAgent(r) PROVE Moves(r, {"charged"}, {"charged"})
    OBVIOUS
  <2>1. At(r, "reread") /\ t # <<>> /\ Head(t) = "reread"
    BY <1>3 DEF RereadAgent
  <2>2. Phase(t) = "charged" /\ s = Rest(10)
    BY <1>1, <2>1, ListSteps
  <2>3. Goto(r, <<"pause">> \o Rest(10)) \/ Goto(r, <<>> \o Rest(10))
    BY <2>2 DEF RereadAgent
  <2> QED BY <1>5, <2>1, <2>2, <2>3, NewStepLists
<1>21. PauseAgent(r) => Moves(r, {"charged"}, {"charged"}) \/ Moves(r, {"over"}, {"over"})
  BY <1>1, <1>3, <1>7, <1>8, ListSteps DEF PauseAgent
<1>22. FinishRun(r) => Moves(r, {"charged"}, {"charged", "over"})
  BY <1>1, <1>3, <1>4, <1>6, <1>8, ListSteps DEF FinishRun
<1>23. SettleItem(r) => Moves(r, {"charged"}, {"charged"})
  BY <1>1, <1>3, <1>4, ListSteps DEF SettleItem
<1>24. FinishLease(r) => Moves(r, {"charged"}, {"over"})
  BY <1>1, <1>3, <1>6, <1>8, ListSteps DEF FinishLease
<1>25. RequeueLease(r) => Moves(r, {"returning"}, {"over"})
  BY <1>1, <1>3, <1>7, <1>8, ListSteps DEF RequeueLease
<1>26. BlockItem(r) => Moves(r, {"over"}, {"over"})
  BY <1>1, <1>3, <1>7, <1>8, ListSteps DEF BlockItem
<1>27. Refund(r) => Moves(r, {"refunding"}, {"returning"})
  BY <1>1, <1>3, <1>4, ListSteps DEF Refund
<1>28. FailRun(r) => Moves(r, {"over"}, {"over"})
  BY <1>1, <1>3, <1>4, ListSteps DEF FailRun
<1>29. FailItem(r) => Moves(r, {"over"}, {"over"})
  BY <1>1, <1>3, <1>6, <1>8, ListSteps DEF FailItem
<1>30. Crash(r) => Moves(r, {Phase(run[r].todo)}, {"over"})
  BY <1>1, <1>2, GotoBecomes, BecomesMoves DEF Crash, At, Ended
<1> QED BY <1>9, <1>10, <1>11, <1>12, <1>13, <1>14, <1>15, <1>16, <1>17, <1>18, <1>19, <1>20,
           <1>21, <1>22, <1>23, <1>24, <1>25, <1>26, <1>27, <1>28, <1>29, <1>30

\* The steps that change more of a run than its list.
LEMMA LoadMoves ==
  ASSUME DispatchTypes, NEW r \in Runs, NEW w \in Works, NEW l \in Leases \cup {NoLease},
         LoadWorkItem(r, w, l)
  PROVE  /\ run' \in [Runs -> RunRow]
         /\ \A q \in Runs \ {r} : run'[q] = run[q]
         /\ run[r].todo = <<"begin">> /\ run'[r].todo = DispatchOnce
         /\ run'[r].work = w /\ run'[r].lease = l
         /\ Phase(run'[r].todo) = "unclaimed" /\ run'[r].todo # <<"begin">>
<1> DEFINE row == [NotBegun EXCEPT !.todo = DispatchOnce, !.work = w, !.lease = l,
                                   !.status = item[w].status, !.attempt = item[w].attempt]
<1>1. Floor \in Left /\ item[w].status \in WorkStatus /\ item[w].attempt \in Nat
  BY QueueAssumption DEF DispatchTypes, QueueTypeOK, Floor, Left
<1>2. ASSUME NEW c, c = row
      PROVE  c = [todo |-> DispatchOnce, work |-> w, lease |-> l, left |-> Floor,
                  status |-> item[w].status, attempt |-> item[w].attempt, reported |-> "none"]
  BY <1>2 DEF NotBegun
<1>3. run' = [run EXCEPT ![r] = row]
  BY DEF LoadWorkItem
<1> HIDE DEF row
<1>4. row \in RunRow /\ row.todo = DispatchOnce /\ row.work = w /\ row.lease = l
  BY <1>1, <1>2, NewStepLists DEF RunRow, Reports
<1>5. run[r].todo = <<"begin">>
  <2>1. run[r].todo \in StepLists /\ Phase(run[r].todo) # "none"
    BY DEF DispatchTypes, RunOK, RunRow
  <2>2. run[r].todo # <<>> /\ Head(run[r].todo) = "begin"
    BY DEF LoadWorkItem, At
  <2> QED BY <2>1, <2>2, ListSteps
<1>6. DispatchOnce # <<"begin">>
  <2>1. Head(DispatchOnce) = "agent" /\ Head(<<"begin">>) = "begin"
    BY RestSteps
  <2> QED BY <2>1
<1> QED BY <1>3, <1>4, <1>5, <1>6, NewStepLists DEF DispatchTypes

LEMMA AcquireGivenMoves ==
  ASSUME DispatchTypes, NEW r \in Runs, AcquireGiven(r), run[r].lease \in Leases
  PROVE  Moves(r, {"unclaimed"}, {"claimed", "over"})
<1> DEFINE t == run[r].todo
           l == run[r].lease
           row == [run[r] EXCEPT !.todo = Tail(@), !.left = lease[l].left]
<1>1. /\ t \in StepLists /\ Phase(t) # "none" /\ t # <<>> /\ Head(t) = "acquire"
      /\ run[r] \in RunRow
  BY DEF DispatchTypes, RunOK, RunRow, AcquireGiven, At
<1>2. Phase(t) = "unclaimed" /\ Phase(Tail(t)) = "claimed" /\ Tail(t) \in StepLists
  BY <1>1, ListSteps, ProceedBecomes
<1>3. t # <<"begin">> /\ Tail(t) # <<"begin">>
  <2>1. Head(<<"begin">>) = "begin" /\ Phase(<<"begin">>) = "unclaimed"
    BY NewStepLists
  <2> QED BY <1>1, <1>2, <2>1
<1>4. CASE run' = [run EXCEPT ![r] = row]
  <2>1. lease[l].left \in Left
    BY DEF DispatchTypes, QueueTypeOK, LeaseRow
  <2>2. row \in RunRow /\ row.todo = Tail(t) /\ row.work = run[r].work /\ row.lease = run[r].lease
    BY <1>1, <1>2, <2>1 DEF RunRow
  <2> HIDE DEF row
  <2>3. Becomes(r, Tail(t))
    BY <1>4, <2>2 DEF Becomes, DispatchTypes
  <2>4. ASSUME NEW u \in StepLists, Becomes(r, u), u # <<"begin">>, Phase(u) = "claimed"
        PROVE  Moves(r, {"unclaimed"}, {"claimed", "over"})
    BY <1>2, <1>3, <2>4, BecomesMoves
  <2> QED BY <1>2, <1>3, <2>3, <2>4
<1>5. CASE Return(r, "error")
  <2>1. Becomes(r, <<>>)
    BY <1>5, ReturnBecomes DEF Reports
  <2>2. ASSUME NEW u \in StepLists, Becomes(r, u), u # <<"begin">>, Phase(u) = "over"
        PROVE  Moves(r, {"unclaimed"}, {"claimed", "over"})
    BY <1>2, <1>3, <2>2, BecomesMoves
  <2>3. <<>> # <<"begin">>
    OBVIOUS
  <2> QED BY <2>1, <2>2, <2>3, NewStepLists
<1> QED BY <1>4, <1>5 DEF AcquireGiven

LEMMA AcquireClaimMoves ==
  ASSUME DispatchTypes, NEW r \in Runs, NEW l \in Leases, NEW lag \in Lags, AcquireClaim(r, l, lag)
  PROVE  /\ run' \in [Runs -> RunRow]
         /\ \A q \in Runs \ {r} : run'[q] = run[q]
         /\ run'[r].work = run[r].work /\ run'[r].lease = l
         /\ Phase(run[r].todo) = "unclaimed" /\ Phase(run'[r].todo) = "claimed"
         /\ run[r].todo # <<"begin">> /\ run'[r].todo # <<"begin">>
<1> DEFINE t == run[r].todo
           row == [run[r] EXCEPT !.todo = Tail(@), !.lease = l, !.left = TTL - lag]
<1>1. /\ t \in StepLists /\ Phase(t) # "none" /\ t # <<>> /\ Head(t) = "acquire"
      /\ run[r] \in RunRow /\ run' = [run EXCEPT ![r] = row]
  BY DEF DispatchTypes, RunOK, RunRow, AcquireClaim, At
<1>2. Phase(t) = "unclaimed" /\ Phase(Tail(t)) = "claimed" /\ Tail(t) \in StepLists
  BY <1>1, ListSteps, ProceedBecomes
<1>3. t # <<"begin">> /\ Tail(t) # <<"begin">>
  <2>1. Head(<<"begin">>) = "begin" /\ Phase(<<"begin">>) = "unclaimed"
    BY NewStepLists
  <2> QED BY <1>1, <1>2, <2>1
<1>4. TTL - lag \in Left
  BY QueueAssumption DEF Lags, Left, Floor
<1>5. row \in RunRow /\ row.todo = Tail(t) /\ row.work = run[r].work /\ row.lease = l
  BY <1>1, <1>2, <1>4 DEF RunRow
<1> HIDE DEF row
<1> QED BY <1>1, <1>2, <1>3, <1>5 DEF DispatchTypes

LEMMA BindLeaseMoves ==
  ASSUME DispatchTypes, NEW r \in Runs, BindLease(r)
  PROVE  Moves(r, {"paid"}, {"paid", "refunding"})
<1> DEFINE t == run[r].todo
           row == [run[r] EXCEPT !.todo = Tail(@), !.left = Floor]
<1>1. /\ t \in StepLists /\ Phase(t) # "none" /\ t # <<>> /\ Head(t) = "bind"
      /\ run[r] \in RunRow
  BY DEF DispatchTypes, RunOK, RunRow, BindLease, At
<1>2. Phase(t) = "paid" /\ Phase(Tail(t)) = "paid" /\ Tail(t) \in StepLists
  BY <1>1, ListSteps, ProceedBecomes
<1>3. t # <<"begin">> /\ Phase(<<"begin">>) = "unclaimed"
  <2>1. Head(<<"begin">>) = "begin" /\ Phase(<<"begin">>) = "unclaimed"
    BY NewStepLists
  <2> QED BY <1>1, <2>1
<1>4. ASSUME NEW u \in StepLists, Becomes(r, u), Phase(u) \in {"paid", "refunding"}
      PROVE  Moves(r, {"paid"}, {"paid", "refunding"})
  BY <1>2, <1>3, <1>4, BecomesMoves
<1>5. CASE run' = [run EXCEPT ![r] = row]
  <2>1. Floor \in Left
    BY QueueAssumption DEF Floor, Left
  <2>2. row \in RunRow /\ row.todo = Tail(t) /\ row.work = run[r].work /\ row.lease = run[r].lease
    BY <1>1, <1>2, <2>1 DEF RunRow
  <2> HIDE DEF row
  <2>3. Becomes(r, Tail(t))
    BY <1>5, <2>2 DEF Becomes, DispatchTypes
  <2> QED BY <1>2, <1>4, <2>3
<1>6. CASE Goto(r, FailDispatch)
  BY <1>4, <1>6, GotoBecomes, NewStepLists
<1> QED BY <1>5, <1>6 DEF BindLease

\* The copies a dispatch holds grow old; nothing else of a run changes.
LEMMA TimeKeeps ==
  ASSUME DispatchTypes, Time
  PROVE  /\ run' \in [Runs -> RunRow]
         /\ \A r \in Runs : /\ run'[r].todo = run[r].todo /\ run'[r].work = run[r].work
                            /\ run'[r].lease = run[r].lease
<1> DEFINE row(r) == [run[r] EXCEPT !.left = IF @ > Floor THEN @ - 1 ELSE @]
<1>1. ASSUME NEW r \in Runs
      PROVE  /\ row(r) \in RunRow /\ row(r).todo = run[r].todo /\ row(r).work = run[r].work
             /\ row(r).lease = run[r].lease
  <2>1. run[r] \in RunRow /\ run[r].left \in Left
    BY DEF DispatchTypes, RunOK, RunRow
  <2>2. (IF run[r].left > Floor THEN run[r].left - 1 ELSE run[r].left) \in Left
    BY <2>1, QueueAssumption DEF Left, Floor
  <2> QED BY <2>1, <2>2 DEF RunRow
<1>2. run' = [r \in Runs |-> row(r)]
  BY DEF Time
<1> HIDE DEF row
<1> QED BY <1>1, <1>2

-----------------------------------------------------------------------------
(* Types. *)

\* Every step of a run, with the phases around it.
RunSteps(r) ==
  \/ LoadAgent(r) \/ NotStarted(r) \/ AcquireGiven(r) \/ NoPolicy(r) \/ BudgetPreflight(r)
  \/ Reserve(r) \/ ReserveRefused(r) \/ CreateRun(r) \/ StepFails(r) \/ BindLease(r)
  \/ MarkRunning(r) \/ RunWorker(r) \/ (\E actual \in Actuals : CommitBudget(r, actual))
  \/ RereadAgent(r) \/ PauseAgent(r) \/ FinishRun(r) \/ SettleItem(r) \/ FinishLease(r)
  \/ RequeueLease(r) \/ BlockItem(r) \/ Refund(r) \/ FailRun(r) \/ FailItem(r) \/ Crash(r)

LEMMA RunStepMoves ==
  ASSUME DispatchTypes, NEW r \in Runs, RunSteps(r)
  PROVE  /\ \E from, to : Moves(r, from, to)
         /\ Phase(run'[r].todo) \in Holding => run[r].lease \in Leases
<1>1. ASSUME NEW from, NEW to, Moves(r, from, to), from \subseteq Holding \/ to \cap Holding = {}
      PROVE  /\ \E a, b : Moves(r, a, b)
             /\ Phase(run'[r].todo) \in Holding => run[r].lease \in Leases
  BY <1>1 DEF Moves, DispatchTypes, RunOK
<1>2. /\ {"claimed"} \subseteq Holding /\ {"paid"} \subseteq Holding /\ {"charged"} \subseteq Holding
      /\ {"refunding"} \subseteq Holding /\ {"returning"} \subseteq Holding
      /\ {"over"} \cap Holding = {} /\ {"unclaimed", "over"} \cap Holding = {}
  BY DEF Holding
<1>3. CASE AcquireGiven(r)
  <2>1. run[r].lease \in Leases
    BY <1>3 DEF AcquireGiven, DispatchTypes, RunRow
  <2> QED BY <1>3, <2>1, AcquireGivenMoves
<1>4. CASE LoadAgent(r) \/ NotStarted(r) \/ FailRun(r) \/ FailItem(r) \/ BlockItem(r) \/ Crash(r)
  BY <1>1, <1>2, <1>4, StepMoves
<1>5. CASE \/ NoPolicy(r) \/ BudgetPreflight(r) \/ Reserve(r) \/ ReserveRefused(r) \/ CreateRun(r)
           \/ StepFails(r) \/ MarkRunning(r) \/ RunWorker(r)
           \/ (\E actual \in Actuals : CommitBudget(r, actual))
  BY <1>1, <1>2, <1>5, StepMoves
<1>6. CASE \/ RereadAgent(r) \/ PauseAgent(r) \/ FinishRun(r) \/ SettleItem(r) \/ FinishLease(r)
           \/ RequeueLease(r) \/ Refund(r)
  BY <1>1, <1>2, <1>6, StepMoves
<1>7. CASE BindLease(r)
  BY <1>1, <1>2, <1>7, BindLeaseMoves
<1> QED BY <1>3, <1>4, <1>5, <1>6, <1>7 DEF RunSteps

LEMMA DispatchCases ==
  ASSUME DispatchNext
  PROVE  \/ Schedule \/ QueueCommand \/ Time
         \/ \E r \in Runs :
              \/ \E w \in Works, l \in Leases \cup {NoLease} : LoadWorkItem(r, w, l)
              \/ \E l \in Leases, lag \in Lags : AcquireClaim(r, l, lag)
              \/ RunSteps(r)
  BY DEF DispatchNext, DispatchStep, RunSteps

LEMMA RunsStep ==
  ASSUME DispatchTypes, [DispatchNext]_dispatchVars
  PROVE  run' \in [Runs -> RunRow] /\ \A r \in Runs : RunOK(run'[r])
<1>1. CASE UNCHANGED run
  BY <1>1 DEF DispatchTypes
<1>2. CASE Time
  BY <1>2, TimeKeeps DEF DispatchTypes, RunOK
<1>3. ASSUME NEW r \in Runs, NEW w \in Works, NEW l \in Leases \cup {NoLease}, LoadWorkItem(r, w, l)
      PROVE  run' \in [Runs -> RunRow] /\ \A q \in Runs : RunOK(run'[q])
  <2>1. RunOK(run'[r])
    BY <1>3, LoadMoves DEF RunOK, Holding
  <2> QED BY <1>3, <2>1, LoadMoves DEF DispatchTypes
<1>4. ASSUME NEW r \in Runs, NEW l \in Leases, NEW lag \in Lags, AcquireClaim(r, l, lag)
      PROVE  run' \in [Runs -> RunRow] /\ \A q \in Runs : RunOK(run'[q])
  <2>1. RunOK(run'[r])
    BY <1>4, AcquireClaimMoves DEF RunOK, DispatchTypes
  <2> QED BY <1>4, <2>1, AcquireClaimMoves DEF DispatchTypes
<1>5. ASSUME NEW r \in Runs, RunSteps(r)
      PROVE  run' \in [Runs -> RunRow] /\ \A q \in Runs : RunOK(run'[q])
  <2>1. PICK from, to : Moves(r, from, to)
    BY <1>5, RunStepMoves
  <2>2. RunOK(run'[r])
    BY <1>5, <2>1, RunStepMoves DEF RunOK, Moves, DispatchTypes
  <2> QED BY <2>1, <2>2 DEF Moves, DispatchTypes
<1> QED
  BY <1>1, <1>2, <1>3, <1>4, <1>5, DispatchCases DEF Schedule, QueueCommand, dispatchVars

\* Saving a copy of the item, or the lease, or the agent leaves the queue's tables of their types.
LEMMA SavesKeepTypes ==
  ASSUME DispatchTypes, NEW r \in Runs
  PROVE  /\ \A status \in WorkStatus : SaveItem(r, status) => QueueTypeOK'
         /\ BindLease(r) => QueueTypeOK'
         /\ PauseAgent(r) => QueueTypeOK'
<1>1. run[r] \in RunRow /\ QueueTypeOK
  BY DEF DispatchTypes
<1>2. \A status \in WorkStatus : SaveItem(r, status) => QueueTypeOK'
  <2> SUFFICES ASSUME NEW status \in WorkStatus, SaveItem(r, status) PROVE QueueTypeOK'
    OBVIOUS
  <2> DEFINE row == [status |-> status, attempt |-> run[r].attempt]
  <2>1. row \in [status : WorkStatus, attempt : Nat] /\ item' = [item EXCEPT ![run[r].work] = row]
    BY <1>1 DEF SaveItem, RunRow
  <2> HIDE DEF row
  <2>2. item' \in [Works -> [status : WorkStatus, attempt : Nat]]
    BY <1>1, <2>1 DEF QueueTypeOK
  <2> QED BY <1>1, <2>2 DEF SaveItem, QueueTypeOK
<1>3. BindLease(r) => QueueTypeOK'
  BY <1>1 DEF BindLease, QueueTypeOK, RunRow, LeaseRow, LeaseStatus
<1>4. PauseAgent(r) => QueueTypeOK'
  BY <1>1 DEF PauseAgent, QueueTypeOK, AgentStatus
<1> QED BY <1>2, <1>3, <1>4

LEMMA QueueStep ==
  ASSUME DispatchTypes, [DispatchNext]_dispatchVars
  PROVE  QueueTypeOK'
<1>1. QueueTypeOK
  BY DEF DispatchTypes
<1>2. ASSUME UNCHANGED queueVars PROVE QueueTypeOK'
  BY <1>1, <1>2, QueueTypeStep
<1>3. ASSUME QueueNext PROVE QueueTypeOK'
  BY <1>1, <1>3, QueueTypeStep
<1>4. ASSUME NEW l \in Leases, NEW requeue \in BOOLEAN, ReleaseActiveLease(l, requeue)
      PROVE  QueueTypeOK'
  BY <1>2, <1>3, <1>4 DEF ReleaseActiveLease, QueueNext, GiveUp
<1>5. CASE Schedule \/ QueueCommand \/ Time
  BY <1>3, <1>5 DEF Schedule, QueueCommand, Time, QueueNext, Feed, Hold, GiveUp
<1>6. ASSUME NEW r \in Runs, RunSteps(r) PROVE QueueTypeOK'
  <2>1. {"running", "succeeded", "blocked", "failed"} \subseteq WorkStatus
    BY DEF WorkStatus
  <2>2. CASE FinishLease(r)
    <3>1. run[r].lease \in Leases
      BY <2>2, StepMoves DEF Moves, DispatchTypes, RunOK, Holding
    <3> QED BY <1>4, <2>2, <3>1 DEF FinishLease
  <2>3. CASE RequeueLease(r)
    <3>1. run[r].lease \in Leases
      BY <2>3, StepMoves DEF Moves, DispatchTypes, RunOK, Holding
    <3> QED BY <1>4, <2>3, <3>1 DEF RequeueLease
  <2>4. CASE MarkRunning(r) \/ SettleItem(r) \/ BlockItem(r) \/ FailItem(r)
    BY <1>2, <2>1, <2>4, SavesKeepTypes DEF MarkRunning, SettleItem, BlockItem, FailItem
  <2>5. CASE BindLease(r) \/ PauseAgent(r)
    BY <2>5, SavesKeepTypes
  <2> QED BY <1>2, <1>6, <2>2, <2>3, <2>4, <2>5
    DEF RunSteps, LoadAgent, NotStarted, AcquireGiven, NoPolicy, BudgetPreflight, Reserve,
        ReserveRefused, CreateRun, StepFails, RunWorker, CommitBudget, RereadAgent, FinishRun,
        Refund, FailRun, Crash
<1>7. ASSUME NEW r \in Runs, NEW l \in Leases, NEW lag \in Lags, AcquireClaim(r, l, lag)
      PROVE  QueueTypeOK'
  <2>1. run[r].work \in Works
    BY <1>7, AcquireClaimMoves DEF DispatchTypes, RunOK
  <2> QED BY <1>3, <1>7, <2>1 DEF AcquireClaim, QueueNext, Hold
<1> QED
  BY <1>2, <1>5, <1>6, <1>7, DispatchCases DEF LoadWorkItem, dispatchVars

LEMMA RunRowStep ==
  ASSUME DispatchTypes, [DispatchNext]_dispatchVars
  PROVE  runRow' \in [Runs -> {"none", "running", "succeeded", "failed"}]
<1> USE DEF DispatchTypes
<1>1. ASSUME NEW r \in Runs, RunSteps(r)
      PROVE  runRow' \in [Runs -> {"none", "running", "succeeded", "failed"}]
  BY <1>1
  DEF RunSteps, LoadAgent, NotStarted, AcquireGiven, NoPolicy, BudgetPreflight, Reserve,
      ReserveRefused, CreateRun, StepFails, BindLease, MarkRunning, RunWorker, CommitBudget,
      RereadAgent, PauseAgent, FinishRun, SettleItem, FinishLease, RequeueLease, BlockItem,
      Refund, FailRun, FailItem, Crash
<1> QED
  BY <1>1, DispatchCases
  DEF Schedule, QueueCommand, Time, LoadWorkItem, AcquireClaim, dispatchVars

LEMMA DispatchTypesInit == DispatchInit => DispatchTypes
<1> SUFFICES ASSUME DispatchInit PROVE DispatchTypes
  OBVIOUS
<1>1. QueueTypeOK
  BY QueueTypeInit DEF DispatchInit
<1>2. Floor \in Left
  BY QueueAssumption DEF Floor, Left
<1>3. NotBegun \in RunRow /\ RunOK(NotBegun)
  BY <1>2, NewStepLists DEF NotBegun, RunRow, RunOK, Holding, WorkStatus, Reports
<1> QED BY <1>1, <1>3 DEF DispatchInit, DispatchTypes

LEMMA DispatchTypesStep == DispatchTypes /\ [DispatchNext]_dispatchVars => DispatchTypes'
  BY RunsStep, QueueStep, RunRowStep DEF DispatchTypes

-----------------------------------------------------------------------------
(* Money. *)

\* The theorems about the instance of Budget that Dispatch composes.
BP == INSTANCE BudgetProofs WITH
        LastMonth <- 1, HardLimits <- {HardLimit}, Estimates <- {Estimate}, WarnAt <- 0,
        hardLimit <- HardLimit, month <- 1, call <- <<>>, exhausted <- {}, saves <- {}

\* What Budget assumes of its constants holds of those that Dispatch gives it.
LEMMA BudgetInstance ==
  /\ 1 \in Nat \ {0}
  /\ {HardLimit} \subseteq Nat \ {0} /\ {HardLimit} # {}
  /\ {Estimate} \subseteq Nat
  /\ Actuals \subseteq Nat /\ NoCost \notin Nat
  /\ MaxSingleRun \in Nat \ {0} /\ 0 \in Nat
  /\ OnExhausted \in {"pause_agent", "block_work"}
  BY DispatchAssumption

MoneyInv ==
  /\ BP!TablesOK /\ BP!BooksOK
  /\ \A r \in Runs : Phase(run[r].todo) \in {"unclaimed", "claimed"} =>
                     reservation[r].status = "none"

LEMMA MoneyKept ==
  ASSUME MoneyInv, UNCHANGED budgetRows
  PROVE  BP!TablesOK' /\ BP!BooksOK'
  BY DEF MoneyInv, budgetRows, BP!TablesOK, BP!WindowsOK, BP!ReservationsOK, BP!BooksOK, BP!Finite,
         BP!Balanced, BP!HeldBy, BP!SpentBy, BP!OverrunBy, BP!TakenBy, BP!Booked

\* The four steps that write to the budget tables.
LEMMA Transactions ==
  ASSUME MoneyInv, NEW r \in Runs
  PROVE  /\ BudgetPreflight(r) => BP!TablesOK' /\ BP!BooksOK'
         /\ Reserve(r) /\ reservation[r].status = "none" => BP!TablesOK' /\ BP!BooksOK'
         /\ \A actual \in Actuals : CommitBudget(r, actual) => BP!TablesOK' /\ BP!BooksOK'
         /\ Refund(r) => BP!TablesOK' /\ BP!BooksOK'
<1>1. BP!TablesOK /\ BP!BooksOK
  BY DEF MoneyInv
<1>2. 1 \in BP!Months /\ HardLimit \in {HardLimit} /\ Estimate \in Nat /\ Estimate > 0
  BY DispatchAssumption DEF BP!Months
<1>3. ASSUME BudgetPreflight(r) PROVE BP!TablesOK' /\ BP!BooksOK'
  <2>1. /\ window' = [window EXCEPT ![1] = BP!OpenWindow(1, HardLimit)]
        /\ UNCHANGED <<reservation, usage>> /\ UNCHANGED reservation
    BY <1>3 DEF BudgetPreflight, B!OpenWindow, BP!OpenWindow
  <2>2. BP!TablesOK'
    BY <1>1, <1>2, <2>1, BudgetInstance, BP!OpenKeepsTables
  <2>3. BP!BooksOK'
    BY <1>1, <1>2, <2>1, <2>2, BudgetInstance, BP!OpenKeepsBooks
  <2> QED BY <2>2, <2>3
<1>4. ASSUME Reserve(r), reservation[r].status = "none" PROVE BP!TablesOK' /\ BP!BooksOK'
  <2>1. BP!ReserveTx(r, 1, Estimate) /\ UNCHANGED usage
    BY <1>4 DEF Reserve, B!ReserveTx, BP!ReserveTx
  <2>2. BP!TablesOK'
    BY <1>1, <1>2, <1>4, <2>1, BudgetInstance, BP!ReserveKeepsTables
  <2>3. BP!BooksOK'
    BY <1>1, <1>2, <1>4, <2>1, <2>2, BudgetInstance, BP!ReserveKeepsBooks
  <2> QED BY <2>2, <2>3
<1>5. ASSUME NEW actual \in Actuals, CommitBudget(r, actual) PROVE BP!TablesOK' /\ BP!BooksOK'
  <2>1. BP!CommitTx(r, actual)
    BY <1>5
    DEF CommitBudget, B!CommitTx, B!Charge, B!CommitAmount, B!WindowStatusAfterCommit,
        BP!CommitTx, BP!Charge, BP!CommitAmount, BP!WindowStatusAfterCommit
  <2>2. BP!TablesOK'
    BY <1>1, <2>1, BudgetInstance, BP!CommitKeepsTables
  <2>3. BP!BooksOK'
    BY <1>1, <2>1, <2>2, BudgetInstance, BP!CommitKeepsBooks
  <2> QED BY <2>2, <2>3
<1>6. ASSUME Refund(r) PROVE BP!TablesOK' /\ BP!BooksOK'
  <2>1. CASE BP!ReleaseTx(r) /\ UNCHANGED usage
    <3>1. BP!TablesOK'
      BY <1>1, <2>1, BudgetInstance, BP!ReleaseKeepsTables
    <3>2. BP!BooksOK'
      BY <1>1, <2>1, <3>1, BudgetInstance, BP!ReleaseKeepsBooks
    <3> QED BY <3>1, <3>2
  <2>2. CASE UNCHANGED <<window, reservation, usage>>
    BY <2>2, MoneyKept DEF budgetRows
  <2> QED BY <1>6, <2>1, <2>2
          DEF Refund, B!ReleaseTx, B!ReleaseAmount, BP!ReleaseTx, BP!ReleaseAmount
<1> QED BY <1>3, <1>4, <1>5, <1>6
\* A run that has not reached its reservation.
Early == {"unclaimed", "claimed"}

\* A step leaves the reservations of other runs alone, and the run's own unless it passes
\* from one phase to another.
LEMMA OwnReservation ==
  ASSUME DispatchTypes, MoneyInv, NEW r \in Runs, RunSteps(r)
  PROVE  /\ \A q \in Runs \ {r} : reservation'[q] = reservation[q]
         /\ Phase(run'[r].todo) \in Early => /\ Phase(run[r].todo) \in Early
                                            /\ UNCHANGED reservation
<1>1. ASSUME NEW from, NEW to, Moves(r, from, to), UNCHANGED reservation,
             from \subseteq Early \/ to \cap Early = {}
      PROVE  /\ \A q \in Runs \ {r} : reservation'[q] = reservation[q]
             /\ Phase(run'[r].todo) \in Early => /\ Phase(run[r].todo) \in Early
                                                /\ UNCHANGED reservation
  BY <1>1 DEF Moves
<1>2. ASSUME NEW from, NEW to, Moves(r, from, to), to \cap Early = {},
             \A q \in Runs \ {r} : reservation'[q] = reservation[q]
      PROVE  /\ \A q \in Runs \ {r} : reservation'[q] = reservation[q]
             /\ Phase(run'[r].todo) \in Early => /\ Phase(run[r].todo) \in Early
                                                /\ UNCHANGED reservation
  BY <1>2 DEF Moves
<1>3. /\ {"unclaimed"} \subseteq Early /\ {"claimed"} \subseteq Early
      /\ {"paid"} \cap Early = {} /\ {"charged"} \cap Early = {} /\ {"over"} \cap Early = {}
      /\ {"returning"} \cap Early = {} /\ {"refunding"} \cap Early = {}
      /\ {"paid", "refunding"} \cap Early = {} /\ {"charged", "over"} \cap Early = {}
  BY DEF Early
<1>4. CASE LoadAgent(r) \/ NotStarted(r) \/ FailRun(r) \/ FailItem(r) \/ BlockItem(r) \/ Crash(r)
  BY <1>1, <1>3, <1>4, StepMoves
  DEF LoadAgent, NotStarted, FailRun, FailItem, BlockItem, Crash, budgetRows
<1>5. CASE \/ NoPolicy(r) \/ BudgetPreflight(r) \/ ReserveRefused(r) \/ CreateRun(r)
           \/ StepFails(r) \/ MarkRunning(r) \/ RunWorker(r)
  BY <1>1, <1>3, <1>5, StepMoves
  DEF NoPolicy, BudgetPreflight, ReserveRefused, CreateRun, StepFails, MarkRunning, RunWorker,
      budgetRows
<1>6. CASE \/ RereadAgent(r) \/ PauseAgent(r) \/ FinishRun(r) \/ SettleItem(r) \/ FinishLease(r)
           \/ RequeueLease(r)
  BY <1>1, <1>3, <1>6, StepMoves
  DEF RereadAgent, PauseAgent, FinishRun, SettleItem, FinishLease, RequeueLease, budgetRows
<1>7. CASE BindLease(r)
  BY <1>1, <1>3, <1>7, BindLeaseMoves DEF BindLease, budgetRows
<1>8. CASE AcquireGiven(r)
  <2>1. run[r].lease \in Leases
    BY <1>8 DEF AcquireGiven, DispatchTypes, RunRow
  <2> QED BY <1>1, <1>3, <1>8, <2>1, AcquireGivenMoves DEF AcquireGiven, budgetRows
<1>9. CASE Reserve(r)
  <2>1. \A q \in Runs \ {r} : reservation'[q] = reservation[q]
    BY <1>9 DEF Reserve, B!ReserveTx, MoneyInv, BP!TablesOK, BP!ReservationsOK
  <2> QED BY <1>2, <1>3, <1>9, <2>1, StepMoves
<1>10. ASSUME NEW actual \in Actuals, CommitBudget(r, actual)
       PROVE  /\ \A q \in Runs \ {r} : reservation'[q] = reservation[q]
              /\ Phase(run'[r].todo) \in Early => /\ Phase(run[r].todo) \in Early
                                                 /\ UNCHANGED reservation
  <2>1. \A q \in Runs \ {r} : reservation'[q] = reservation[q]
    BY <1>10 DEF CommitBudget, B!CommitTx, B!Charge, MoneyInv, BP!TablesOK, BP!ReservationsOK
  <2> QED BY <1>2, <1>3, <1>10, <2>1, StepMoves
<1>11. CASE Refund(r)
  <2>1. \A q \in Runs \ {r} : reservation'[q] = reservation[q]
    BY <1>11 DEF Refund, B!ReleaseTx, MoneyInv, BP!TablesOK, BP!ReservationsOK
  <2> QED BY <1>2, <1>3, <1>11, <2>1, StepMoves
<1> QED BY <1>4, <1>5, <1>6, <1>7, <1>8, <1>9, <1>10, <1>11 DEF RunSteps

LEMMA RunStepTables ==
  ASSUME DispatchTypes, MoneyInv, NEW r \in Runs, RunSteps(r)
  PROVE  BP!TablesOK' /\ BP!BooksOK'
<1>1. CASE BudgetPreflight(r)
  BY <1>1, Transactions
<1>2. CASE Reserve(r)
  <2>1. Phase(run[r].todo) \in {"claimed"}
    BY <1>2, StepMoves DEF Moves
  <2>2. reservation[r].status = "none"
    BY <2>1 DEF MoneyInv
  <2> QED BY <1>2, <2>2, Transactions
<1>3. ASSUME NEW actual \in Actuals, CommitBudget(r, actual) PROVE BP!TablesOK' /\ BP!BooksOK'
  BY <1>3, Transactions
<1>4. CASE Refund(r)
  BY <1>4, Transactions
<1>5. CASE UNCHANGED budgetRows
  BY <1>5, MoneyKept
<1> QED BY <1>1, <1>2, <1>3, <1>4, <1>5
  DEF RunSteps, LoadAgent, NotStarted, AcquireGiven, NoPolicy, ReserveRefused, CreateRun,
      StepFails, BindLease, MarkRunning, RunWorker, RereadAgent, PauseAgent, FinishRun,
      SettleItem, FinishLease, RequeueLease, BlockItem, FailRun, FailItem, Crash

LEMMA MoneyStep == DispatchTypes /\ MoneyInv /\ [DispatchNext]_dispatchVars => MoneyInv'
<1> SUFFICES ASSUME DispatchTypes, MoneyInv, [DispatchNext]_dispatchVars PROVE MoneyInv'
  OBVIOUS
<1>1. ASSUME UNCHANGED budgetRows,
             \A r \in Runs : Phase(run'[r].todo) \in Early => Phase(run[r].todo) \in Early
      PROVE  MoneyInv'
  <2>1. \A r \in Runs : Phase(run'[r].todo) \in Early => reservation'[r].status = "none"
    BY <1>1 DEF MoneyInv, budgetRows, Early
  <2> QED BY <1>1, <2>1, MoneyKept DEF MoneyInv, Early
<1>2. CASE UNCHANGED dispatchVars
  BY <1>1, <1>2 DEF dispatchVars
<1>3. CASE Schedule \/ QueueCommand
  BY <1>1, <1>3 DEF Schedule, QueueCommand
<1>4. CASE Time
  BY <1>1, <1>4, TimeKeeps DEF Time
<1>5. ASSUME NEW r \in Runs, NEW w \in Works, NEW l \in Leases \cup {NoLease}, LoadWorkItem(r, w, l)
      PROVE  MoneyInv'
  <2>1. Phase(run[r].todo) = "unclaimed" /\ \A q \in Runs \ {r} : run'[q] = run[q]
    BY <1>5, LoadMoves, NewStepLists
  <2> QED BY <1>1, <1>5, <2>1 DEF LoadWorkItem, Early
<1>6. ASSUME NEW r \in Runs, NEW l \in Leases, NEW lag \in Lags, AcquireClaim(r, l, lag)
      PROVE  MoneyInv'
  <2>1. Phase(run[r].todo) = "unclaimed" /\ \A q \in Runs \ {r} : run'[q] = run[q]
    BY <1>6, AcquireClaimMoves
  <2> QED BY <1>1, <1>6, <2>1 DEF AcquireClaim, Early
<1>7. ASSUME NEW r \in Runs, RunSteps(r) PROVE MoneyInv'
  <2>1. \A q \in Runs \ {r} : run'[q] = run[q]
    BY <1>7, RunStepMoves DEF Moves
  <2>2. \A q \in Runs : Phase(run'[q].todo) \in Early => reservation'[q].status = "none"
    BY <1>7, <2>1, OwnReservation DEF MoneyInv, Early
  <2> QED BY <1>7, <2>2, RunStepTables DEF MoneyInv, Early
<1> QED BY <1>2, <1>3, <1>4, <1>5, <1>6, <1>7, DispatchCases

LEMMA MoneyInit == DispatchInit => MoneyInv
<1> SUFFICES ASSUME DispatchInit PROVE MoneyInv
  OBVIOUS
<1>1. BP!EmptyTables
  BY DEF DispatchInit, B!Months, BP!Months, B!NoReservation, BP!NoReservation, BP!EmptyTables
<1>2. BP!TablesOK /\ BP!BooksOK
  BY <1>1, BudgetInstance, BP!EmptyTablesAreOK
<1>3. \A r \in Runs : reservation[r].status = "none"
  BY DEF DispatchInit, B!NoReservation
<1> QED BY <1>2, <1>3 DEF MoneyInv

\* Both instances of Budget count the same coins.
LEMMA SameBooks == BP!WindowAccounts /\ BP!HardLimitHolds => DispatchAccounts
<1>1. \A f : BP!Total(f) = B!Total(f)
  <2>1. \A f : BP!Coins(f) = B!Coins(f)
    BY DEF BP!Coins, B!Coins
  <2>2. \A S : BP!Cardinality(S) = B!Cardinality(S)
    BY DEF BP!Cardinality, B!Cardinality
  <2> QED BY <2>1, <2>2 DEF BP!Total, B!Total
<1>2. /\ \A m : BP!HeldBy(m) = B!HeldBy(m) /\ BP!SpentBy(m) = B!SpentBy(m)
      /\ \A m : BP!OverrunBy(m) = B!OverrunBy(m)
      /\ BP!Months = B!Months
  BY DEF BP!HeldBy, B!HeldBy, BP!SpentBy, B!SpentBy, BP!OverrunBy, B!OverrunBy, BP!Booked,
         B!Booked, BP!Overrun, B!Overrun, BP!Months, B!Months
<1> QED BY <1>1, <1>2 DEF DispatchAccounts, BP!WindowAccounts, B!WindowAccounts,
                          BP!HardLimitHolds, B!HardLimitHolds

\* Whatever a dispatch meets (a failing store, its own death, commands on the same lease,
\* other runs that race for the last of the budget) the counters of the window stay the
\* sums of the reservations, and the hard limit is passed by overruns only.
THEOREM DispatchAccountsHolds == DispatchSpec => []DispatchAccounts
<1>1. DispatchInit => DispatchTypes /\ MoneyInv
  BY DispatchTypesInit, MoneyInit
<1>2. DispatchTypes /\ MoneyInv /\ [DispatchNext]_dispatchVars => (DispatchTypes /\ MoneyInv)'
  BY DispatchTypesStep, MoneyStep
<1>3. MoneyInv => DispatchAccounts
  <2>1. BP!BooksOK => BP!WindowAccounts /\ BP!HardLimitHolds
    BY DEF BP!BooksOK, BP!Balanced, BP!WindowAccounts, BP!HardLimitHolds
  <2> QED BY <2>1, SameBooks DEF MoneyInv
<1> QED BY <1>1, <1>2, <1>3, PTL DEF DispatchSpec

-----------------------------------------------------------------------------
(* Dispatches that are alone. *)

\* Who has a lease, and who has which.
LeasesOK ==
  /\ \A r \in Runs : Phase(run[r].todo) = "unclaimed" => run[r].lease = NoLease
  /\ \A r \in Runs : run[r].lease # NoLease =>
       /\ lease[run[r].lease].status # "unused"
       /\ lease[run[r].lease].work = run[r].work
  /\ \A q, r \in Runs : q # r /\ run[q].lease = run[r].lease => run[q].lease = NoLease
  /\ \A r \in Runs : Phase(run[r].todo) \in Holding => Active(run[r].lease)
  /\ LeaseExclusive
  /\ \A l \in Leases : <<"released", l>> \in events => lease[l].status = "released"

PaidFor == \A r \in Runs : Phase(run[r].todo) = "paid" => reservation[r].status = "reserved"

\* An item that no dispatch will claim again.
Gone(w) == ActiveLeases(w) = {} /\ item[w].status \notin {"queued", "absent"}

\* Work that was done keeps its lease, or is not offered again when the lease ends.
DoneOK ==
  /\ \A r \in Runs : runRow[r] = "succeeded" =>
       /\ Phase(run[r].todo) \in {"charged", "over"} /\ run[r].lease # NoLease
       /\ Active(run[r].lease) \/ Gone(run[r].work)
  /\ \A q, r \in Runs : q # r /\ run[q].work = run[r].work =>
                        ~(runRow[q] = "succeeded" /\ runRow[r] = "succeeded")

\* Without failures whatever is held, is held by a dispatch that will give it back.
Kept ==
  /\ \A l \in Leases : Active(l) =>
       \E r \in Runs : Phase(run[r].todo) \in Holding /\ run[r].lease = l
  /\ \A r \in Runs : reservation[r].status = "reserved" =>
                     Phase(run[r].todo) \in {"paid", "refunding"}

AloneInv == LeasesOK /\ PaidFor /\ DoneOK /\ (~Faulty => Kept)

\* Only the time a lease has left may change.
SameLeases ==
  /\ events' = events
  /\ \A l \in Leases : lease'[l].status = lease[l].status /\ lease'[l].work = lease[l].work

NotOffered ==
  \A w \in Works : item'[w].status \in {"queued", "absent"} => item[w].status \in {"queued", "absent"}

\* The lease of run r ends.
GivesBack(r, requeue) ==
  LET l == run[r].lease IN
  /\ Active(l)
  /\ events' = events \cup {<<"released", l>>}
  /\ lease'[l].status = "released" /\ lease'[l].work = lease[l].work
  /\ \A m \in Leases \ {l} : lease'[m] = lease[m]
  /\ \A w \in Works \ {lease[l].work} : item'[w] = item[w]
  /\ ~requeue => item'[lease[l].work].status = "cancelled"

LEMMA ReleaseEnds ==
  ASSUME DispatchTypes, NEW r \in Runs, NEW requeue \in BOOLEAN, run[r].lease \in Leases,
         ReleaseLease(run[r].lease, requeue), lease[run[r].lease].work \in Works
  PROVE  GivesBack(r, requeue)
<1> DEFINE l == run[r].lease
           w == lease[l].work
<1>1. lease \in [Leases -> LeaseRow] /\ item \in [Works -> [status : WorkStatus, attempt : Nat]]
  BY DEF DispatchTypes, QueueTypeOK
<1>2. \A m \in Leases \ {l} : lease'[m] = lease[m]
  BY <1>1 DEF ReleaseLease
<1>3. lease'[l].status = "released" /\ lease'[l].work = lease[l].work
  BY <1>1 DEF ReleaseLease, LeaseRow
<1>4. \A v \in Works \ {w} : item'[v] = item[v]
  BY <1>1 DEF ReleaseLease
<1>5. ASSUME ~requeue PROVE item'[w].status = "cancelled"
  BY <1>1, <1>5 DEF ReleaseLease, MarkReleased
<1> QED BY <1>2, <1>3, <1>4, <1>5 DEF GivesBack, ReleaseLease

\* What a step of a run does to the tables of the queue.
LEMMA QueueEffect ==
  ASSUME DispatchTypes, LeasesOK, NEW r \in Runs, RunSteps(r)
  PROVE  \/ SameLeases /\ NotOffered /\ (Faulty \/ (~FinishLease(r) /\ ~RequeueLease(r)))
         \/ FinishLease(r) /\ GivesBack(r, FALSE)
         \/ RequeueLease(r) /\ GivesBack(r, TRUE)
<1> DEFINE l == run[r].lease
<1>1. ASSUME UNCHANGED queueVars PROVE SameLeases /\ NotOffered
  BY <1>1 DEF queueVars, SameLeases, NotOffered
<1>2. ASSUME Phase(run[r].todo) \in Holding
      PROVE  /\ l \in Leases /\ Active(l) /\ lease[l].work = run[r].work /\ l # NoLease
             /\ <<"released", l>> \notin events
  BY <1>2, DispatchAssumption DEF LeasesOK, DispatchTypes, RunOK, Active
<1>3. ASSUME NEW requeue \in BOOLEAN, ReleaseActiveLease(l, requeue),
             Phase(run[r].todo) \in Holding, run[r].work \in Works
      PROVE  (Faulty /\ UNCHANGED queueVars) \/ GivesBack(r, requeue)
  BY <1>2, <1>3, ReleaseEnds DEF ReleaseActiveLease, Releasable
<1>4. ASSUME FinishLease(r) \/ RequeueLease(r)
      PROVE  Phase(run[r].todo) \in Holding /\ run[r].work \in Works
  BY <1>4, StepMoves DEF Moves, DispatchTypes, RunOK, Holding
<1>5. CASE FinishLease(r)
  <2>1. ReleaseActiveLease(l, FALSE)
    BY <1>5 DEF FinishLease
  <2>2. (Faulty /\ UNCHANGED queueVars) \/ GivesBack(r, FALSE)
    BY <1>3, <1>4, <1>5, <2>1
  <2> QED BY <1>1, <1>5, <2>2
<1>6. CASE RequeueLease(r)
  <2>1. ReleaseActiveLease(l, TRUE)
    BY <1>6 DEF RequeueLease
  <2>2. (Faulty /\ UNCHANGED queueVars) \/ GivesBack(r, TRUE)
    BY <1>3, <1>4, <1>6, <2>1
  <2> QED BY <1>1, <1>6, <2>2
<1>7. ASSUME NEW status \in {"running", "succeeded", "blocked", "failed"}, SaveItem(r, status)
      PROVE  SameLeases /\ NotOffered
  <2> DEFINE row == [status |-> status, attempt |-> run[r].attempt]
  <2>1. item' = [item EXCEPT ![run[r].work] = row] /\ row.status = status
    BY <1>7 DEF SaveItem
  <2> HIDE DEF row
  <2>2. NotOffered
    BY <2>1 DEF NotOffered, DispatchTypes, QueueTypeOK
  <2> QED BY <1>7, <2>2 DEF SaveItem, SameLeases
<1>8. CASE MarkRunning(r) \/ SettleItem(r) \/ BlockItem(r) \/ FailItem(r)
  <2>1. SameLeases /\ NotOffered
    BY <1>1, <1>7, <1>8 DEF MarkRunning, SettleItem, BlockItem, FailItem
  <2> QED BY <2>1, <1>5, <1>6
<1>9. CASE BindLease(r)
  <2>1. Phase(run[r].todo) = "paid"
    BY <1>9, BindLeaseMoves DEF Moves
  <2>2. l \in Leases /\ Active(l) /\ lease[l].work = run[r].work
    BY <1>2, <2>1 DEF Holding
  <2> DEFINE row == [work |-> run[r].work, status |-> "active", left |-> run[r].left]
  <2>3. UNCHANGED lease \/ lease' = [lease EXCEPT ![l] = row]
    BY <1>9 DEF BindLease
  <2>4. row.work = run[r].work /\ row.status = "active"
    OBVIOUS
  <2> HIDE DEF row
  <2>5. \A m \in Leases : lease'[m].status = lease[m].status /\ lease'[m].work = lease[m].work
    BY <2>2, <2>3, <2>4 DEF DispatchTypes, QueueTypeOK, Active
  <2>6. SameLeases /\ NotOffered
    BY <1>9, <2>5 DEF BindLease, SameLeases, NotOffered
  <2> QED BY <1>5, <1>6, <2>6
<1>10. CASE PauseAgent(r)
  <2>1. SameLeases /\ NotOffered
    BY <1>10 DEF PauseAgent, SameLeases, NotOffered
  <2> QED BY <1>5, <1>6, <2>1
<1>11. CASE UNCHANGED queueVars
  <2>1. SameLeases /\ NotOffered
    BY <1>1, <1>11
  <2> QED BY <1>5, <1>6, <2>1
<1> QED
  BY <1>5, <1>6, <1>8, <1>9, <1>10, <1>11
  DEF RunSteps, LoadAgent, NotStarted, AcquireGiven, NoPolicy, BudgetPreflight, Reserve,
      ReserveRefused, CreateRun, StepFails, RunWorker, CommitBudget, RereadAgent, FinishRun,
      Refund, FailRun, Crash

LEMMA FinishRunMoves ==
  ASSUME DispatchTypes, NEW r \in Runs, FinishRun(r)
  PROVE  /\ Phase(run[r].todo) = "charged"
         /\ \/ Phase(run'[r].todo) = "charged"
            \/ Phase(run'[r].todo) = "over" /\ Faulty /\ UNCHANGED runRow
<1> DEFINE t == run[r].todo
<1>1. t \in StepLists /\ Phase(t) # "none" /\ t # <<>> /\ Head(t) = "finish"
  BY DEF DispatchTypes, RunOK, RunRow, FinishRun, At
<1>2. Phase(t) = "charged" /\ Phase(Tail(t)) = "charged"
  BY <1>1, ListSteps
<1>3. Proceed(r) => run'[r].todo = Tail(t)
  BY <1>1, ProceedBecomes DEF Becomes
<1>4. CASE Proceed(r)
  <2>1. run'[r].todo = Tail(t)
    BY <1>3, <1>4
  <2> QED BY <1>2, <2>1
<1>5. CASE Faulty /\ Return(r, "error") /\ UNCHANGED runRow
  <2>1. Becomes(r, <<>>)
    BY <1>5, ReturnBecomes DEF Reports
  <2> QED BY <1>2, <1>5, <2>1, NewStepLists DEF Becomes
<1> QED BY <1>4, <1>5 DEF FinishRun

\* What a step of a run does to its phase.  A dispatch that has no lease does not take one
\* that was given.
LEMMA PhaseEffect ==
  ASSUME DispatchTypes, LeasesOK, NEW r \in Runs, RunSteps(r)
  PROVE  LET from == Phase(run[r].todo)
             to == Phase(run'[r].todo) IN
         /\ \A q \in Runs \ {r} : run'[q] = run[q]
         /\ run'[r].work = run[r].work /\ run'[r].lease = run[r].lease
         /\ to = "unclaimed" => from = "unclaimed"
         /\ to \in Holding => from \in Holding
         /\ from \in {"charged", "over"} => to \in {"charged", "over"}
         /\ to = "paid" => from = "paid" \/ Reserve(r)
         /\ from \in Holding => to \in Holding \/ Faulty \/ FinishLease(r) \/ RequeueLease(r)
         /\ from \in {"paid", "refunding"} =>
              \/ to \in {"paid", "refunding"} \/ Faulty
              \/ (\E actual \in Actuals : CommitBudget(r, actual)) \/ Refund(r)
         /\ FinishLease(r) => from = "charged" /\ to = "over"
         /\ RequeueLease(r) => from = "returning" /\ to = "over"
<1> DEFINE from == Phase(run[r].todo)
           to == Phase(run'[r].todo)
<1>1. /\ \A q \in Runs \ {r} : run'[q] = run[q]
      /\ run'[r].work = run[r].work /\ run'[r].lease = run[r].lease
  BY RunStepMoves DEF Moves
<1> DEFINE Goal == /\ to = "unclaimed" => from = "unclaimed"
                   /\ to \in Holding => from \in Holding
                   /\ from \in {"charged", "over"} => to \in {"charged", "over"}
                   /\ to = "paid" => from = "paid" \/ Reserve(r)
                   /\ from \in Holding => to \in Holding \/ Faulty \/ FinishLease(r) \/ RequeueLease(r)
                   /\ from \in {"paid", "refunding"} =>
                        \/ to \in {"paid", "refunding"} \/ Faulty
                        \/ (\E actual \in Actuals : CommitBudget(r, actual)) \/ Refund(r)
<1>2. ~AcquireGiven(r)
  <2> SUFFICES ASSUME AcquireGiven(r) PROVE FALSE
    OBVIOUS
  <2>1. run[r].lease \in Leases /\ run[r].lease # NoLease
    BY DEF AcquireGiven, DispatchTypes, RunRow
  <2>2. from = "unclaimed"
    BY <2>1, AcquireGivenMoves DEF Moves
  <2> QED BY <2>1, <2>2 DEF LeasesOK
<1>3. CASE LoadAgent(r) \/ NotStarted(r) \/ FailRun(r) \/ FailItem(r) \/ BlockItem(r)
  <2>1. from \in {"unclaimed", "over"} /\ to \in {"unclaimed", "over"} /\ (from = "over" => to = "over")
    BY <1>3, StepMoves DEF Moves
  <2>2. Goal
    BY <2>1 DEF Holding
  <2> QED BY <1>1, <1>3, <2>2, StepMoves DEF Moves
<1>4. CASE NoPolicy(r) \/ BudgetPreflight(r) \/ ReserveRefused(r)
  <2>1. from = "claimed" /\ to \in {"claimed", "returning"}
    BY <1>4, StepMoves DEF Moves
  <2> QED BY <1>1, <2>1, StepMoves DEF Moves, Holding
<1>5. CASE CreateRun(r) \/ StepFails(r) \/ BindLease(r) \/ MarkRunning(r) \/ RunWorker(r)
  <2>1. from = "paid" /\ to \in {"paid", "refunding"}
    BY <1>5, StepMoves, BindLeaseMoves DEF Moves
  <2> QED BY <1>1, <2>1, StepMoves DEF Moves, Holding
<1>6. CASE RereadAgent(r) \/ SettleItem(r) \/ PauseAgent(r)
  <2>1. (from = "charged" /\ to = "charged") \/ (from = "over" /\ to = "over")
    BY <1>6, StepMoves DEF Moves
  <2> QED BY <1>1, <2>1, StepMoves DEF Moves, Holding
<1>7. CASE FinishRun(r)
  <2>1. from = "charged" /\ (to = "charged" \/ (to = "over" /\ Faulty))
    BY <1>7, FinishRunMoves
  <2> QED BY <1>1, <2>1, StepMoves DEF Moves, Holding
<1>8. CASE Crash(r)
  <2>1. to = "over" /\ Faulty
    BY <1>8, StepMoves DEF Moves, Crash
  <2> QED BY <1>1, <2>1, StepMoves DEF Moves, Holding
<1>9. CASE Reserve(r)
  <2>1. from = "claimed" /\ to = "paid"
    BY <1>9, StepMoves DEF Moves
  <2> QED BY <1>1, <1>9, <2>1, StepMoves DEF Moves, Holding
<1>10. CASE \E actual \in Actuals : CommitBudget(r, actual)
  <2>1. from = "paid" /\ to = "charged"
    BY <1>10, StepMoves DEF Moves
  <2> QED BY <1>1, <1>10, <2>1, StepMoves DEF Moves, Holding
<1>11. CASE Refund(r)
  <2>1. from = "refunding" /\ to = "returning"
    BY <1>11, StepMoves DEF Moves
  <2> QED BY <1>1, <1>11, <2>1, StepMoves DEF Moves, Holding
<1>12. CASE FinishLease(r)
  <2>1. from = "charged" /\ to = "over"
    BY <1>12, StepMoves DEF Moves
  <2> QED BY <1>1, <1>12, <2>1, StepMoves DEF Moves, Holding
<1>13. CASE RequeueLease(r)
  <2>1. from = "returning" /\ to = "over"
    BY <1>13, StepMoves DEF Moves
  <2> QED BY <1>1, <1>13, <2>1, StepMoves DEF Moves, Holding
<1> QED BY <1>2, <1>3, <1>4, <1>5, <1>6, <1>7, <1>8, <1>9, <1>10, <1>11, <1>12, <1>13 DEF RunSteps

\* What a step of a run does to its reservation and to its row.
LEMMA ReservationEffect ==
  ASSUME DispatchTypes, MoneyInv, NEW r \in Runs, RunSteps(r)
  PROVE  /\ \A q \in Runs \ {r} : reservation'[q] = reservation[q]
         /\ reservation'[r].status = "reserved" =>
              reservation[r].status = "reserved" \/ Phase(run'[r].todo) = "paid"
         /\ Phase(run'[r].todo) = "paid" =>
              \/ reservation'[r].status = "reserved"
              \/ Phase(run[r].todo) = "paid" /\ UNCHANGED reservation
         /\ (\E actual \in Actuals : CommitBudget(r, actual)) => reservation'[r].status # "reserved"
         /\ Refund(r) => reservation'[r].status # "reserved" \/ Faulty
<1>1. \A q \in Runs \ {r} : reservation'[q] = reservation[q]
  BY OwnReservation
<1>2. reservation \in [Runs -> BP!ReservationRow]
  BY DEF MoneyInv, BP!TablesOK, BP!ReservationsOK
<1>3. CASE Reserve(r)
  <2>1. reservation'[r].status = "reserved" /\ Phase(run'[r].todo) = "paid"
    BY <1>2, <1>3, StepMoves DEF Reserve, B!ReserveTx, Moves
  <2>2. ~(\E actual \in Actuals : CommitBudget(r, actual)) /\ ~Refund(r)
    BY <1>3, StepMoves DEF Moves
  <2> QED BY <1>1, <2>1, <2>2
<1>4. ASSUME NEW actual \in Actuals, CommitBudget(r, actual)
      PROVE  reservation'[r].status # "reserved" /\ Phase(run'[r].todo) = "charged"
             /\ Phase(run[r].todo) = "paid"
  <2> DEFINE row == [status |-> IF actual > reservation[r].estimated THEN "over_budget" ELSE "committed",
                     month |-> reservation[r].month, estimated |-> reservation[r].estimated,
                     committed |-> actual]
  <2>1. \/ UNCHANGED reservation /\ reservation[r].status # "reserved"
        \/ reservation' = [reservation EXCEPT ![r] = row]
    BY <1>4 DEF CommitBudget, B!CommitTx, B!Charge, B!CommitAmount
  <2>2. row.status # "reserved"
    OBVIOUS
  <2> HIDE DEF row
  <2>3. reservation'[r].status # "reserved"
    BY <1>2, <2>1, <2>2
  <2> QED BY <1>4, <2>3, StepMoves DEF Moves
<1>5. CASE \E actual \in Actuals : CommitBudget(r, actual)
  <2>1. reservation'[r].status # "reserved" /\ Phase(run'[r].todo) = "charged"
    BY <1>4, <1>5
  <2> QED BY <1>1, <1>4, <1>5, <2>1, StepMoves DEF Moves
<1>6. CASE Refund(r)
  <2>1. Phase(run[r].todo) = "refunding" /\ Phase(run'[r].todo) = "returning"
    BY <1>6, StepMoves DEF Moves
  <2>2. reservation'[r].status = "released" \/ (Faulty /\ UNCHANGED reservation)
    BY <1>2, <1>6 DEF Refund, B!ReleaseTx, BP!ReservationRow
  <2>3. ~(\E actual \in Actuals : CommitBudget(r, actual))
    BY <1>4, <2>1
  <2> QED BY <1>1, <2>1, <2>2, <2>3
<1>7. CASE UNCHANGED reservation /\ ~Reserve(r) /\ ~(\E actual \in Actuals : CommitBudget(r, actual))
           /\ ~Refund(r)
  <2>1. Phase(run'[r].todo) = "paid" => Phase(run[r].todo) = "paid"
    <3>1. /\ LoadAgent(r) => Phase(run'[r].todo) # "paid"
          /\ NotStarted(r) \/ FailRun(r) \/ FailItem(r) \/ BlockItem(r) \/ Crash(r) =>
               Phase(run'[r].todo) # "paid"
          /\ NoPolicy(r) \/ BudgetPreflight(r) \/ ReserveRefused(r) => Phase(run'[r].todo) # "paid"
          /\ CreateRun(r) \/ StepFails(r) \/ MarkRunning(r) \/ RunWorker(r) =>
               Phase(run[r].todo) = "paid"
          /\ RereadAgent(r) \/ PauseAgent(r) \/ FinishRun(r) \/ SettleItem(r) \/ FinishLease(r)
             \/ RequeueLease(r) => Phase(run'[r].todo) # "paid"
      BY StepMoves DEF Moves
    <3>2. BindLease(r) => Phase(run[r].todo) = "paid"
      BY BindLeaseMoves DEF Moves
    <3>3. AcquireGiven(r) => Phase(run'[r].todo) # "paid"
      <4>1. AcquireGiven(r) => run[r].lease \in Leases
        BY DEF AcquireGiven, DispatchTypes, RunRow
      <4> QED BY <4>1, AcquireGivenMoves DEF Moves
    <3> QED BY <1>7, <3>1, <3>2, <3>3 DEF RunSteps
  <2> QED BY <1>1, <1>7, <2>1
<1>8. CASE UNCHANGED reservation
  BY <1>3, <1>5, <1>6, <1>7, <1>8
<1> QED BY <1>3, <1>5, <1>6, <1>8
  DEF RunSteps, LoadAgent, NotStarted, AcquireGiven, NoPolicy, BudgetPreflight, ReserveRefused,
      CreateRun, StepFails, BindLease, MarkRunning, RunWorker, RereadAgent, PauseAgent,
      FinishRun, SettleItem, FinishLease, RequeueLease, BlockItem, FailRun, FailItem, Crash,
      budgetRows

LEMMA RowEffect ==
  ASSUME DispatchTypes, NEW r \in Runs, RunSteps(r)
  PROVE  /\ \A q \in Runs \ {r} : runRow'[q] = runRow[q]
         /\ runRow'[r] = "succeeded" =>
              \/ runRow[r] = "succeeded"
              \/ Phase(run[r].todo) = "charged" /\ Phase(run'[r].todo) = "charged"
<1>1. CASE UNCHANGED runRow
  BY <1>1
<1>2. CASE CreateRun(r) \/ FailRun(r)
  BY <1>2 DEF CreateRun, FailRun, DispatchTypes
<1>3. CASE FinishRun(r)
  <2>1. \A q \in Runs \ {r} : runRow'[q] = runRow[q]
    BY <1>3 DEF FinishRun, DispatchTypes
  <2> QED BY <1>3, <2>1, FinishRunMoves
<1> QED BY <1>1, <1>2, <1>3
  DEF RunSteps, LoadAgent, NotStarted, AcquireGiven, NoPolicy, BudgetPreflight, Reserve,
      ReserveRefused, StepFails, BindLease, MarkRunning, RunWorker, CommitBudget, RereadAgent,
      PauseAgent, SettleItem, FinishLease, RequeueLease, BlockItem, Refund, FailItem, Crash

\* A run in one of these phases has read its item, and has its lease.
LEMMA HolderHas ==
  ASSUME DispatchTypes, LeasesOK, NEW r \in Runs
  PROVE  /\ Phase(run[r].todo) \in Holding =>
              /\ run[r].lease \in Leases /\ run[r].lease # NoLease /\ run[r].work \in Works
              /\ Active(run[r].lease) /\ lease[run[r].lease].work = run[r].work
         /\ Phase(run[r].todo) \in {"charged", "over"} => run[r].work \in Works
<1>1. Phase(<<"begin">>) = "unclaimed"
  BY NewStepLists
<1> QED BY <1>1, DispatchAssumption DEF DispatchTypes, RunOK, LeasesOK, Holding

LEMMA LeasesRunStep ==
  ASSUME DispatchTypes, DispatchTypes', AloneInv, NEW r \in Runs, RunSteps(r)
  PROVE  LeasesOK'
<1> DEFINE l == run[r].lease
<1>1. LeasesOK
  BY DEF AloneInv
<1>2. /\ \A q \in Runs : run'[q].lease = run[q].lease /\ run'[q].work = run[q].work
      /\ \A q \in Runs : Phase(run'[q].todo) = "unclaimed" => Phase(run[q].todo) = "unclaimed"
      /\ \A q \in Runs : Phase(run'[q].todo) \in Holding => Phase(run[q].todo) \in Holding
  BY <1>1, PhaseEffect
<1>3. \A q \in Runs : run[q].lease \in Leases \cup {NoLease}
  BY DEF DispatchTypes, RunRow
<1>4. CASE SameLeases
  <2>1. \A q \in Runs : run'[q].lease # NoLease =>
          /\ lease'[run'[q].lease].status # "unused"
          /\ lease'[run'[q].lease].work = run'[q].work
    BY <1>1, <1>2, <1>3, <1>4 DEF LeasesOK, SameLeases
  <2>2. \A q \in Runs : Phase(run'[q].todo) \in Holding => lease'[run'[q].lease].status = "active"
    <3> SUFFICES ASSUME NEW q \in Runs, Phase(run'[q].todo) \in Holding
                 PROVE  lease'[run'[q].lease].status = "active"
      OBVIOUS
    <3>1. run[q].lease \in Leases /\ Active(run[q].lease)
      BY <1>1, <1>2, HolderHas
    <3> QED BY <1>2, <1>4, <3>1 DEF SameLeases, Active
  <2>3. LeaseExclusive'
    BY <1>1, <1>4 DEF LeasesOK, LeaseExclusive, SameLeases, Active
  <2>4. \A m \in Leases : <<"released", m>> \in events' => lease'[m].status = "released"
    BY <1>1, <1>4 DEF LeasesOK, SameLeases
  <2> QED BY <1>1, <1>2, <2>1, <2>2, <2>3, <2>4 DEF LeasesOK, Active
<1>5. ASSUME NEW requeue \in BOOLEAN, GivesBack(r, requeue), Phase(run[r].todo) \in Holding,
             Phase(run'[r].todo) = "over"
      PROVE  LeasesOK'
  <2>1. l \in Leases /\ l # NoLease
    BY <1>1, <1>5, HolderHas
  <2>2. \A m \in Leases : /\ lease'[m].work = lease[m].work
                          /\ m # l => lease'[m] = lease[m]
    BY <1>5 DEF GivesBack
  <2>3. lease'[l].status = "released"
    BY <1>5 DEF GivesBack
  <2>4. \A q \in Runs : run'[q].lease # NoLease =>
          /\ lease'[run'[q].lease].status # "unused"
          /\ lease'[run'[q].lease].work = run'[q].work
    BY <1>1, <1>2, <1>3, <2>2, <2>3 DEF LeasesOK
  <2>5. \A q \in Runs : Phase(run'[q].todo) \in Holding => lease'[run'[q].lease].status = "active"
    <3> SUFFICES ASSUME NEW q \in Runs, Phase(run'[q].todo) \in Holding
                 PROVE  lease'[run'[q].lease].status = "active"
      OBVIOUS
    <3>1. q # r
      BY <1>5 DEF Holding
    <3>2. run[q].lease \in Leases /\ run[q].lease # l /\ Active(run[q].lease)
      BY <1>1, <1>2, <2>1, <3>1, HolderHas DEF LeasesOK
    <3> QED BY <1>2, <2>2, <3>2 DEF Active
  <2>6. LeaseExclusive'
    BY <1>1, <2>2, <2>3 DEF LeasesOK, LeaseExclusive, Active
  <2>7. \A m \in Leases : <<"released", m>> \in events' => lease'[m].status = "released"
    BY <1>1, <1>5, <2>2, <2>3 DEF LeasesOK, GivesBack
  <2> QED BY <1>1, <1>2, <2>4, <2>5, <2>6, <2>7 DEF LeasesOK, Active
<1>6. CASE FinishLease(r) /\ GivesBack(r, FALSE)
  BY <1>1, <1>5, <1>6, PhaseEffect DEF Holding
<1>7. CASE RequeueLease(r) /\ GivesBack(r, TRUE)
  BY <1>1, <1>5, <1>7, PhaseEffect DEF Holding
<1> QED BY <1>1, <1>4, <1>6, <1>7, QueueEffect

LEMMA PaidRunStep ==
  ASSUME DispatchTypes, MoneyInv, AloneInv, NEW r \in Runs, RunSteps(r)
  PROVE  PaidFor'
<1>1. LeasesOK /\ PaidFor
  BY DEF AloneInv
<1>2. \A q \in Runs \ {r} : run'[q] = run[q] /\ reservation'[q] = reservation[q]
  BY <1>1, PhaseEffect, OwnReservation
<1>3. Phase(run'[r].todo) = "paid" => reservation'[r].status = "reserved"
  BY <1>1, ReservationEffect DEF PaidFor
<1> QED BY <1>1, <1>2, <1>3 DEF PaidFor

LEMMA DoneRunStep ==
  ASSUME DispatchTypes, AloneInv, NEW r \in Runs, RunSteps(r)
  PROVE  DoneOK'
<1> DEFINE l == run[r].lease
<1>1. LeasesOK /\ DoneOK
  BY DEF AloneInv
<1>2. /\ \A q \in Runs : run'[q].lease = run[q].lease /\ run'[q].work = run[q].work
      /\ \A q \in Runs : Phase(run[q].todo) \in {"charged", "over"} =>
                         Phase(run'[q].todo) \in {"charged", "over"}
  BY <1>1, PhaseEffect
<1>3. \A q \in Runs : runRow'[q] = "succeeded" =>
        \/ runRow[q] = "succeeded"
        \/ q = r /\ Phase(run[r].todo) = "charged" /\ Phase(run'[r].todo) = "charged"
  BY RowEffect
<1>4. ASSUME NEW q \in Runs, NEW p \in Runs, q # p, run[q].work = run[p].work,
             runRow[q] = "succeeded", Phase(run[p].todo) \in Holding
      PROVE  FALSE
  <2>1. /\ run[p].lease \in Leases /\ Active(run[p].lease) /\ run[p].lease # NoLease
        /\ lease[run[p].lease].work = run[p].work
    BY <1>1, <1>4, HolderHas
  <2>2. CASE Active(run[q].lease)
    <3>1. run[q].lease \in Leases /\ lease[run[q].lease].work = run[q].work
      BY <1>1, <1>4 DEF DoneOK, LeasesOK, DispatchTypes, RunRow
    <3>2. run[q].lease = run[p].lease
      BY <1>1, <1>4, <2>1, <2>2, <3>1 DEF LeasesOK, LeaseExclusive
    <3> QED BY <1>1, <1>4, <2>1, <3>2 DEF LeasesOK
  <2>3. CASE Gone(run[q].work)
    BY <1>4, <2>1, <2>3 DEF Gone, ActiveLeases
  <2> QED BY <1>1, <1>4, <2>2, <2>3 DEF DoneOK
<1>5. \A q, p \in Runs : q # p /\ run'[q].work = run'[p].work =>
                        ~(runRow'[q] = "succeeded" /\ runRow'[p] = "succeeded")
  <2> SUFFICES ASSUME NEW q \in Runs, NEW p \in Runs, q # p, run[q].work = run[p].work,
                      runRow'[q] = "succeeded", runRow'[p] = "succeeded"
               PROVE  FALSE
    BY <1>2
  <2>1. "charged" \in Holding
    BY DEF Holding
  <2>2. runRow[q] = "succeeded" => runRow[p] # "succeeded"
    BY <1>1 DEF DoneOK
  <2> QED BY <1>3, <1>4, <2>1, <2>2
<1>6. \A q \in Runs : runRow[q] = "succeeded" \/ Phase(run[q].todo) = "charged" =>
        /\ Phase(run[q].todo) \in {"charged", "over"} /\ run[q].work \in Works
        /\ run[q].lease # NoLease /\ run[q].lease \in Leases
        /\ lease[run[q].lease].work = run[q].work
        /\ Active(run[q].lease) \/ Gone(run[q].work)
  <2>1. \A q \in Runs : run[q].lease \in Leases \cup {NoLease}
    BY DEF DispatchTypes, RunRow
  <2>2. "charged" \in Holding
    BY DEF Holding
  <2> QED BY <1>1, <2>1, <2>2, HolderHas DEF DoneOK, LeasesOK
<1>7. CASE SameLeases /\ NotOffered
  <2>1. ASSUME NEW q \in Runs, runRow'[q] = "succeeded"
        PROVE  /\ Phase(run'[q].todo) \in {"charged", "over"} /\ run'[q].lease # NoLease
               /\ \/ lease'[run[q].lease].status = "active"
                  \/ /\ item'[run[q].work].status \notin {"queued", "absent"}
                     /\ \A m \in Leases : ~(lease'[m].status = "active" /\ lease'[m].work = run[q].work)
    <3>1. runRow[q] = "succeeded" \/ Phase(run[q].todo) = "charged"
      BY <1>3, <2>1
    <3>2. Active(run[q].lease) => lease'[run[q].lease].status = "active"
      BY <1>6, <1>7, <3>1 DEF SameLeases, Active
    <3>3. Gone(run[q].work) =>
            /\ item'[run[q].work].status \notin {"queued", "absent"}
            /\ \A m \in Leases : ~(lease'[m].status = "active" /\ lease'[m].work = run[q].work)
      BY <1>6, <1>7, <3>1 DEF SameLeases, NotOffered, Gone, ActiveLeases, Active
    <3> QED BY <1>2, <1>6, <3>1, <3>2, <3>3
  <2> QED BY <1>2, <1>5, <2>1 DEF DoneOK, Active, Gone, ActiveLeases
<1>8. ASSUME NEW requeue \in BOOLEAN, GivesBack(r, requeue), Phase(run[r].todo) \in Holding,
             Phase(run'[r].todo) = "over", requeue => Phase(run[r].todo) = "returning"
      PROVE  DoneOK'
  <2>1. /\ l \in Leases /\ l # NoLease /\ Active(l) /\ lease[l].work = run[r].work
        /\ run[r].work \in Works
    BY <1>1, <1>8, HolderHas
  <2>2. ASSUME NEW q \in Runs, runRow'[q] = "succeeded"
        PROVE  /\ Phase(run'[q].todo) \in {"charged", "over"} /\ run'[q].lease # NoLease
               /\ lease'[run[q].lease].status = "active" \/ Gone(run[q].work)'
    <3>1. runRow[q] = "succeeded"
      BY <1>3, <1>8, <2>2
    <3>2. CASE q = r
      <4>1. ~requeue
        BY <1>6, <1>8, <3>1, <3>2
      <4>2. item'[run[r].work].status = "cancelled"
        BY <1>8, <2>1, <4>1 DEF GivesBack
      <4>3. \A m \in Leases : ~(lease'[m].status = "active" /\ lease'[m].work = run[r].work)
        BY <1>1, <1>8, <2>1 DEF GivesBack, LeasesOK, LeaseExclusive, Active
      <4> QED BY <1>2, <1>6, <3>1, <3>2, <4>2, <4>3 DEF Gone, ActiveLeases, Active
    <3>3. CASE q # r /\ Active(run[q].lease)
      <4>1. run[q].lease # l /\ run[q].lease \in Leases
        BY <1>1, <1>6, <2>1, <3>1, <3>3 DEF LeasesOK
      <4>2. lease'[run[q].lease] = lease[run[q].lease]
        BY <1>8, <4>1 DEF GivesBack
      <4> QED BY <1>2, <1>6, <3>1, <3>3, <4>2 DEF Active
    <3>4. CASE Gone(run[q].work)
      <4>1. run[q].work # lease[l].work
        BY <2>1, <3>4 DEF Gone, ActiveLeases
      <4>2. item'[run[q].work] = item[run[q].work]
        BY <1>6, <1>8, <3>1, <4>1 DEF GivesBack
      <4>3. \A m \in Leases : lease'[m].status = "active" /\ lease'[m].work = run[q].work =>
                              lease[m].status = "active" /\ lease[m].work = run[q].work
        BY <1>8, <4>1 DEF GivesBack
      <4>4. Gone(run[q].work)'
        BY <1>2, <3>4, <4>2, <4>3 DEF Gone, ActiveLeases, Active
      <4> QED BY <1>2, <1>6, <3>1, <4>4
    <3> QED BY <1>6, <3>1, <3>2, <3>3, <3>4
  <2> QED BY <1>2, <1>5, <2>2 DEF DoneOK, Active, Gone, ActiveLeases
<1>9. CASE FinishLease(r) /\ GivesBack(r, FALSE)
  BY <1>1, <1>8, <1>9, PhaseEffect DEF Holding
<1>10. CASE RequeueLease(r) /\ GivesBack(r, TRUE)
  BY <1>1, <1>8, <1>10, PhaseEffect DEF Holding
<1> QED BY <1>1, <1>7, <1>9, <1>10, QueueEffect

LEMMA KeptRunStep ==
  ASSUME DispatchTypes, MoneyInv, AloneInv, ~Faulty, NEW r \in Runs, RunSteps(r)
  PROVE  Kept'
<1> DEFINE l == run[r].lease
<1>1. LeasesOK /\ Kept
  BY DEF AloneInv
<1>2. /\ \A q \in Runs : run'[q].lease = run[q].lease
      /\ \A q \in Runs \ {r} : run'[q] = run[q] /\ reservation'[q] = reservation[q]
  BY <1>1, PhaseEffect, OwnReservation
<1>3. \A q \in Runs : reservation'[q].status = "reserved" =>
                      Phase(run'[q].todo) \in {"paid", "refunding"}
  <2>1. reservation'[r].status = "reserved" => Phase(run'[r].todo) \in {"paid", "refunding"}
    <3> SUFFICES ASSUME reservation'[r].status = "reserved", Phase(run'[r].todo) # "paid"
                 PROVE  Phase(run'[r].todo) \in {"paid", "refunding"}
      OBVIOUS
    <3>1. reservation[r].status = "reserved"
      BY ReservationEffect
    <3>2. Phase(run[r].todo) \in {"paid", "refunding"}
      BY <1>1, <3>1 DEF Kept
    <3>3. ~(\E actual \in Actuals : CommitBudget(r, actual)) /\ ~Refund(r)
      BY ReservationEffect
    <3> QED BY <1>1, <3>2, <3>3, PhaseEffect
  <2> QED BY <1>1, <1>2, <2>1 DEF Kept
<1>4. CASE SameLeases /\ ~FinishLease(r) /\ ~RequeueLease(r)
  <2>1. \A q \in Runs : Phase(run[q].todo) \in Holding => Phase(run'[q].todo) \in Holding
    BY <1>1, <1>2, <1>4, PhaseEffect
  <2>2. \A m \in Leases : lease'[m].status = "active" =>
          \E q \in Runs : Phase(run'[q].todo) \in Holding /\ run'[q].lease = m
    BY <1>1, <1>2, <1>4, <2>1 DEF SameLeases, Kept, Active
  <2> QED BY <1>3, <2>2 DEF Kept, Active
<1>5. ASSUME NEW requeue \in BOOLEAN, GivesBack(r, requeue) PROVE Kept'
  <2>1. \A m \in Leases : lease'[m].status = "active" =>
          \E q \in Runs : Phase(run'[q].todo) \in Holding /\ run'[q].lease = m
    <3> SUFFICES ASSUME NEW m \in Leases, lease'[m].status = "active"
                 PROVE  \E q \in Runs : Phase(run'[q].todo) \in Holding /\ run'[q].lease = m
      OBVIOUS
    <3>1. m # l /\ Active(m)
      BY <1>5 DEF GivesBack, Active
    <3>2. PICK q \in Runs : Phase(run[q].todo) \in Holding /\ run[q].lease = m
      BY <1>1, <3>1 DEF Kept
    <3> QED BY <1>2, <3>1, <3>2
  <2> QED BY <1>3, <2>1 DEF Kept, Active
<1> QED BY <1>1, <1>4, <1>5, QueueEffect

LEMMA AloneRunStep ==
  ASSUME DispatchTypes, DispatchTypes', MoneyInv, AloneInv, NEW r \in Runs, RunSteps(r)
  PROVE  AloneInv'
  BY LeasesRunStep, PaidRunStep, DoneRunStep, KeptRunStep DEF AloneInv

\* A claim takes a lease nobody has, on an item that is offered.
LEMMA AloneClaimStep ==
  ASSUME DispatchTypes, DispatchTypes', MoneyInv, AloneInv, NEW r \in Runs, NEW l \in Leases,
         NEW lag \in Lags, AcquireClaim(r, l, lag)
  PROVE  AloneInv'
<1> DEFINE w == run[r].work
<1>1. LeasesOK /\ PaidFor /\ DoneOK
  BY DEF AloneInv
<1>2. /\ \A q \in Runs \ {r} : run'[q] = run[q]
      /\ run'[r].work = w /\ run'[r].lease = l
      /\ Phase(run[r].todo) = "unclaimed" /\ Phase(run'[r].todo) = "claimed"
      /\ w \in Works /\ l # NoLease
  BY AcquireClaimMoves, DispatchAssumption DEF DispatchTypes, RunOK
<1>3. /\ item[w].status = "queued" /\ ActiveLeases(w) = {} /\ lease[l].status = "unused"
      /\ UNCHANGED <<events, budgetRows, runRow>>
  BY DEF AcquireClaim, Claim, ValidateClaim
<1>4. /\ lease'[l].work = w /\ lease'[l].status = "active"
      /\ \A m \in Leases \ {l} : lease'[m] = lease[m]
      /\ \A v \in Works \ {w} : item'[v] = item[v]
  BY DEF AcquireClaim, Claim, DispatchTypes, QueueTypeOK
<1>5. \A q \in Runs : run[q].lease # l /\ run[q].lease \in Leases \cup {NoLease}
  BY <1>1, <1>2, <1>3 DEF LeasesOK, DispatchTypes, RunRow
<1>6. LeasesOK'
  <2>1. \A q \in Runs : Phase(run'[q].todo) = "unclaimed" => run'[q].lease = NoLease
    BY <1>1, <1>2 DEF LeasesOK
  <2>2. \A q \in Runs : run'[q].lease # NoLease =>
          /\ lease'[run'[q].lease].status # "unused"
          /\ lease'[run'[q].lease].work = run'[q].work
    BY <1>1, <1>2, <1>4, <1>5 DEF LeasesOK
  <2>3. \A q, p \in Runs : q # p /\ run'[q].lease = run'[p].lease => run'[q].lease = NoLease
    BY <1>1, <1>2, <1>5 DEF LeasesOK
  <2>4. \A q \in Runs : Phase(run'[q].todo) \in Holding => lease'[run'[q].lease].status = "active"
    <3>1. \A q \in Runs \ {r} : Phase(run[q].todo) \in Holding =>
                                run[q].lease \in Leases /\ Active(run[q].lease)
      BY <1>1, HolderHas
    <3> QED BY <1>2, <1>4, <1>5, <3>1 DEF Active
  <2>5. LeaseExclusive'
    BY <1>1, <1>3, <1>4 DEF LeasesOK, LeaseExclusive, ActiveLeases, Active
  <2>6. \A m \in Leases : <<"released", m>> \in events' => lease'[m].status = "released"
    BY <1>1, <1>3, <1>4 DEF LeasesOK
  <2> QED BY <2>1, <2>2, <2>3, <2>4, <2>5, <2>6 DEF LeasesOK, Active
<1>7. PaidFor'
  BY <1>1, <1>2, <1>3 DEF PaidFor, budgetRows
<1>8. DoneOK'
  <2>1. ASSUME NEW q \in Runs, runRow[q] = "succeeded"
        PROVE  /\ Phase(run'[q].todo) \in {"charged", "over"} /\ run'[q].lease # NoLease
               /\ run'[q].work = run[q].work
               /\ \/ lease'[run'[q].lease].status = "active"
                  \/ /\ item'[run[q].work].status \notin {"queued", "absent"}
                     /\ \A m \in Leases : ~(lease'[m].status = "active" /\ lease'[m].work = run[q].work)
    <3>1. Phase(run[q].todo) \in {"charged", "over"} /\ run[q].lease # NoLease /\ q # r
      BY <1>1, <1>2, <2>1 DEF DoneOK
    <3>2. run[q].work \in Works
      BY <1>1, <3>1, HolderHas
    <3>3. CASE Active(run[q].lease)
      BY <1>2, <1>4, <1>5, <3>1, <3>3 DEF Active
    <3>4. CASE Gone(run[q].work)
      <4>1. run[q].work # w
        BY <1>3, <3>4 DEF Gone
      <4> QED BY <1>2, <1>4, <3>1, <3>2, <3>4, <4>1 DEF Gone, ActiveLeases, Active
    <3> QED BY <1>1, <2>1, <3>3, <3>4 DEF DoneOK
  <2>2. \A q \in Runs : run'[q].work = run[q].work
    BY <1>2
  <2> QED BY <1>1, <1>3, <2>1, <2>2 DEF DoneOK, Gone, ActiveLeases, Active
<1>9. ASSUME ~Faulty PROVE Kept'
  <2>1. Kept
    BY <1>9 DEF AloneInv
  <2>2. \A m \in Leases : lease'[m].status = "active" =>
          \E q \in Runs : Phase(run'[q].todo) \in Holding /\ run'[q].lease = m
    <3> SUFFICES ASSUME NEW m \in Leases, lease'[m].status = "active"
                 PROVE  \E q \in Runs : Phase(run'[q].todo) \in Holding /\ run'[q].lease = m
      OBVIOUS
    <3>1. CASE m = l
      BY <1>2, <3>1 DEF Holding
    <3>2. CASE m # l
      <4>1. Active(m)
        BY <1>4, <3>2 DEF Active
      <4>2. PICK q \in Runs : Phase(run[q].todo) \in Holding /\ run[q].lease = m
        BY <2>1, <4>1 DEF Kept
      <4>3. q # r
        BY <1>2, <4>2 DEF Holding
      <4> QED BY <1>2, <4>2, <4>3
    <3> QED BY <3>1, <3>2
  <2>3. \A q \in Runs : reservation'[q].status = "reserved" =>
                        Phase(run'[q].todo) \in {"paid", "refunding"}
    BY <1>2, <1>3, <2>1 DEF Kept, budgetRows
  <2> QED BY <2>2, <2>3 DEF Kept, Active
<1> QED BY <1>6, <1>7, <1>8, <1>9 DEF AloneInv

\* A dispatch that is given no lease begins with nothing.
LEMMA AloneLoadStep ==
  ASSUME DispatchTypes, AloneInv, NEW r \in Runs, NEW w \in Works, LoadWorkItem(r, w, NoLease)
  PROVE  AloneInv'
<1>1. LeasesOK /\ PaidFor /\ DoneOK
  BY DEF AloneInv
<1>2. /\ \A q \in Runs \ {r} : run'[q] = run[q]
      /\ run'[r].lease = NoLease
      /\ Phase(run[r].todo) = "unclaimed" /\ Phase(run'[r].todo) = "unclaimed"
  BY LoadMoves, NewStepLists
<1>3. /\ lease' = lease /\ item' = item /\ events' = events /\ runRow' = runRow
      /\ reservation' = reservation
  BY DEF LoadWorkItem, queueVars, budgetRows
<1>4. LeasesOK'
  BY <1>1, <1>2, <1>3 DEF LeasesOK, LeaseExclusive, Active, Holding
<1>5. PaidFor'
  BY <1>1, <1>2, <1>3 DEF PaidFor
<1>6. DoneOK'
  <2>1. runRow[r] # "succeeded"
    BY <1>1, <1>2 DEF DoneOK
  <2> QED BY <1>1, <1>2, <1>3, <2>1 DEF DoneOK, Gone, ActiveLeases, Active
<1>7. ASSUME ~Faulty PROVE Kept'
  <2>1. \A q \in Runs : Phase(run[q].todo) \in Holding => run'[q] = run[q]
    BY <1>2 DEF Holding
  <2>2. \A q \in Runs : reservation[q].status = "reserved" => run'[q] = run[q]
    BY <1>2, <1>7 DEF AloneInv, Kept
  <2> QED BY <1>3, <1>7, <2>1, <2>2 DEF AloneInv, Kept, Active
<1> QED BY <1>4, <1>5, <1>6, <1>7 DEF AloneInv

LEMMA AloneScheduleStep ==
  ASSUME DispatchTypes, AloneInv, Schedule
  PROVE  AloneInv'
<1>1. PICK w \in Works : MaterializeWork(w)
  BY DEF Schedule
<1>2. item[w].status = "absent" /\ \A v \in Works \ {w} : item'[v] = item[v]
  BY <1>1 DEF MaterializeWork, DispatchTypes, QueueTypeOK
<1>3. /\ lease' = lease /\ events' = events /\ run' = run /\ runRow' = runRow
      /\ reservation' = reservation
  BY <1>1 DEF Schedule, MaterializeWork, budgetRows
<1>4. LeasesOK' /\ PaidFor' /\ (~Faulty => Kept')
  BY <1>3 DEF AloneInv, LeasesOK, PaidFor, Kept, LeaseExclusive, Active
<1>5. DoneOK'
  <2>1. LeasesOK /\ DoneOK
    BY DEF AloneInv
  <2>2. \A q \in Runs : runRow[q] = "succeeded" => run[q].work \in Works
    BY <2>1, HolderHas DEF DoneOK
  <2>3. \A v \in Works : item[v].status \notin {"queued", "absent"} => item'[v] = item[v]
    BY <1>2
  <2> QED BY <1>3, <2>1, <2>2, <2>3 DEF DoneOK, Gone, ActiveLeases, Active
<1> QED BY <1>4, <1>5 DEF AloneInv

LEMMA AloneInit == DispatchInit => AloneInv
<1> SUFFICES ASSUME DispatchInit PROVE AloneInv
  OBVIOUS
<1>1. /\ \A r \in Runs : /\ Phase(run[r].todo) = "unclaimed" /\ run[r].lease = NoLease
                         /\ runRow[r] # "succeeded" /\ reservation[r].status = "none"
      /\ \A l \in Leases : lease[l].status = "unused"
      /\ events = {}
  BY NewStepLists DEF DispatchInit, QueueInit, UnusedLease, NotBegun, B!NoReservation
<1>2. LeasesOK
  BY <1>1 DEF LeasesOK, LeaseExclusive, Active, Holding
<1> QED BY <1>1, <1>2 DEF AloneInv, PaidFor, DoneOK, Kept, Active

LEMMA AloneCases ==
  ASSUME AloneNext
  PROVE  \/ Schedule
         \/ \E r \in Runs :
              \/ \E w \in Works, l \in Leases \cup {NoLease} : LoadWorkItem(r, w, l)
              \/ \E l \in Leases, lag \in Lags : AcquireClaim(r, l, lag)
              \/ RunSteps(r)
  BY DEF AloneNext, DispatchStep, RunSteps

AloneAll == DispatchTypes /\ MoneyInv /\ AloneInv

LEMMA AloneInvariant ==
  ASSUME ~GiveLease
  PROVE  AloneSpec => []AloneAll
<1>1. DispatchInit => AloneAll
  BY DispatchTypesInit, MoneyInit, AloneInit DEF AloneAll
<1>2. AloneAll /\ [AloneNext]_dispatchVars => AloneAll'
  <2> SUFFICES ASSUME AloneAll, [AloneNext]_dispatchVars PROVE AloneAll'
    OBVIOUS
  <2>1. DispatchTypes /\ MoneyInv /\ AloneInv /\ [DispatchNext]_dispatchVars
    BY DEF AloneAll, AloneNext, DispatchNext
  <2>2. DispatchTypes' /\ MoneyInv'
    BY <2>1, DispatchTypesStep, MoneyStep
  <2>3. ASSUME UNCHANGED dispatchVars PROVE AloneInv'
    BY <2>1, <2>3
    DEF dispatchVars, queueVars, budgetRows, AloneInv, LeasesOK, PaidFor, DoneOK, Kept,
        LeaseExclusive, Gone, ActiveLeases, Active
  <2>4. ASSUME Schedule PROVE AloneInv'
    BY <2>1, <2>4, AloneScheduleStep
  <2>5. ASSUME NEW r \in Runs, NEW w \in Works, NEW l \in Leases \cup {NoLease}, LoadWorkItem(r, w, l)
        PROVE  AloneInv'
    <3>1. l = NoLease
      BY <2>5 DEF LoadWorkItem
    <3> QED BY <2>1, <2>5, <3>1, AloneLoadStep
  <2>6. ASSUME NEW r \in Runs, NEW l \in Leases, NEW lag \in Lags, AcquireClaim(r, l, lag)
        PROVE  AloneInv'
    BY <2>1, <2>2, <2>6, AloneClaimStep
  <2>7. ASSUME NEW r \in Runs, RunSteps(r) PROVE AloneInv'
    BY <2>1, <2>2, <2>7, AloneRunStep
  <2>8. ASSUME AloneNext PROVE AloneInv'
    BY <2>4, <2>5, <2>6, <2>7, <2>8, AloneCases
  <2> QED BY <2>2, <2>3, <2>8 DEF AloneAll
<1> QED BY <1>1, <1>2, PTL DEF AloneSpec

\* Any number of dispatches that are alone with the scheduler, and were given no lease,
\* never run a worker without a reservation in force and an active lease on its item, even
\* when store calls fail.
THEOREM WorkerIsCoveredHolds ==
  ASSUME ~GiveLease
  PROVE  AloneSpec => []WorkerIsCovered
<1>1. AloneAll => WorkerIsCovered
  <2> SUFFICES ASSUME AloneAll, NEW r \in Runs, At(r, "worker")
               PROVE  /\ reservation[r].status = "reserved"
                      /\ Active(run[r].lease) /\ lease[run[r].lease].work = run[r].work
    BY DEF WorkerIsCovered
  <2>1. DispatchTypes /\ LeasesOK /\ PaidFor
    BY DEF AloneAll, AloneInv
  <2>2. Phase(run[r].todo) = "paid"
    BY <2>1, ListSteps DEF At, DispatchTypes, RunRow, RunOK
  <2> QED BY <2>1, <2>2, HolderHas DEF PaidFor, Holding
<1> QED BY <1>1, AloneInvariant, PTL

\* They never work on one item at once, and no item is done twice, one dispatch after the
\* other, whether or not store calls fail.
THEOREM DoneOnceHolds ==
  ASSUME ~GiveLease
  PROVE  AloneSpec => []DoneOnce
<1>1. AloneAll => DoneOnce
  <2> SUFFICES ASSUME AloneAll, NEW q \in Runs, NEW r \in Runs, q # r, run[q].work = run[r].work
               PROVE  /\ ~(At(q, "worker") /\ At(r, "worker"))
                      /\ ~(runRow[q] = "succeeded" /\ runRow[r] = "succeeded")
    BY DEF DoneOnce
  <2>1. DispatchTypes /\ LeasesOK /\ DoneOK
    BY DEF AloneAll, AloneInv
  <2>2. ASSUME NEW p \in Runs, At(p, "worker")
        PROVE  /\ run[p].lease \in Leases /\ run[p].lease # NoLease
               /\ Active(run[p].lease) /\ lease[run[p].lease].work = run[p].work
    <3>1. Phase(run[p].todo) \in Holding
      BY <2>1, <2>2, ListSteps DEF At, DispatchTypes, RunRow, RunOK, Holding
    <3> QED BY <2>1, <3>1, HolderHas
  <2>3. ~(At(q, "worker") /\ At(r, "worker"))
    BY <2>1, <2>2 DEF LeasesOK, LeaseExclusive
  <2> QED BY <2>1, <2>3 DEF DoneOK
<1> QED BY <1>1, AloneInvariant, PTL

\* Without failures, once all of them have returned no lease is active and the window
\* holds no money, whichever of the paths of a dispatch they took.
THEOREM NothingHeldHolds ==
  ASSUME ~GiveLease, ~Faulty
  PROVE  AloneSpec => []NothingHeld
<1>1. AloneAll => NothingHeld
  <2> SUFFICES ASSUME AloneAll, \A r \in Runs : Ended(r) \/ At(r, "begin")
               PROVE  (\A l \in Leases : ~Active(l)) /\ window[1].reserved = 0
    BY DEF NothingHeld
  <2>1. DispatchTypes /\ Kept /\ BP!TablesOK /\ BP!BooksOK
    BY DEF AloneAll, AloneInv, MoneyInv
  <2>2. \A r \in Runs : Phase(run[r].todo) \in {"over", "unclaimed"}
    BY <2>1, NewStepLists, ListSteps DEF Ended, At, DispatchTypes, RunRow, RunOK
  <2>3. \A l \in Leases : ~Active(l)
    BY <2>1, <2>2 DEF Kept, Holding
  <2>4. \A r \in Runs : reservation[r].status # "reserved"
    BY <2>1, <2>2 DEF Kept
  <2>5. DOMAIN BP!HeldBy(1) = Runs /\ \A r \in Runs : BP!HeldBy(1)[r] = 0
    BY <2>4 DEF BP!HeldBy, BP!Booked
  <2>6. BP!Total(BP!HeldBy(1)) = 0
    BY <2>5, BudgetInstance, BP!TotalOfNothing
  <2>7. window[1].reserved = BP!Total(BP!HeldBy(1))
    BY <2>1 DEF BP!BooksOK, BP!Balanced, BP!Months
  <2> QED BY <2>3, <2>6, <2>7
<1> QED BY <1>1, AloneInvariant, PTL
=============================================================================
