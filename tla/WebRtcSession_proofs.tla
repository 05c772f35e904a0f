------------------------ MODULE WebRtcSession_proofs ------------------------
(***************************************************************************)
(* The safety of WebRTC sessions for every number of attempts, losses of   *)
(* WiFi and tries, and whichever calls may fail.                           *)
(*                                                                         *)
(* What a caller still has to do only matters as far as its first and its  *)
(* last step and whether pc_task is still to be joined.  The first part    *)
(* says what every step makes of these; the invariants and their proofs    *)
(* speak of nothing else.                                                  *)
(***************************************************************************)
EXTENDS WebRtcSession, SequenceTheorems, TLAPS

USE DEF shared, vars

-----------------------------------------------------------------------------
(* Lists of steps                                                          *)

First(s) == IF s = <<>> THEN "none" ELSE Head(s)
Last(s) == IF s = <<>> THEN "none" ELSE s[Len(s)]
Joins(s) == \E i \in DOMAIN s : s[i] \in {"peer", "waitPeer"}
Ahead(s) == IF Joins(s) THEN "peer" ELSE "free"

CloseHeads == {"mark", "streams", "off", "waitSend", "peer", "waitPeer", "free"}

\* What is left of a close, and what comes after it.
Prefixes ==
  {<<"mark", "streams", "peer", "free">>, <<"streams", "peer", "free">>,
   <<"off", "peer", "free">>, <<"waitSend", "peer", "free">>, <<"peer", "free">>,
   <<"waitPeer", "free">>, <<"streams", "free">>, <<"off", "free">>,
   <<"waitSend", "free">>, <<"free">>}
Rests(t) ==
  IF t = "orch" THEN {<<"open", "start">>, <<"fail">>, <<"teardown">>}
                ELSE {<<"teardown", "post", "exit">>}
Begins(t) ==
  IF t = "orch" THEN {<<"begin", "open", "start">>, <<"start">>, <<"take", "teardown">>}
                ELSE {<<"take", "teardown", "post", "exit">>, <<"post", "exit">>, <<"exit">>}
Then(p, r) == p \o r
Closings(t) == {Then(p, r) : p \in Prefixes, r \in Rests(t)}
Shapes(t) == {<<>>} \cup Begins(t) \cup Rests(t) \cup Closings(t)

\* The list s of t has become r, which begins with f and ends as before.
Becomes(t, s, r, f, ahead) ==
  /\ r \in Shapes(t) /\ r # <<>> /\ First(r) = f /\ Last(r) = Last(s) /\ Ahead(r) = ahead

LEMMA Pair == \A a, b : <<a>> \o <<b>> = <<a, b>>
  <1> SUFFICES ASSUME NEW a, NEW b PROVE <<a>> \o <<b>> = <<a, b>>
    OBVIOUS
  <1> DEFINE S == {a, b}
  <1>1. <<a>> \in Seq(S) /\ <<b>> \in Seq(S) /\ <<a, b>> \in Seq(S)
    OBVIOUS
  <1>2. <<a>> \o <<b>> \in Seq(S) /\ Len(<<a>> \o <<b>>) = 2
    BY <1>1
  <1>3. \A i \in 1 .. 2 : (<<a>> \o <<b>>)[i] = <<a, b>>[i]
    BY <1>1
  <1> QED BY <1>1, <1>2, <1>3, SeqEqual, Len(<<a, b>>) = 2

LEMMA Triple == \A a, b, c : <<a>> \o <<b, c>> = <<a, b, c>>
  <1> SUFFICES ASSUME NEW a, NEW b, NEW c PROVE <<a>> \o <<b, c>> = <<a, b, c>>
    OBVIOUS
  <1> DEFINE S == {a, b, c}
  <1>1. <<a>> \in Seq(S) /\ <<b, c>> \in Seq(S) /\ <<a, b, c>> \in Seq(S)
    OBVIOUS
  <1>2. <<a>> \o <<b, c>> \in Seq(S) /\ Len(<<a>> \o <<b, c>>) = 3
    BY <1>1
  <1>3. \A i \in 1 .. 3 : (<<a>> \o <<b, c>>)[i] = <<a, b, c>>[i]
    BY <1>1
  <1> QED BY <1>1, <1>2, <1>3, SeqEqual, Len(<<a, b, c>>) = 3

\* Everything a close can be at, by its first step.
LEMMA PrefixSteps ==
  ASSUME NEW p \in Prefixes
  PROVE  /\ p \in Seq(Steps) /\ p # <<>> /\ Head(p) \in CloseHeads
         /\ Head(p) = "mark" => Ahead(p) = "peer" /\ Tail(p) = <<"streams", "peer", "free">>
         /\ Head(p) \in {"streams", "off", "waitSend"} =>
              Tail(p) = IF Ahead(p) = "peer" THEN <<"peer", "free">> ELSE <<"free">>
         /\ Head(p) = "peer" => Ahead(p) = "peer" /\ Tail(p) = <<"free">>
         /\ Head(p) = "waitPeer" => Ahead(p) = "peer" /\ Tail(p) = <<"free">>
         /\ Head(p) = "free" => Ahead(p) = "free" /\ Tail(p) = <<>>
  <1>1. CASE p = <<"mark", "streams", "peer", "free">> BY <1>1 DEF Steps, Ahead, Joins, CloseHeads
  <1>2. CASE p = <<"streams", "peer", "free">> BY <1>2 DEF Steps, Ahead, Joins, CloseHeads
  <1>3. CASE p = <<"off", "peer", "free">> BY <1>3 DEF Steps, Ahead, Joins, CloseHeads
  <1>4. CASE p = <<"waitSend", "peer", "free">> BY <1>4 DEF Steps, Ahead, Joins, CloseHeads
  <1>5. CASE p = <<"peer", "free">> BY <1>5 DEF Steps, Ahead, Joins, CloseHeads
  <1>6. CASE p = <<"waitPeer", "free">> BY <1>6 DEF Steps, Ahead, Joins, CloseHeads
  <1>7. CASE p = <<"streams", "free">> BY <1>7 DEF Steps, Ahead, Joins, CloseHeads
  <1>8. CASE p = <<"off", "free">> BY <1>8 DEF Steps, Ahead, Joins, CloseHeads
  <1>9. CASE p = <<"waitSend", "free">> BY <1>9 DEF Steps, Ahead, Joins, CloseHeads
  <1>10. CASE p = <<"free">> BY <1>10 DEF Steps, Ahead, Joins, CloseHeads
  <1> QED BY <1>1, <1>2, <1>3, <1>4, <1>5, <1>6, <1>7, <1>8, <1>9, <1>10 DEF Prefixes

LEMMA RestSteps ==
  ASSUME NEW t \in Callers, NEW r \in Rests(t)
  PROVE  /\ r \in Seq(Steps) /\ r # <<>> /\ Len(r) >= 1 /\ Ahead(r) = "free"
         /\ t = "stop" => First(r) = "teardown" /\ Last(r) = "exit"
         /\ t = "orch" => \/ First(r) = "open" /\ Last(r) = "start"
                          \/ First(r) = "fail" /\ Last(r) = "fail"
                          \/ First(r) = "teardown" /\ Last(r) = "teardown"
  <1>1. CASE r = <<"open", "start">> BY <1>1 DEF Steps, Ahead, Joins, First, Last, Rests
  <1>2. CASE r = <<"fail">> BY <1>2 DEF Steps, Ahead, Joins, First, Last, Rests
  <1>3. CASE r = <<"teardown">> BY <1>3 DEF Steps, Ahead, Joins, First, Last, Rests
  <1>4. CASE r = <<"teardown", "post", "exit">> BY <1>4 DEF Steps, Ahead, Joins, First, Last, Rests
  <1> QED BY <1>1, <1>2, <1>3, <1>4 DEF Rests

\* A close with what comes after it.
LEMMA JointConcat ==
  ASSUME NEW t \in Callers, NEW p \in Prefixes, NEW r \in Rests(t)
  PROVE  /\ p \o r \in Seq(Steps) /\ p \o r # <<>>
         /\ First(p \o r) = Head(p) /\ Last(p \o r) = Last(r) /\ Ahead(p \o r) = Ahead(p)
         /\ Tail(p \o r) = Tail(p) \o r
         /\ \A x : <<x>> \o Tail(p \o r) = (<<x>> \o Tail(p)) \o r
         /\ Tail(p) = <<>> => Tail(p \o r) = r
  <1>1. p \in Seq(Steps) /\ p # <<>> /\ r \in Seq(Steps) /\ Len(r) >= 1 /\ Ahead(r) = "free" /\ r # <<>>
    BY PrefixSteps, RestSteps
  <1>2. /\ p \o r \in Seq(Steps) /\ Len(p \o r) = Len(p) + Len(r)
        /\ \A i \in 1 .. Len(p) + Len(r) :
             (p \o r)[i] = IF i <= Len(p) THEN p[i] ELSE r[i - Len(p)]
    BY <1>1, ConcatProperties
  <1>3. Len(p) \in Nat /\ Len(p) >= 1 /\ Len(r) \in Nat /\ Head(p) = p[1] /\ Tail(p) \in Seq(Steps)
    BY <1>1
  <1>4. p \o r # <<>> /\ Head(p \o r) = Head(p)
    BY <1>1, <1>2, <1>3
  <1>5. Last(p \o r) = Last(r)
    BY <1>1, <1>2, <1>3, <1>4 DEF Last
  <1>6. Ahead(p \o r) = Ahead(p)
    <2>1. ASSUME Joins(p) PROVE Joins(p \o r)
      <3>1. PICK i \in 1 .. Len(p) : p[i] \in {"peer", "waitPeer"}
        BY <1>1, <2>1 DEF Joins
      <3>2. i \in 1 .. Len(p) + Len(r) /\ (p \o r)[i] = p[i]
        BY <1>2, <1>3, <3>1
      <3>3. i \in DOMAIN (p \o r)
        BY <1>2, <3>2
      <3> QED BY <3>1, <3>2, <3>3 DEF Joins
    <2>2. ASSUME Joins(p \o r) PROVE Joins(p)
      <3>1. PICK i \in 1 .. Len(p) + Len(r) : (p \o r)[i] \in {"peer", "waitPeer"}
        BY <1>2, <2>2 DEF Joins
      <3>2. CASE i <= Len(p)
        <4>1. i \in DOMAIN p /\ p[i] \in {"peer", "waitPeer"}
          BY <1>1, <1>2, <1>3, <3>1, <3>2
        <4> QED BY <4>1 DEF Joins
      <3>3. CASE ~(i <= Len(p))
        <4>1. i - Len(p) \in DOMAIN r /\ r[i - Len(p)] \in {"peer", "waitPeer"}
          BY <1>1, <1>2, <1>3, <3>1, <3>3
        <4> QED BY <1>1, <4>1 DEF Joins, Ahead
      <3> QED BY <3>2, <3>3
    <2> QED BY <2>1, <2>2 DEF Ahead
  <1>7. Tail(p \o r) = Tail(p) \o r
    BY <1>1, <1>3, ConcatSimplifications, SeqEqual, <1>2
  <1>8. \A x : <<x>> \o Tail(p \o r) = (<<x>> \o Tail(p)) \o r
    <2> TAKE x
    <2> DEFINE S == Steps \cup {x}
    <2>1. <<x>> \in Seq(S) /\ Tail(p) \in Seq(S) /\ r \in Seq(S)
      BY <1>1, <1>3
    <2> QED BY <1>7, <2>1, ConcatAssociative
  <1>9. Tail(p) = <<>> => Tail(p \o r) = r
    BY <1>1, <1>7, ConcatEmptySeq
  <1> QED BY <1>2, <1>4, <1>5, <1>6, <1>7, <1>8, <1>9 DEF First

LEMMA Joint ==
  ASSUME NEW t \in Callers, NEW p \in Prefixes, NEW r \in Rests(t)
  PROVE  /\ Then(p, r) \in Seq(Steps) /\ Then(p, r) # <<>> /\ Then(p, r) \in Shapes(t)
         /\ First(Then(p, r)) = Head(p) /\ Last(Then(p, r)) = Last(r)
         /\ Ahead(Then(p, r)) = Ahead(p)
         /\ Tail(Then(p, r)) = Then(Tail(p), r)
         /\ \A x : Then(<<x>>, Tail(Then(p, r))) = Then(Then(<<x>>, Tail(p)), r)
         /\ Tail(p) = <<>> => Tail(Then(p, r)) = r
         /\ Then(<<>>, Tail(Then(p, r))) = Tail(Then(p, r))
  <1>1. p \o r \in Seq(Steps) /\ p \o r # <<>>
    BY JointConcat
  <1>2. <<>> \o Tail(p \o r) = Tail(p \o r)
    BY <1>1, ConcatEmptySeq, Tail(p \o r) \in Seq(Steps)
  <1>3. Then(p, r) \in Closings(t)
    BY DEF Closings
  <1> QED BY <1>2, <1>3, JointConcat DEF Then, Shapes

LEMMA Reaches ==
  ASSUME NEW t \in Callers, NEW r \in Rests(t), NEW q \in Prefixes, NEW s, NEW h, NEW ahead,
         Last(s) = Last(r), Head(q) = h, Ahead(q) = ahead
  PROVE  Becomes(t, s, Then(q, r), h, ahead)
  BY Joint DEF Becomes

\* What the steps of a close leave behind.
LEMMA ClosingMoves ==
  ASSUME NEW t \in Callers, NEW s \in Closings(t)
  PROVE  /\ s # <<>> /\ First(s) = Head(s) /\ Head(s) \in CloseHeads
         /\ Head(s) = "mark" => Becomes(t, s, Tail(s), "streams", "peer")
         /\ Head(s) = "streams" =>
              /\ Becomes(t, s, Then(<<"off">>, Tail(s)), "off", Ahead(s))
              /\ Becomes(t, s, Then(<<>>, Tail(s)), Ahead(s), Ahead(s))
         /\ Head(s) = "off" => Becomes(t, s, Then(<<"waitSend">>, Tail(s)), "waitSend", Ahead(s))
         /\ Head(s) = "waitSend" =>
              Becomes(t, s, Tail(s), Ahead(s), Ahead(s))
         /\ Head(s) = "peer" =>
              /\ Ahead(s) = "peer"
              /\ Becomes(t, s, Then(<<"waitPeer">>, Tail(s)), "waitPeer", "peer")
              /\ Becomes(t, s, Then(<<>>, Tail(s)), "free", "free")
         /\ Head(s) = "waitPeer" =>
              /\ Ahead(s) = "peer"
              /\ Becomes(t, s, Then(<<"streams">>, Tail(s)), "streams", "free")
              /\ Becomes(t, s, Then(<<>>, Tail(s)), "free", "free")
         /\ Head(s) = "free" =>
              /\ Ahead(s) = "free" /\ Tail(s) \in Rests(t) /\ Last(Tail(s)) = Last(s) /\ Ahead(Tail(s)) = "free"
  <1>1. PICK p \in Prefixes, r \in Rests(t) : s = Then(p, r)
    BY DEF Closings
  <1>2. /\ s # <<>> /\ First(s) = Head(p) /\ Last(s) = Last(r) /\ Ahead(s) = Ahead(p)
        /\ Tail(s) = Then(Tail(p), r) /\ s \in Seq(Steps)
        /\ \A x : Then(<<x>>, Tail(s)) = Then(Then(<<x>>, Tail(p)), r)
        /\ Tail(p) = <<>> => Tail(s) = r
    BY <1>1, Joint
  <1>3. First(s) = Head(s)
    BY <1>2 DEF First
  <1>4. Then(<<>>, Tail(s)) = Tail(s)
    BY <1>1, Joint
  <1>5. ASSUME NEW q \in Prefixes, NEW h, NEW ahead, Head(q) = h, Ahead(q) = ahead
        PROVE  Becomes(t, s, Then(q, r), h, ahead)
    BY <1>2, <1>5, Reaches
  <1>6. CASE Head(s) = "mark"
    <2> DEFINE q == <<"streams", "peer", "free">>
    <2>1. Tail(p) = q
      BY <1>2, <1>3, <1>6, PrefixSteps
    <2>2. q \in Prefixes /\ Ahead(q) = "peer" /\ Head(q) = "streams"
      BY DEF Prefixes, Ahead, Joins
    <2>3. Becomes(t, s, Then(q, r), "streams", "peer")
      <3> HIDE DEF q
      <3> QED BY <1>5, <2>2
    <2> QED BY <1>2, <1>3, <1>6, <2>1, <2>3 DEF CloseHeads
  <1>7. CASE Head(s) \in {"streams", "off", "waitSend"}
    <2>1. Tail(p) = IF Ahead(s) = "peer" THEN <<"peer", "free">> ELSE <<"free">>
      BY <1>2, <1>3, <1>7, PrefixSteps
    <2>2. ASSUME NEW x \in {"off", "waitSend"}
          PROVE  Becomes(t, s, Then(<<x>>, Tail(s)), x, Ahead(s))
      <3> DEFINE q == IF Ahead(s) = "peer" THEN <<x, "peer", "free">> ELSE <<x, "free">>
      <3>1. Then(<<x>>, Tail(p)) = q
        BY <2>1, Pair, Triple DEF Then
      <3>2. q \in Prefixes /\ Head(q) = x
        BY DEF Prefixes
      <3>3. Ahead(q) = Ahead(s)
        BY DEF Ahead, Joins
      <3> HIDE DEF q
      <3>4. Becomes(t, s, Then(q, r), x, Ahead(s))
        BY <1>5, <3>2, <3>3
      <3> QED BY <1>2, <3>1, <3>4
    <2>3. Becomes(t, s, Tail(s), Ahead(s), Ahead(s))
      <3> DEFINE q == IF Ahead(s) = "peer" THEN <<"peer", "free">> ELSE <<"free">>
      <3>1. q \in Prefixes /\ Head(q) = Ahead(s)
        BY DEF Prefixes, Ahead
      <3>2. Ahead(q) = Ahead(s)
        BY DEF Ahead, Joins
      <3>3. Tail(p) = q
        BY <2>1
      <3> HIDE DEF q
      <3>4. Becomes(t, s, Then(q, r), Ahead(s), Ahead(s))
        BY <1>5, <3>1, <3>2
      <3> QED BY <1>2, <3>3, <3>4
    <2> QED BY <1>2, <1>3, <1>4, <1>7, <2>2, <2>3 DEF CloseHeads
  <1>8. CASE Head(s) \in {"peer", "waitPeer"}
    <2>1. Tail(p) = <<"free">> /\ Ahead(s) = "peer"
      BY <1>2, <1>3, <1>8, PrefixSteps
    <2>2. ASSUME NEW x \in {"streams", "waitPeer"}
          PROVE  Becomes(t, s, Then(<<x>>, Tail(s)), x, IF x = "streams" THEN "free" ELSE "peer")
      <3> DEFINE q == <<x, "free">>
      <3>1. Then(<<x>>, Tail(p)) = q
        BY <2>1, Pair DEF Then
      <3>2. q \in Prefixes /\ Head(q) = x
        BY DEF Prefixes
      <3>3. Ahead(q) = IF x = "streams" THEN "free" ELSE "peer"
        BY DEF Ahead, Joins
      <3> HIDE DEF q
      <3>4. Becomes(t, s, Then(q, r), x, IF x = "streams" THEN "free" ELSE "peer")
        BY <1>5, <3>2, <3>3
      <3> QED BY <1>2, <3>1, <3>4
    <2>3. Becomes(t, s, Tail(s), "free", "free")
      <3> DEFINE q == <<"free">>
      <3>1. q \in Prefixes /\ Head(q) = "free"
        BY DEF Prefixes
      <3>2. Ahead(q) = "free"
        BY DEF Ahead, Joins
      <3> HIDE DEF q
      <3>3. Becomes(t, s, Then(q, r), "free", "free")
        BY <1>5, <3>1, <3>2
      <3> QED BY <1>2, <2>1, <3>3 DEF q
    <2> QED BY <1>2, <1>3, <1>4, <1>8, <2>1, <2>2, <2>3 DEF CloseHeads
  <1>9. CASE Head(s) = "free"
    <2>1. Tail(p) = <<>> /\ Ahead(s) = "free"
      BY <1>2, <1>3, <1>9, PrefixSteps
    <2> QED BY <1>2, <1>3, <1>9, <2>1, RestSteps DEF CloseHeads
  <1>10. Head(s) \in CloseHeads
    BY <1>2, <1>3, PrefixSteps
  <1> QED BY <1>2, <1>3, <1>6, <1>7, <1>8, <1>9, <1>10 DEF CloseHeads

LEMMA Quad == \A a, b, c, d : <<a, b>> \o <<c, d>> = <<a, b, c, d>>
  <1> SUFFICES ASSUME NEW a, NEW b, NEW c, NEW d PROVE <<a, b>> \o <<c, d>> = <<a, b, c, d>>
    OBVIOUS
  <1> DEFINE S == {a, b, c, d}
  <1>1. <<a, b>> \in Seq(S) /\ <<c, d>> \in Seq(S) /\ <<a, b, c, d>> \in Seq(S)
    OBVIOUS
  <1>2. <<a, b>> \o <<c, d>> \in Seq(S) /\ Len(<<a, b>> \o <<c, d>>) = 4
    BY <1>1
  <1>3. \A i \in 1 .. 4 : (<<a, b>> \o <<c, d>>)[i] = <<a, b, c, d>>[i]
    BY <1>1
  <1> QED BY <1>1, <1>2, <1>3, SeqEqual, Len(<<a, b, c, d>>) = 4

\* What comes after a close, by the last step of the list.
Onward(l) == IF l = "start" THEN "open" ELSE IF l = "fail" THEN "fail" ELSE "teardown"

\* Where a list can be.
LEMMA Stage ==
  ASSUME NEW t \in Callers, NEW s \in Shapes(t)
  PROVE  /\ s \in Seq(Steps)
         /\ s = <<>> <=> First(s) = "none"
         /\ s = <<>> <=> Last(s) = "none"
         /\ s # <<>> => First(s) = Head(s)
         /\ t = "orch" => /\ First(s) \in CloseHeads \cup {"none", "begin", "open", "start", "fail",
                                                            "take", "teardown"}
                          /\ Last(s) \in {"none", "start", "fail", "teardown"}
                          /\ First(s) \in {"take", "teardown"} => Last(s) = "teardown"
         /\ t = "stop" => /\ First(s) \in CloseHeads \cup {"none", "take", "teardown", "post", "exit"}
                          /\ Last(s) \in {"none", "exit"}
         /\ First(s) \in {"begin", "open", "start"} => Last(s) = "start"
         /\ First(s) = "fail" => Last(s) = "fail"
         /\ Ahead(s) \in {"peer", "free"}
         /\ Ahead(s) = "peer" => First(s) \in CloseHeads \ {"free"}
         /\ First(s) \in {"mark", "peer", "waitPeer"} => Ahead(s) = "peer"
  <1>1. CASE s = <<>>
    BY <1>1 DEF First, Last, Ahead, Joins, CloseHeads
  <1>2. CASE s \in Begins(t)
    <2>1. CASE s = <<"begin", "open", "start">> /\ t = "orch"
      BY <2>1 DEF Steps, First, Last, Ahead, Joins, CloseHeads
    <2>2. CASE s = <<"start">> /\ t = "orch"
      BY <2>2 DEF Steps, First, Last, Ahead, Joins, CloseHeads
    <2>3. CASE s = <<"take", "teardown">> /\ t = "orch"
      BY <2>3 DEF Steps, First, Last, Ahead, Joins, CloseHeads
    <2>4. CASE s = <<"take", "teardown", "post", "exit">> /\ t = "stop"
      BY <2>4 DEF Steps, First, Last, Ahead, Joins, CloseHeads
    <2>5. CASE s = <<"post", "exit">> /\ t = "stop"
      BY <2>5 DEF Steps, First, Last, Ahead, Joins, CloseHeads
    <2>6. CASE s = <<"exit">> /\ t = "stop"
      BY <2>6 DEF Steps, First, Last, Ahead, Joins, CloseHeads
    <2> QED BY <1>2, <2>1, <2>2, <2>3, <2>4, <2>5, <2>6 DEF Begins, Callers
  <1>3. CASE s \in Rests(t)
    <2>1. s \in Seq(Steps) /\ s # <<>> /\ Ahead(s) = "free" /\ First(s) = Head(s)
      BY <1>3, RestSteps DEF First
    <2> QED BY <1>3, <2>1, RestSteps DEF Callers, CloseHeads
  <1>4. CASE s \in Closings(t)
    <2>1. PICK p \in Prefixes, r \in Rests(t) : s = Then(p, r)
      BY <1>4 DEF Closings
    <2>2. /\ s \in Seq(Steps) /\ s # <<>> /\ First(s) = Head(p) /\ Last(s) = Last(r)
          /\ Ahead(s) = Ahead(p)
      BY <2>1, Joint
    <2>3. First(s) = Head(s) /\ Head(p) \in CloseHeads /\ Ahead(p) \in {"peer", "free"}
      BY <2>2, PrefixSteps DEF First, Ahead
    <2>4. /\ Head(p) \in {"mark", "peer", "waitPeer"} => Ahead(p) = "peer"
          /\ Head(p) = "free" => Ahead(p) = "free"
      BY PrefixSteps
    <2> QED BY <2>2, <2>3, <2>4, RestSteps DEF Callers, CloseHeads
  <1> QED BY <1>1, <1>2, <1>3, <1>4 DEF Shapes

LEMMA ClosingList ==
  ASSUME NEW t \in Callers, NEW s \in Shapes(t), First(s) \in CloseHeads
  PROVE  s \in Closings(t)
  <1>1. s # <<>> BY DEF First, CloseHeads
  <1>2. s \notin Begins(t)
    BY DEF Begins, First, CloseHeads
  <1>3. s \notin Rests(t)
    BY RestSteps DEF CloseHeads, Callers
  <1> QED BY <1>1, <1>2, <1>3 DEF Shapes

\* A close begins, with a rest behind it.
LEMMA CloseBegins ==
  ASSUME NEW t \in Callers, NEW r \in Rests(t)
  PROVE  /\ Then(CloseSteps, r) \in Shapes(t) /\ Then(CloseSteps, r) # <<>>
         /\ First(Then(CloseSteps, r)) = "mark" /\ Last(Then(CloseSteps, r)) = Last(r)
         /\ Ahead(Then(CloseSteps, r)) = "peer"
  <1>1. CloseSteps \in Prefixes /\ Head(CloseSteps) = "mark" /\ Ahead(CloseSteps) = "peer"
    BY DEF Prefixes, CloseSteps, Ahead, Joins
  <1> QED BY <1>1, Joint

\* What the other steps leave behind.
LEMMA OtherMoves ==
  ASSUME NEW t \in Callers, NEW s \in Shapes(t), s # <<>>
  PROVE  /\ Head(s) = "take" =>
              /\ Becomes(t, s, Then(<<>>, Tail(s)), "teardown", "free")
              /\ Becomes(t, s, Then(CloseSteps, Tail(s)), "mark", "peer")
         /\ Head(s) = "begin" =>
              /\ Becomes(t, s, Then(<<>>, Tail(s)), "open", "free")
              /\ Becomes(t, s, Then(CloseSteps, Tail(s)), "mark", "peer")
         /\ Head(s) = "open" => Becomes(t, s, Then(<<>>, Tail(s)), "start", "free")
         /\ Head(s) \in {"start", "fail", "exit"} => Tail(s) = <<>>
         /\ Head(s) = "start" => <<"fail">> \in Rests(t)
         /\ Head(s) = "teardown" => IF t = "orch" THEN Tail(s) = <<>>
                                    ELSE Becomes(t, s, Tail(s), "post", "free")
         /\ Head(s) = "post" => Becomes(t, s, Tail(s), "exit", "free")
  <1>1. CASE s \in Begins(t)
    <2>1. CASE s = <<"begin", "open", "start">> /\ t = "orch"
      <3> DEFINE r == <<"open", "start">>
      <3>1. Tail(s) = r /\ Then(<<>>, r) = r /\ r \in Rests(t)
        BY <2>1, ConcatEmptySeq, r \in Seq(Steps) DEF Then, Rests, Steps
      <3>2. First(r) = "open" /\ Last(r) = "start" /\ Ahead(r) = "free" /\ Last(s) = "start"
        BY <2>1 DEF First, Last, Ahead, Joins
      <3>3. Head(s) = "begin" /\ r # <<>>
        BY <2>1
      <3> HIDE DEF r
      <3> QED BY <3>1, <3>2, <3>3, CloseBegins DEF Becomes, Shapes
    <2>2. CASE s = <<"start">> /\ t = "orch"
      BY <2>2 DEF Rests
    <2>3. CASE s = <<"take", "teardown">> /\ t = "orch"
      <3> DEFINE r == <<"teardown">>
      <3>1. Tail(s) = r /\ Then(<<>>, r) = r /\ r \in Rests(t)
        BY <2>3, ConcatEmptySeq, r \in Seq(Steps) DEF Then, Rests, Steps
      <3>2. First(r) = "teardown" /\ Last(r) = "teardown" /\ Ahead(r) = "free" /\ Last(s) = "teardown"
        BY <2>3 DEF First, Last, Ahead, Joins
      <3>3. Head(s) = "take" /\ r # <<>>
        BY <2>3
      <3> HIDE DEF r
      <3> QED BY <3>1, <3>2, <3>3, CloseBegins DEF Becomes, Shapes
    <2>4. CASE s = <<"take", "teardown", "post", "exit">> /\ t = "stop"
      <3> DEFINE r == <<"teardown", "post", "exit">>
      <3>1. Tail(s) = r /\ Then(<<>>, r) = r /\ r \in Rests(t)
        BY <2>4, ConcatEmptySeq, r \in Seq(Steps) DEF Then, Rests, Steps
      <3>2. First(r) = "teardown" /\ Last(r) = "exit" /\ Ahead(r) = "free" /\ Last(s) = "exit"
        BY <2>4 DEF First, Last, Ahead, Joins
      <3>3. Head(s) = "take" /\ r # <<>>
        BY <2>4
      <3> HIDE DEF r
      <3> QED BY <3>1, <3>2, <3>3, CloseBegins DEF Becomes, Shapes
    <2>5. CASE s = <<"post", "exit">> /\ t = "stop"
      <3> DEFINE r == <<"exit">>
      <3>1. Tail(s) = r /\ r \in Begins(t) /\ Head(s) = "post" /\ r # <<>>
        BY <2>5 DEF Begins
      <3>2. First(r) = "exit" /\ Last(r) = "exit" /\ Ahead(r) = "free" /\ Last(s) = "exit"
        BY <2>5 DEF First, Last, Ahead, Joins
      <3> HIDE DEF r
      <3> QED BY <3>1, <3>2 DEF Becomes, Shapes
    <2>6. CASE s = <<"exit">> /\ t = "stop"
      BY <2>6
    <2> QED BY <1>1, <2>1, <2>2, <2>3, <2>4, <2>5, <2>6 DEF Begins, Callers
  <1>2. CASE s \in Rests(t)
    <2>1. CASE s = <<"open", "start">> /\ t = "orch"
      <3> DEFINE r == <<"start">>
      <3>1. Tail(s) = r /\ Then(<<>>, r) = r /\ r \in Begins(t) /\ Head(s) = "open" /\ r # <<>>
        BY <2>1, ConcatEmptySeq, r \in Seq(Steps) DEF Then, Begins, Steps
      <3>2. First(r) = "start" /\ Last(r) = "start" /\ Ahead(r) = "free" /\ Last(s) = "start"
        BY <2>1 DEF First, Last, Ahead, Joins
      <3> HIDE DEF r
      <3> QED BY <3>1, <3>2 DEF Becomes, Shapes
    <2>2. CASE s = <<"fail">> /\ t = "orch"
      BY <2>2
    <2>3. CASE s = <<"teardown">> /\ t = "orch"
      BY <2>3
    <2>4. CASE s = <<"teardown", "post", "exit">> /\ t = "stop"
      <3> DEFINE r == <<"post", "exit">>
      <3>1. Tail(s) = r /\ r \in Begins(t) /\ Head(s) = "teardown" /\ r # <<>>
        BY <2>4 DEF Begins
      <3>2. First(r) = "post" /\ Last(r) = "exit" /\ Ahead(r) = "free" /\ Last(s) = "exit"
        BY <2>4 DEF First, Last, Ahead, Joins
      <3> HIDE DEF r
      <3> QED BY <2>4, <3>1, <3>2 DEF Becomes, Shapes
    <2> QED BY <1>2, <2>1, <2>2, <2>3, <2>4 DEF Rests, Callers
  <1>3. CASE s \in Closings(t)
    BY <1>3, ClosingMoves DEF CloseHeads
  <1> QED BY <1>1, <1>2, <1>3 DEF Shapes

\* What comes after a close.
LEMMA CloseEnds ==
  ASSUME NEW t \in Callers, NEW s \in Shapes(t), s # <<>>, Head(s) = "free"
  PROVE  Ahead(s) = "free" /\ Becomes(t, s, Tail(s), Onward(Last(s)), "free")
  <1>1. s \in Closings(t)
    BY ClosingList, Stage DEF CloseHeads
  <1>2. Ahead(s) = "free" /\ Tail(s) \in Rests(t) /\ Last(Tail(s)) = Last(s) /\ Ahead(Tail(s)) = "free"
    BY <1>1, ClosingMoves
  <1>3. Tail(s) # <<>> /\ First(Tail(s)) = Onward(Last(Tail(s)))
    BY <1>2, RestSteps DEF Onward, Callers
  <1> QED BY <1>2, <1>3 DEF Becomes, Shapes

\* The lists a caller begins with.
LEMMA NewLists ==
  /\ StartSteps \in Shapes("orch") /\ First(StartSteps) = "begin" /\ Last(StartSteps) = "start"
  /\ Ahead(StartSteps) = "free" /\ StartSteps # <<>>
  /\ StopSteps \in Shapes("orch") /\ First(StopSteps) = "take" /\ Last(StopSteps) = "teardown"
  /\ Ahead(StopSteps) = "free" /\ StopSteps # <<>>
  /\ TaskSteps \in Shapes("stop") /\ First(TaskSteps) = "take" /\ Last(TaskSteps) = "exit"
  /\ Ahead(TaskSteps) = "free" /\ TaskSteps # <<>>
  /\ <<"fail">> \in Shapes("orch") /\ First(<<"fail">>) = "fail" /\ Last(<<"fail">>) = "fail"
  /\ Ahead(<<"fail">>) = "free" /\ <<"fail">> # <<>>
  /\ \A t \in Callers : <<>> \in Shapes(t)
  /\ First(<<>>) = "none" /\ Last(<<>>) = "none" /\ Ahead(<<>>) = "free"
  <1>1. StartSteps \in Begins("orch") /\ StopSteps \in Begins("orch") /\ <<"fail">> \in Rests("orch")
    BY DEF StartSteps, StopSteps, Begins, Rests
  <1>2. TaskSteps = <<"take", "teardown", "post", "exit">>
    BY Quad DEF TaskSteps, StopSteps
  <1>3. TaskSteps \in Begins("stop")
    BY <1>2 DEF Begins
  <1>4. First(TaskSteps) = "take" /\ Last(TaskSteps) = "exit" /\ Ahead(TaskSteps) = "free" /\ TaskSteps # <<>>
    BY <1>2 DEF First, Last, Ahead, Joins
  <1>5. First(StartSteps) = "begin" /\ Last(StartSteps) = "start" /\ Ahead(StartSteps) = "free" /\ StartSteps # <<>>
    BY DEF StartSteps, First, Last, Ahead, Joins
  <1>6. First(StopSteps) = "take" /\ Last(StopSteps) = "teardown" /\ Ahead(StopSteps) = "free" /\ StopSteps # <<>>
    BY DEF StopSteps, First, Last, Ahead, Joins
  <1>7. First(<<"fail">>) = "fail" /\ Last(<<"fail">>) = "fail" /\ Ahead(<<"fail">>) = "free" /\ <<"fail">> # <<>>
    BY DEF First, Last, Ahead, Joins
  <1>8. First(<<>>) = "none" /\ Last(<<>>) = "none" /\ Ahead(<<>>) = "free"
    BY DEF First, Last, Ahead, Joins
  <1> QED BY <1>1, <1>3, <1>4, <1>5, <1>6, <1>7, <1>8 DEF Shapes

-----------------------------------------------------------------------------
(* The steps of the callers                                                *)

Now(t) == First(call[t].todo)
Aim(t) == Last(call[t].todo)
Way(t) == Ahead(call[t].todo)

CallsOK ==
  /\ call \in [Callers -> [todo : Seq(Steps), ses : 0 .. MaxAttempts]]
  /\ \A t \in Callers : call[t].todo \in Shapes(t)

\* The caller t goes on with a list that begins with f and ends with l, for the session s.
Goes(t, f, l, s, ahead) ==
  /\ CallsOK'
  /\ \A u \in Callers : u # t => call'[u] = call[u]
  /\ First(call'[t].todo) = f /\ Last(call'[t].todo) = l
  /\ Ahead(call'[t].todo) = ahead /\ call'[t].ses = s

LEMMA AtStep ==
  ASSUME CallsOK, NEW t \in Callers, NEW x, At(t, x)
  PROVE  call[t].todo # <<>> /\ call[t].todo \in Shapes(t) /\ Head(call[t].todo) = x /\ Now(t) = x
  BY DEF At, CallsOK, Now, First

LEMMA CallReplaced ==
  ASSUME CallsOK, NEW t \in Callers, NEW r \in Shapes(t), NEW s \in 0 .. MaxAttempts,
         call' = [call EXCEPT ![t] = [todo |-> r, ses |-> s]]
  PROVE  CallsOK' /\ call'[t].todo = r /\ call'[t].ses = s
         /\ \A u \in Callers : u # t => call'[u] = call[u]
  <1>1. r \in Seq(Steps) BY Stage
  <1>2. call' \in [Callers -> [todo : Seq(Steps), ses : 0 .. MaxAttempts]]
    BY <1>1 DEF CallsOK
  <1>3. call'[t].todo = r /\ call'[t].ses = s /\ \A u \in Callers : u # t => call'[u] = call[u]
    BY DEF CallsOK
  <1>4. \A u \in Callers : call'[u].todo \in Shapes(u)
    BY <1>3 DEF CallsOK
  <1> QED BY <1>2, <1>3, <1>4 DEF CallsOK

LEMMA ListReplaced ==
  ASSUME CallsOK, NEW t \in Callers, NEW r \in Shapes(t), call' = [call EXCEPT ![t].todo = r]
  PROVE  CallsOK' /\ call'[t].todo = r /\ call'[t].ses = call[t].ses
         /\ \A u \in Callers : u # t => call'[u] = call[u]
  <1>1. r \in Seq(Steps) BY Stage
  <1>2. call' \in [Callers -> [todo : Seq(Steps), ses : 0 .. MaxAttempts]]
    BY <1>1 DEF CallsOK
  <1>3. call'[t].todo = r /\ call'[t].ses = call[t].ses /\ \A u \in Callers : u # t => call'[u] = call[u]
    BY DEF CallsOK
  <1>4. \A u \in Callers : call'[u].todo \in Shapes(u)
    BY <1>3 DEF CallsOK
  <1> QED BY <1>2, <1>3, <1>4 DEF CallsOK

LEMMA DoneComes ==
  ASSUME CallsOK, NEW t \in Callers, Done(t), NEW f, NEW ahead,
         Becomes(t, call[t].todo, Tail(call[t].todo), f, ahead)
  PROVE  Goes(t, f, Aim(t), call[t].ses, ahead)
  BY ListReplaced DEF Done, Becomes, Goes, Aim

LEMMA InsteadComes ==
  ASSUME CallsOK, NEW t \in Callers, NEW s \in 0 .. MaxAttempts, NEW steps, Instead(t, s, steps),
         NEW f, NEW ahead, Becomes(t, call[t].todo, Then(steps, Tail(call[t].todo)), f, ahead)
  PROVE  Goes(t, f, Aim(t), s, ahead)
  <1>1. call' = [call EXCEPT ![t] = [todo |-> Then(steps, Tail(call[t].todo)), ses |-> s]]
    BY DEF Instead, Then
  <1> DEFINE r == Then(steps, Tail(call[t].todo))
  <1>2. r \in Shapes(t) /\ First(r) = f /\ Last(r) = Last(call[t].todo) /\ Ahead(r) = ahead
    BY DEF Becomes
  <1> HIDE DEF r
  <1>3. /\ CallsOK' /\ call'[t].todo = r /\ call'[t].ses = s
        /\ \A u \in Callers : u # t => call'[u] = call[u]
    BY <1>1, <1>2, CallReplaced DEF r
  <1> QED BY <1>2, <1>3 DEF Goes, Aim

LEMMA ListTurns ==
  ASSUME CallsOK, NEW t \in Callers, NEW r \in Shapes(t), call' = [call EXCEPT ![t].todo = r]
  PROVE  Goes(t, First(r), Last(r), call[t].ses, Ahead(r))
  BY ListReplaced DEF Goes

LEMMA DoneTurns ==
  ASSUME CallsOK, NEW t \in Callers, Done(t), Tail(call[t].todo) = <<>>
  PROVE  Goes(t, "none", "none", call[t].ses, "free")
  BY ListTurns, NewLists DEF Done

\* What the orchestrator and the stop task do to their lists, step by step.
LEMMA StopTakesMoves ==
  ASSUME CallsOK, handle \in 0 .. MaxAttempts, NEW t \in Callers, StopTakes(t)
  PROVE  /\ Now(t) = "take"
         /\ handle = 0 => Goes(t, "teardown", Aim(t), handle, "free")
         /\ handle # 0 => Goes(t, "mark", Aim(t), handle, "peer")
  <1>1. At(t, "take") /\ Instead(t, handle, IF handle = 0 THEN <<>> ELSE CloseSteps)
    BY DEF StopTakes
  <1>2. /\ Becomes(t, call[t].todo, Then(<<>>, Tail(call[t].todo)), "teardown", "free")
        /\ Becomes(t, call[t].todo, Then(CloseSteps, Tail(call[t].todo)), "mark", "peer")
    BY <1>1, AtStep, OtherMoves
  <1>3. handle = 0 => Instead(t, handle, <<>>)
    BY <1>1
  <1>4. handle # 0 => Instead(t, handle, CloseSteps)
    BY <1>1
  <1> QED BY <1>1, <1>2, <1>3, <1>4, AtStep, InsteadComes

LEMMA StartTakesMoves ==
  ASSUME CallsOK, handle \in 0 .. MaxAttempts, StartTakes
  PROVE  /\ Now("orch") = "begin"
         /\ \/ /\ TakeSession /\ ses' = [ses EXCEPT ![att].gen = gen + 1]
               /\ handle = 0 => Goes("orch", "open", Aim("orch"), handle, "free")
               /\ handle # 0 => Goes("orch", "mark", Aim("orch"), handle, "peer")
            \/ /\ UNCHANGED <<shared, ses>>
               /\ Goes("orch", "fail", "fail", call["orch"].ses, "free")
  <1>1. At("orch", "begin") /\ "orch" \in Callers
    BY DEF StartTakes, Callers
  <1>2. /\ Becomes("orch", call["orch"].todo, Then(<<>>, Tail(call["orch"].todo)), "open", "free")
        /\ Becomes("orch", call["orch"].todo, Then(CloseSteps, Tail(call["orch"].todo)), "mark", "peer")
    BY <1>1, AtStep, OtherMoves
  <1>3. CASE TakeSession /\ Instead("orch", handle, IF handle = 0 THEN <<>> ELSE CloseSteps)
             /\ ses' = [ses EXCEPT ![att].gen = gen + 1]
    <2>1. handle = 0 => Instead("orch", handle, <<>>)
      BY <1>3
    <2>2. handle # 0 => Instead("orch", handle, CloseSteps)
      BY <1>3
    <2> QED BY <1>1, <1>2, <1>3, <2>1, <2>2, AtStep, InsteadComes
  <1>4. CASE call' = [call EXCEPT !["orch"].todo = <<"fail">>] /\ UNCHANGED <<shared, ses>>
    <2>1. Goes("orch", First(<<"fail">>), Last(<<"fail">>), call["orch"].ses, Ahead(<<"fail">>))
      BY <1>1, <1>4, NewLists, ListTurns
    <2> QED BY <1>1, <1>4, <2>1, AtStep, NewLists
  <1> QED BY <1>3, <1>4 DEF StartTakes

LEMMA StartOpensMoves ==
  ASSUME CallsOK, att \in 0 .. MaxAttempts, StartOpens
  PROVE  Now("orch") = "open" /\ Goes("orch", "start", Aim("orch"), att, "free")
  <1>1. At("orch", "open") /\ "orch" \in Callers /\ Instead("orch", att, <<>>)
    BY DEF StartOpens, Callers
  <1> QED BY <1>1, AtStep, OtherMoves, InsteadComes

LEMMA StartStartsMoves ==
  ASSUME CallsOK, att \in 0 .. MaxAttempts, StartStarts
  PROVE  /\ Now("orch") = "start"
         /\ \/ /\ Goes("orch", "none", "none", call["orch"].ses, "free") /\ UNCHANGED shared
               /\ \/ ses' = [ses EXCEPT ![att].closing = FALSE, ![att].running = TRUE, ![att].peer = "loop"]
                  \/ \E opened \in BOOLEAN :
                       ses' = [ses EXCEPT ![att].closing = FALSE, ![att].running = opened]
            \/ /\ Goes("orch", "mark", "fail", att, "peer")
               /\ ses' = [ses EXCEPT ![att].closing = FALSE]
               /\ IF handle = att THEN TakeSession ELSE UNCHANGED shared
  <1>1. At("orch", "start") /\ "orch" \in Callers
    BY DEF StartStarts, Callers
  <1>2. Now("orch") = "start" /\ Tail(call["orch"].todo) = <<>> /\ <<"fail">> \in Rests("orch")
    BY <1>1, AtStep, OtherMoves
  <1>3. Done("orch") => Goes("orch", "none", "none", call["orch"].ses, "free")
    BY <1>1, <1>2, DoneTurns
  <1>4. Instead("orch", att, CloseSteps \o <<"fail">>) => Goes("orch", "mark", "fail", att, "peer")
    <2> HAVE Instead("orch", att, CloseSteps \o <<"fail">>)
    <2>1. (CloseSteps \o <<"fail">>) \o <<>> = Then(CloseSteps, <<"fail">>)
      BY ConcatEmptySeq, CloseSteps \in Seq(Steps), <<"fail">> \in Seq(Steps),
         CloseSteps \o <<"fail">> \in Seq(Steps) DEF CloseSteps, Steps, Then
    <2>2. call' = [call EXCEPT !["orch"] = [todo |-> Then(CloseSteps, <<"fail">>), ses |-> att]]
      BY <1>2, <2>1 DEF Instead
    <2>3. /\ Then(CloseSteps, <<"fail">>) \in Shapes("orch")
          /\ First(Then(CloseSteps, <<"fail">>)) = "mark"
          /\ Last(Then(CloseSteps, <<"fail">>)) = "fail"
          /\ Ahead(Then(CloseSteps, <<"fail">>)) = "peer"
      BY <1>1, <1>2, CloseBegins, NewLists
    <2> DEFINE r == Then(CloseSteps, <<"fail">>)
    <2> HIDE DEF r
    <2>4. /\ CallsOK' /\ call'["orch"].todo = r /\ call'["orch"].ses = att
          /\ \A u \in Callers : u # "orch" => call'[u] = call[u]
      BY <1>1, <2>2, <2>3, CallReplaced DEF r
    <2> QED BY <1>1, <2>3, <2>4 DEF Goes, r
  <1> QED BY <1>2, <1>3, <1>4 DEF StartStarts

LEMMA CloseMarksMoves ==
  ASSUME CallsOK, NEW t \in Callers, CloseMarks(t)
  PROVE  Now(t) = "mark" /\ Goes(t, "streams", Aim(t), call[t].ses, "peer") /\ Way(t) = "peer"
  <1>1. At(t, "mark") /\ Done(t)
    BY DEF CloseMarks
  <1>2. call[t].todo \in Closings(t)
    BY <1>1, AtStep, ClosingList DEF CloseHeads, Now
  <1>3. Head(call[t].todo) = "mark" /\ call[t].todo \in Shapes(t) /\ Now(t) = "mark"
    BY <1>1, AtStep
  <1> QED BY <1>1, <1>2, <1>3, ClosingMoves, DoneComes, Stage DEF Way, Now

LEMMA CloseJoinsSenderMoves ==
  ASSUME CallsOK, NEW t \in Callers, CloseJoinsSender(t)
  PROVE  Now(t) = "waitSend" /\ Goes(t, Way(t), Aim(t), call[t].ses, Way(t))
  <1>1. At(t, "waitSend") /\ Done(t)
    BY DEF CloseJoinsSender
  <1>2. call[t].todo \in Closings(t)
    BY <1>1, AtStep, ClosingList DEF CloseHeads, Now
  <1>3. Head(call[t].todo) = "waitSend" /\ call[t].todo \in Shapes(t) /\ Now(t) = "waitSend"
    BY <1>1, AtStep
  <1> QED BY <1>1, <1>2, <1>3, ClosingMoves, DoneComes, Stage DEF Way, Now

LEMMA CloseTestsStreamMoves ==
  ASSUME CallsOK, NEW t \in Callers, CloseTestsStream(t)
  PROVE  /\ Now(t) = "streams"
         /\ ses[call[t].ses].sending => Goes(t, "off", Aim(t), call[t].ses, Way(t))
         /\ ~ses[call[t].ses].sending => Goes(t, Way(t), Aim(t), call[t].ses, Way(t))
  <1>1. At(t, "streams")
        /\ Instead(t, call[t].ses, IF ses[call[t].ses].sending THEN <<"off">> ELSE <<>>)
    BY DEF CloseTestsStream
  <1>2. call[t].todo \in Closings(t)
    BY <1>1, AtStep, ClosingList DEF CloseHeads, Now
  <1>3. Head(call[t].todo) = "streams" /\ Now(t) = "streams" /\ call[t].ses \in 0 .. MaxAttempts
    BY <1>1, AtStep DEF CallsOK
  <1>4. ses[call[t].ses].sending => Instead(t, call[t].ses, <<"off">>)
    BY <1>1
  <1>5. ~ses[call[t].ses].sending => Instead(t, call[t].ses, <<>>)
    BY <1>1
  <1> QED BY <1>2, <1>3, <1>4, <1>5, ClosingMoves, InsteadComes DEF Way

LEMMA CloseStopsStreamMoves ==
  ASSUME CallsOK, NEW t \in Callers, CloseStopsStream(t)
  PROVE  Now(t) = "off" /\ Goes(t, "waitSend", Aim(t), call[t].ses, Way(t))
  <1>1. At(t, "off") /\ Instead(t, call[t].ses, <<"waitSend">>)
    BY DEF CloseStopsStream
  <1>2. call[t].todo \in Closings(t)
    BY <1>1, AtStep, ClosingList DEF CloseHeads, Now
  <1>3. Head(call[t].todo) = "off" /\ Now(t) = "off" /\ call[t].ses \in 0 .. MaxAttempts
    BY <1>1, AtStep DEF CallsOK
  <1> QED BY <1>1, <1>2, <1>3, ClosingMoves, InsteadComes DEF Way

LEMMA ClosePeerMoves ==
  ASSUME CallsOK, NEW t \in Callers, ClosePeer(t)
  PROVE  /\ Now(t) = "peer" /\ Way(t) = "peer"
         /\ ses[call[t].ses].running => Goes(t, "waitPeer", Aim(t), call[t].ses, "peer")
         /\ ~ses[call[t].ses].running => Goes(t, "free", Aim(t), call[t].ses, "free")
  <1>1. At(t, "peer")
        /\ Instead(t, call[t].ses, IF ses[call[t].ses].running THEN <<"waitPeer">> ELSE <<>>)
    BY DEF ClosePeer
  <1>2. call[t].todo \in Closings(t)
    BY <1>1, AtStep, ClosingList DEF CloseHeads, Now
  <1>3. Head(call[t].todo) = "peer" /\ Now(t) = "peer" /\ call[t].ses \in 0 .. MaxAttempts
    BY <1>1, AtStep DEF CallsOK
  <1>4. ses[call[t].ses].running => Instead(t, call[t].ses, <<"waitPeer">>)
    BY <1>1
  <1>5. ~ses[call[t].ses].running => Instead(t, call[t].ses, <<>>)
    BY <1>1
  <1> QED BY <1>2, <1>3, <1>4, <1>5, ClosingMoves, InsteadComes DEF Way

LEMMA CloseJoinsPeerMoves ==
  ASSUME CallsOK, NEW t \in Callers, CloseJoinsPeer(t)
  PROVE  /\ Now(t) = "waitPeer" /\ Way(t) = "peer" /\ ses[call[t].ses].exitBit
         /\ \/ /\ Goes(t, "free", Aim(t), call[t].ses, "free")
               /\ ses' = [ses EXCEPT ![call[t].ses].exitBit = FALSE] /\ UNCHANGED rtcHandle
            \/ /\ Goes(t, "streams", Aim(t), call[t].ses, "free")
               /\ ses' = [ses EXCEPT ![call[t].ses].exitBit = FALSE, ![call[t].ses].chan = "closed"]
               /\ rtcHandle' = call[t].ses
  <1>1. At(t, "waitPeer")
    BY DEF CloseJoinsPeer
  <1>2. call[t].todo \in Closings(t)
    BY <1>1, AtStep, ClosingList DEF CloseHeads, Now
  <1>3. Head(call[t].todo) = "waitPeer" /\ Now(t) = "waitPeer" /\ call[t].ses \in 0 .. MaxAttempts
    BY <1>1, AtStep DEF CallsOK
  <1>4. Instead(t, call[t].ses, <<>>) => Goes(t, "free", Aim(t), call[t].ses, "free")
    BY <1>2, <1>3, ClosingMoves, InsteadComes
  <1>5. Instead(t, call[t].ses, <<"streams">>) => Goes(t, "streams", Aim(t), call[t].ses, "free")
    BY <1>2, <1>3, ClosingMoves, InsteadComes
  <1>6. Way(t) = "peer"
    BY <1>2, <1>3, ClosingMoves DEF Way
  <1> QED BY <1>3, <1>4, <1>5, <1>6 DEF CloseJoinsPeer

LEMMA CloseFreesMoves ==
  ASSUME CallsOK, NEW t \in Callers, CloseFrees(t)
  PROVE  /\ Now(t) = "free" /\ Way(t) = "free"
         /\ Goes(t, Onward(Aim(t)), Aim(t), call[t].ses, "free")
  <1>1. At(t, "free") /\ Done(t)
    BY DEF CloseFrees
  <1> QED BY <1>1, AtStep, CloseEnds, DoneComes DEF Way, Aim

LEMMA TearsDownMediaMoves ==
  ASSUME CallsOK, NEW t \in Callers, TearsDownMedia(t)
  PROVE  /\ Now(t) = "teardown"
         /\ t = "orch" => Goes(t, "none", "none", call[t].ses, "free")
         /\ t = "stop" => Goes(t, "post", Aim(t), call[t].ses, "free")
  <1>1. At(t, "teardown") /\ Done(t)
    BY DEF TearsDownMedia
  <1> QED BY <1>1, AtStep, OtherMoves, DoneTurns, DoneComes

LEMMA StartFailsMoves ==
  ASSUME CallsOK, StartFails
  PROVE  Now("orch") = "fail" /\ Goes("orch", "none", "none", call["orch"].ses, "free")
  <1>1. At("orch", "fail") /\ Done("orch") /\ "orch" \in Callers
    BY DEF StartFails, Callers
  <1> QED BY <1>1, AtStep, OtherMoves, DoneTurns

LEMMA StopPostsMoves ==
  ASSUME CallsOK, StopPosts
  PROVE  Now("stop") = "post" /\ Goes("stop", "exit", Aim("stop"), call["stop"].ses, "free")
  <1>1. At("stop", "post") /\ Done("stop") /\ "stop" \in Callers
    BY DEF StopPosts, Callers
  <1> QED BY <1>1, AtStep, OtherMoves, DoneComes

LEMMA StopExitsMoves ==
  ASSUME CallsOK, StopExits
  PROVE  Now("stop") = "exit" /\ Goes("stop", "none", "none", call["stop"].ses, "free")
  <1>1. At("stop", "exit") /\ Done("stop") /\ "stop" \in Callers
    BY DEF StopExits, Callers
  <1> QED BY <1>1, AtStep, OtherMoves, DoneTurns

\* What the orchestrator gives itself and the stop task to do.
LEMMA IgnitesMoves ==
  ASSUME CallsOK, att + 1 \in 0 .. MaxAttempts, Ignites
  PROVE  /\ Now("orch") = "none" /\ orch = "idle" /\ inbox = <<>> /\ att < MaxAttempts
         /\ orch' = "igniting" /\ att' = att + 1
         /\ \/ /\ Goes("orch", "begin", "start", att + 1, "free") /\ UNCHANGED inbox
               /\ media' = IF media = 0 THEN att + 1 ELSE media
            \/ UNCHANGED <<call, media>> /\ Post(Event("down", att + 1))
  <1>1. "orch" \in Callers /\ Now("orch") = "none"
    BY DEF Ignites, Callers, Free, Now, First
  <1>2. ASSUME call' = [call EXCEPT !["orch"] = [todo |-> StartSteps, ses |-> att + 1]]
        PROVE  Goes("orch", "begin", "start", att + 1, "free")
    BY <1>1, <1>2, NewLists, CallReplaced DEF Goes
  <1> QED BY <1>1, <1>2 DEF Ignites

LEMMA LosesWifiMoves ==
  ASSUME CallsOK, LosesWifi
  PROVE  Now("orch") = "none" /\ Goes("orch", "take", "teardown", call["orch"].ses, "free")
  <1>1. "orch" \in Callers /\ Now("orch") = "none"
    BY DEF LosesWifi, Callers, Free, Now, First
  <1>2. Goes("orch", First(StopSteps), Last(StopSteps), call["orch"].ses, Ahead(StopSteps))
    BY <1>1, NewLists, ListTurns DEF LosesWifi
  <1> QED BY <1>1, <1>2, NewLists

LEMMA EnterStoppingMoves ==
  ASSUME CallsOK, NEW q, EnterStopping(q)
  PROVE  /\ orch' = "stopping"
         /\ \/ /\ Now("stop") = "none" /\ inbox' = q /\ UNCHANGED mishaps
               /\ Goes("stop", "take", "exit", call["stop"].ses, "free")
            \/ /\ Now("stop") = "none" /\ inbox' = Append(q, Event("stopped", 0))
               /\ mishaps' = mishaps \cup {"unstopped"} /\ UNCHANGED call
            \/ Now("stop") # "none" /\ inbox' = q /\ UNCHANGED <<call, mishaps>>
  <1>1. "stop" \in Callers /\ (Free("stop") <=> Now("stop") = "none")
    BY Stage DEF Callers, Free, Now, CallsOK
  <1>2. ASSUME call' = [call EXCEPT !["stop"].todo = TaskSteps]
        PROVE  Goes("stop", "take", "exit", call["stop"].ses, "free")
    <2>1. Goes("stop", First(TaskSteps), Last(TaskSteps), call["stop"].ses, Ahead(TaskSteps))
      BY <1>1, <1>2, NewLists, ListTurns
    <2> QED BY <2>1, NewLists
  <1> QED BY <1>1, <1>2 DEF EnterStopping

-----------------------------------------------------------------------------
(* The steps of pc_task                                                    *)

PNow(s) == First(ses[s].todo)

\* What pc_task does after its first step never depends on the check of a callback.
ListOK(l) ==
  l \in Seq(PeerSteps) /\ \A i \in 2 .. Len(l) : l[i] \in {"streams", "check_down"}

PeersOK ==
  /\ ses \in [Attempts -> Session]
  /\ \A s \in Attempts : ListOK(ses[s].todo) /\ (ses[s].todo # <<>> => ses[s].peer = "loop")

LEMMA ShortLists ==
  /\ ListOK(<<>>) /\ First(<<>>) = "none"
  /\ \A x \in PeerSteps : ListOK(<<x>>) /\ First(<<x>>) = x /\ <<x>> # <<>>
  BY DEF ListOK, First

LEMMA ListGoesOn ==
  ASSUME NEW l, ListOK(l), l # <<>>
  PROVE  /\ ListOK(Tail(l)) /\ First(Tail(l)) \in {"none", "streams", "check_down"}
         /\ <<>> \o Tail(l) = Tail(l)
         /\ \A x \in PeerSteps : ListOK(<<x>> \o Tail(l)) /\ First(<<x>> \o Tail(l)) = x
                                 /\ <<x>> \o Tail(l) # <<>>
  <1>1. l \in Seq(PeerSteps) /\ Tail(l) \in Seq(PeerSteps) /\ Len(Tail(l)) = Len(l) - 1
        /\ \A i \in 1 .. Len(Tail(l)) : Tail(l)[i] = l[i + 1] /\ i + 1 \in 2 .. Len(l)
    BY DEF ListOK
  <1>2. \A i \in 1 .. Len(Tail(l)) : Tail(l)[i] \in {"streams", "check_down"}
    BY <1>1 DEF ListOK
  <1>3. ListOK(Tail(l)) /\ First(Tail(l)) \in {"none", "streams", "check_down"}
    BY <1>1, <1>2 DEF ListOK, First
  <1>4. ASSUME NEW x \in PeerSteps
        PROVE  ListOK(<<x>> \o Tail(l)) /\ First(<<x>> \o Tail(l)) = x /\ <<x>> \o Tail(l) # <<>>
    <2>1. <<x>> \in Seq(PeerSteps) /\ Len(<<x>>) = 1 /\ <<x>>[1] = x
      OBVIOUS
    <2>2. /\ <<x>> \o Tail(l) \in Seq(PeerSteps)
          /\ Len(<<x>> \o Tail(l)) = 1 + Len(Tail(l))
          /\ \A i \in 1 .. 1 + Len(Tail(l)) :
               (<<x>> \o Tail(l))[i] = IF i <= 1 THEN <<x>>[i] ELSE Tail(l)[i - 1]
      BY <1>1, <2>1, ConcatProperties
    <2>3. ASSUME NEW i \in 2 .. 1 + Len(Tail(l))
          PROVE  (<<x>> \o Tail(l))[i] \in {"streams", "check_down"}
      <3>1. i \in 1 .. 1 + Len(Tail(l)) /\ i - 1 \in 1 .. Len(Tail(l)) /\ ~(i <= 1)
        BY <1>1
      <3>2. (<<x>> \o Tail(l))[i] = Tail(l)[i - 1]
        BY <2>2, <3>1
      <3> QED BY <1>2, <3>1, <3>2
    <2>4. (<<x>> \o Tail(l))[1] = x
      BY <1>1, <2>1, <2>2
    <2> QED BY <1>1, <2>2, <2>3, <2>4 DEF ListOK, First
  <1>5. <<>> \o Tail(l) = Tail(l)
    BY <1>1, ConcatEmptySeq
  <1> QED BY <1>3, <1>4, <1>5

\* The reaction to the end of a connection.
LEMMA DisconnectList ==
  ASSUME NEW c \in {<<>>, <<"check_down">>}, NEW d \in {<<>>, <<"check_down">>}
  PROVE  /\ ListOK(c \o <<"streams">> \o d) /\ c \o <<"streams">> \o d # <<>>
         /\ First(c \o <<"streams">> \o d) \in {"check_down", "streams"}
  <1> DEFINE S == {"streams", "check_down"}
  <1>1. c \in Seq(S) /\ d \in Seq(S) /\ <<"streams">> \in Seq(S) /\ Len(<<"streams">>) = 1
    <2>1. <<"check_down">> \in Seq(S) /\ <<>> \in Seq(S) /\ <<"streams">> \in Seq(S)
      OBVIOUS
    <2> HIDE DEF S
    <2> QED BY <2>1
  <1>2. c \o <<"streams">> \in Seq(S) /\ Len(c \o <<"streams">>) = Len(c) + 1
    BY <1>1, ConcatProperties
  <1>3. c \o <<"streams">> \o d \in Seq(S) /\ Len(c \o <<"streams">> \o d) = Len(c) + 1 + Len(d)
    BY <1>1, <1>2, ConcatProperties
  <1> DEFINE l == c \o <<"streams">> \o d
  <1>4. Len(c) \in Nat /\ Len(d) \in Nat
    BY <1>1
  <1>5. l \in Seq(S) /\ Len(l) >= 1
    BY <1>3, <1>4
  <1> HIDE DEF l
  <1>6. l \in Seq(PeerSteps) /\ l # <<>> /\ \A i \in 1 .. Len(l) : l[i] \in {"streams", "check_down"}
    BY <1>5 DEF PeerSteps
  <1>7. ListOK(l) /\ First(l) \in {"check_down", "streams"}
    BY <1>5, <1>6 DEF ListOK, First
  <1> QED BY <1>6, <1>7 DEF l

\* A session of which pc_task is given the list l, whatever else becomes of it.
LEMMA ListGiven ==
  ASSUME PeersOK, NEW s \in Attempts, ses' \in [Attempts -> Session],
         \A x \in Attempts : x # s => ses'[x] = ses[x],
         ListOK(ses'[s].todo), ses'[s].todo # <<>> => ses'[s].peer = "loop"
  PROVE  PeersOK'
  BY DEF PeersOK

LEMMA PeerAtStep ==
  ASSUME PeersOK, NEW s \in Attempts, NEW x, PeerAt(s, x)
  PROVE  ses[s].todo # <<>> /\ ListOK(ses[s].todo) /\ PNow(s) = x /\ ses[s].peer = "loop"
  BY DEF PeerAt, PeersOK, PNow, First

\* The session s changes, and its pc_task comes to one of the steps F.
Serves(s, F) ==
  /\ PeersOK' /\ \A x \in Attempts : x # s => ses'[x] = ses[x]
  /\ First(ses'[s].todo) \in F

AfterStep == {"none", "streams", "check_down"}

LEMMA SessionReplaced ==
  ASSUME PeersOK, NEW s \in Attempts, NEW r \in Session, ses' = [ses EXCEPT ![s] = r],
         ListOK(r.todo), r.todo # <<>> => r.peer = "loop"
  PROVE  PeersOK' /\ ses'[s] = r /\ \A x \in Attempts : x # s => ses'[x] = ses[x]
  <1>1. /\ ses' \in [Attempts -> Session] /\ ses'[s] = r
        /\ \A x \in Attempts : x # s => ses'[x] = ses[x]
    BY DEF PeersOK
  <1> QED BY <1>1 DEF PeersOK

LEMMA PeerConnectsServes ==
  ASSUME PeersOK, NEW s \in Attempts, PeerConnects(s)
  PROVE  PNow(s) = "none" /\ Serves(s, {"none", "send"})
  <1>1. ses[s].todo = <<>> /\ ses[s].peer = "loop" /\ PNow(s) = "none"
    BY DEF PeerConnects, Loops, PNow, First
  <1>2. ses[s] \in Session
    BY DEF PeersOK
  <1> DEFINE l == IF ses[s].closing THEN <<>> ELSE <<"send">>
  <1>3. ListOK(l) /\ First(l) \in {"none", "send"}
    BY ShortLists DEF PeerSteps
  <1>4. l \in Seq(PeerSteps)
    BY <1>3 DEF ListOK
  <1> DEFINE r == [ses[s] EXCEPT !.phase = "connected", !.todo = l]
  <1>5. ses' = [ses EXCEPT ![s] = r]
    BY <1>1 DEF PeerConnects, PeersOK
  <1> HIDE DEF l
  <1>6. r \in Session
    BY <1>2, <1>4 DEF Session
  <1>8. r.todo = l /\ r.peer = ses[s].peer
    BY <1>2 DEF Session
  <1> HIDE DEF r
  <1> QED BY <1>1, <1>3, <1>5, <1>6, <1>8, SessionReplaced DEF Serves, PeersOK, PNow

LEMMA PeerFailsServes ==
  ASSUME PeersOK, NEW s \in Attempts, PeerFails(s)
  PROVE  PNow(s) = "none" /\ Serves(s, {"streams", "check_down"})
  <1>1. ses[s].todo = <<>> /\ ses[s].peer = "loop" /\ PNow(s) = "none"
    BY DEF PeerFails, Loops, PNow, First
  <1>2. ses[s] \in Session
    BY DEF PeersOK
  <1> DEFINE l == IF ses[s].closing THEN <<"streams">> ELSE <<"check_down">>
  <1>3. ListOK(l) /\ First(l) \in {"streams", "check_down"}
    BY ShortLists DEF PeerSteps
  <1>4. l \in Seq(PeerSteps)
    BY <1>3 DEF ListOK
  <1> DEFINE r == [ses[s] EXCEPT !.phase = "over", !.todo = l]
  <1>5. ses' = [ses EXCEPT ![s] = r]
    BY <1>1 DEF PeerFails, PeersOK
  <1> HIDE DEF l
  <1>6. r \in Session
    BY <1>2, <1>4 DEF Session
  <1>8. r.todo = l /\ r.peer = ses[s].peer
    BY <1>2 DEF Session
  <1> HIDE DEF r
  <1> QED BY <1>1, <1>3, <1>5, <1>6, <1>8, SessionReplaced DEF Serves, PeersOK, PNow

LEMMA PeerOpensChannelServes ==
  ASSUME PeersOK, NEW s \in Attempts, PeerOpensChannel(s)
  PROVE  PNow(s) = "none" /\ Serves(s, {"check_up"})
  <1>1. ses[s].todo = <<>> /\ ses[s].peer = "loop" /\ PNow(s) = "none"
    BY DEF PeerOpensChannel, Loops, PNow, First
  <1>2. ses[s] \in Session
    BY DEF PeersOK
  <1> DEFINE l == <<"check_up">>
  <1>3. ListOK(l) /\ First(l) \in {"check_up"}
    BY ShortLists DEF PeerSteps
  <1>4. l \in Seq(PeerSteps)
    BY <1>3 DEF ListOK
  <1> DEFINE r == [ses[s] EXCEPT !.chan = "open", !.todo = l]
  <1>5. ses' = [ses EXCEPT ![s] = r]
    BY <1>1 DEF PeerOpensChannel, PeersOK
  <1> HIDE DEF l
  <1>6. r \in Session
    BY <1>2, <1>4 DEF Session
  <1>8. r.todo = l /\ r.peer = ses[s].peer
    BY <1>2 DEF Session
  <1> HIDE DEF r
  <1> QED BY <1>1, <1>3, <1>5, <1>6, <1>8, SessionReplaced DEF Serves, PeersOK, PNow

LEMMA PeerLosesChannelServes ==
  ASSUME PeersOK, NEW s \in Attempts, PeerLosesChannel(s)
  PROVE  PNow(s) = "none" /\ Serves(s, {"check_down"})
  <1>1. ses[s].todo = <<>> /\ ses[s].peer = "loop" /\ PNow(s) = "none"
    BY DEF PeerLosesChannel, Loops, PNow, First
  <1>2. ses[s] \in Session
    BY DEF PeersOK
  <1> DEFINE l == <<"check_down">>
  <1>3. ListOK(l) /\ First(l) \in {"check_down"}
    BY ShortLists DEF PeerSteps
  <1>4. l \in Seq(PeerSteps)
    BY <1>3 DEF ListOK
  <1> DEFINE r == [ses[s] EXCEPT !.chan = "closed", !.todo = l]
  <1>5. ses' = [ses EXCEPT ![s] = r]
    BY <1>1 DEF PeerLosesChannel, PeersOK, ClosesChannel
  <1> HIDE DEF l
  <1>6. r \in Session
    BY <1>2, <1>4 DEF Session
  <1>8. r.todo = l /\ r.peer = ses[s].peer
    BY <1>2 DEF Session
  <1> HIDE DEF r
  <1> QED BY <1>1, <1>3, <1>5, <1>6, <1>8, SessionReplaced DEF Serves, PeersOK, PNow

LEMMA ServerAnswersServes ==
  ASSUME PeersOK, NEW s \in Attempts, ServerAnswers(s)
  PROVE  PNow(s) = "none" /\ Serves(s, {"none", "check_ready"})
  <1>1. ses[s].todo = <<>> /\ ses[s].peer = "loop" /\ PNow(s) = "none"
    BY DEF ServerAnswers, Loops, PNow, First
  <1>2. ses[s] \in Session
    BY DEF PeersOK
  <1> DEFINE l == IF ses[s].closing THEN <<>> ELSE <<"check_ready">>
  <1>3. ListOK(l) /\ First(l) \in {"none", "check_ready"}
    BY ShortLists DEF PeerSteps
  <1>4. l \in Seq(PeerSteps)
    BY <1>3 DEF ListOK
  <1> DEFINE r == [ses[s] EXCEPT !.conf = "answered", !.todo = l]
  <1>5. ses' = [ses EXCEPT ![s] = r]
    BY <1>1 DEF ServerAnswers, PeersOK
  <1> HIDE DEF l
  <1>6. r \in Session
    BY <1>2, <1>4 DEF Session
  <1>8. r.todo = l /\ r.peer = ses[s].peer
    BY <1>2 DEF Session
  <1> HIDE DEF r
  <1> QED BY <1>1, <1>3, <1>5, <1>6, <1>8, SessionReplaced DEF Serves, PeersOK, PNow

LEMMA PeerDisconnectsServes ==
  ASSUME PeersOK, NEW s \in Attempts, PeerDisconnects(s)
  PROVE  PNow(s) = "none" /\ Serves(s, {"streams", "check_down"})
  <1>1. ses[s].todo = <<>> /\ ses[s].peer = "loop" /\ PNow(s) = "none"
    BY DEF PeerDisconnects, Loops, PNow, First
  <1>2. ses[s] \in Session
    BY DEF PeersOK
  <1> DEFINE l == ClosesChannel(s) \o <<"streams">> \o (IF ses[s].closing THEN <<>> ELSE <<"check_down">>)
  <1>3. ListOK(l) /\ First(l) \in {"streams", "check_down"}
    <2> DEFINE c == ClosesChannel(s)
    <2> DEFINE d == IF ses[s].closing THEN <<>> ELSE <<"check_down">>
    <2>1. c \in {<<>>, <<"check_down">>} /\ d \in {<<>>, <<"check_down">>}
      BY DEF ClosesChannel
    <2> HIDE DEF c, d
    <2>2. ListOK(c \o <<"streams">> \o d) /\ First(c \o <<"streams">> \o d) \in {"check_down", "streams"}
      BY <2>1, DisconnectList
    <2> QED BY <2>2 DEF c, d
  <1>4. l \in Seq(PeerSteps)
    BY <1>3 DEF ListOK
  <1> DEFINE r == [ses[s] EXCEPT !.phase = "over", !.chan = AfterOpen(s), !.todo = l]
  <1>5. ses' = [ses EXCEPT ![s] = r]
    BY <1>1 DEF PeerDisconnects, PeersOK
  <1> HIDE DEF l
  <1>7. AfterOpen(s) \in {"new", "open", "closed"}
    BY <1>2 DEF AfterOpen, Session
  <1>6. r \in Session
    BY <1>2, <1>4, <1>7 DEF Session
  <1>8. r.todo = l /\ r.peer = ses[s].peer
    BY <1>2 DEF Session
  <1> HIDE DEF r
  <1> QED BY <1>1, <1>3, <1>5, <1>6, <1>8, SessionReplaced DEF Serves, PeersOK, PNow

LEMMA PeerJoinsSenderServes ==
  ASSUME PeersOK, NEW s \in Attempts, PeerJoinsSender(s)
  PROVE  PNow(s) = "waitSend" /\ ses[s].peer = "loop" /\ Serves(s, AfterStep)
  <1>1. PNow(s) = "waitSend" /\ ses[s].peer = "loop" /\ ListOK(ses[s].todo) /\ ses[s].todo # <<>>
    BY PeerAtStep DEF PeerJoinsSender
  <1>2. ses[s] \in Session
    BY DEF PeersOK
  <1> DEFINE l == Tail(ses[s].todo)
  <1>3. ListOK(l) /\ First(l) \in AfterStep
    BY <1>1, ListGoesOn DEF AfterStep
  <1>4. l \in Seq(PeerSteps)
    BY <1>3 DEF ListOK
  <1> DEFINE r == [ses[s] EXCEPT !.quitBit = FALSE, !.todo = l]
  <1>5. ses' = [ses EXCEPT ![s] = r]
    BY <1>1 DEF PeerJoinsSender, PeersOK
  <1> HIDE DEF l
  <1>6. r \in Session
    BY <1>2, <1>4 DEF Session
  <1>8. r.todo = l /\ r.peer = ses[s].peer
    BY <1>2 DEF Session
  <1> HIDE DEF r
  <1> QED BY <1>1, <1>3, <1>5, <1>6, <1>8, SessionReplaced DEF Serves, PeersOK, PNow

LEMMA CallbackSchedulesServes ==
  ASSUME PeersOK, NEW s \in Attempts, CallbackSchedules(s)
  PROVE  PNow(s) = "up" /\ ses[s].peer = "loop" /\ Serves(s, AfterStep)
  <1>1. PNow(s) = "up" /\ ses[s].peer = "loop" /\ ListOK(ses[s].todo) /\ ses[s].todo # <<>>
    BY PeerAtStep DEF CallbackSchedules
  <1>2. ses[s] \in Session
    BY DEF PeersOK
  <1> DEFINE l == Tail(ses[s].todo)
  <1>3. ListOK(l) /\ First(l) \in AfterStep
    BY <1>1, ListGoesOn DEF AfterStep
  <1>4. l \in Seq(PeerSteps)
    BY <1>3 DEF ListOK
  <1> DEFINE r == [ses[s] EXCEPT !.todo = l]
  <1>5. ses' = [ses EXCEPT ![s] = r]
    BY <1>1 DEF CallbackSchedules, PeersOK
  <1> HIDE DEF l
  <1>6. r \in Session
    BY <1>2, <1>4 DEF Session
  <1>8. r.todo = l /\ r.peer = ses[s].peer
    BY <1>2 DEF Session
  <1> HIDE DEF r
  <1> QED BY <1>1, <1>3, <1>5, <1>6, <1>8, SessionReplaced DEF Serves, PeersOK, PNow

LEMMA CallbackReportsDownServes ==
  ASSUME PeersOK, NEW s \in Attempts, CallbackReportsDown(s)
  PROVE  PNow(s) = "down" /\ ses[s].peer = "loop" /\ Serves(s, AfterStep)
  <1>1. PNow(s) = "down" /\ ses[s].peer = "loop" /\ ListOK(ses[s].todo) /\ ses[s].todo # <<>>
    BY PeerAtStep DEF CallbackReportsDown
  <1>2. ses[s] \in Session
    BY DEF PeersOK
  <1> DEFINE l == Tail(ses[s].todo)
  <1>3. ListOK(l) /\ First(l) \in AfterStep
    BY <1>1, ListGoesOn DEF AfterStep
  <1>4. l \in Seq(PeerSteps)
    BY <1>3 DEF ListOK
  <1> DEFINE r == [ses[s] EXCEPT !.todo = l]
  <1>5. ses' = [ses EXCEPT ![s] = r]
    BY <1>1 DEF CallbackReportsDown, PeersOK
  <1> HIDE DEF l
  <1>6. r \in Session
    BY <1>2, <1>4 DEF Session
  <1>8. r.todo = l /\ r.peer = ses[s].peer
    BY <1>2 DEF Session
  <1> HIDE DEF r
  <1> QED BY <1>1, <1>3, <1>5, <1>6, <1>8, SessionReplaced DEF Serves, PeersOK, PNow

LEMMA CallbackReportsReadyServes ==
  ASSUME PeersOK, NEW s \in Attempts, CallbackReportsReady(s)
  PROVE  PNow(s) = "ready" /\ ses[s].peer = "loop" /\ Serves(s, AfterStep)
  <1>1. PNow(s) = "ready" /\ ses[s].peer = "loop" /\ ListOK(ses[s].todo) /\ ses[s].todo # <<>>
    BY PeerAtStep DEF CallbackReportsReady
  <1>2. ses[s] \in Session
    BY DEF PeersOK
  <1> DEFINE l == Tail(ses[s].todo)
  <1>3. ListOK(l) /\ First(l) \in AfterStep
    BY <1>1, ListGoesOn DEF AfterStep
  <1>4. l \in Seq(PeerSteps)
    BY <1>3 DEF ListOK
  <1> DEFINE r == [ses[s] EXCEPT !.todo = l]
  <1>5. ses' = [ses EXCEPT ![s] = r]
    BY <1>1 DEF CallbackReportsReady, PeersOK
  <1> HIDE DEF l
  <1>6. r \in Session
    BY <1>2, <1>4 DEF Session
  <1>8. r.todo = l /\ r.peer = ses[s].peer
    BY <1>2 DEF Session
  <1> HIDE DEF r
  <1> QED BY <1>1, <1>3, <1>5, <1>6, <1>8, SessionReplaced DEF Serves, PeersOK, PNow

LEMMA StreamStartsServes ==
  ASSUME PeersOK, NEW s \in Attempts, StreamStarts(s)
  PROVE  /\ PNow(s) = "send" /\ ses[s].peer = "loop"
         /\ \/ /\ Serves(s, {"spawn"})
               /\ ses'[s] = [ses[s] EXCEPT !.sending = TRUE, !.todo = ses'[s].todo]
               /\ ses[s].closing => "late" \in mishaps'
            \/ /\ Serves(s, AfterStep)
               /\ ses'[s] = [ses[s] EXCEPT !.todo = ses'[s].todo]
  <1>1. PNow(s) = "send" /\ ses[s].peer = "loop" /\ ListOK(ses[s].todo) /\ ses[s].todo # <<>>
    BY PeerAtStep DEF StreamStarts
  <1>2. ses[s] \in Session
    BY DEF PeersOK
  <1>3. CASE /\ ses' = [ses EXCEPT ![s].sending = TRUE, ![s].todo = <<"spawn">> \o Tail(@)]
             /\ mishaps' = IF ses[s].closing THEN mishaps \cup {"late"} ELSE mishaps
    <2> DEFINE l == <<"spawn">> \o Tail(ses[s].todo)
    <2>1. ListOK(l) /\ First(l) = "spawn"
      BY <1>1, ListGoesOn DEF PeerSteps
    <2>2. l \in Seq(PeerSteps)
      BY <2>1 DEF ListOK
    <2> DEFINE r == [ses[s] EXCEPT !.sending = TRUE, !.todo = l]
    <2>3. ses' = [ses EXCEPT ![s] = r]
      BY <1>3 DEF PeersOK
    <2> HIDE DEF l
    <2>4. r \in Session /\ r.todo = l /\ r.peer = ses[s].peer
      BY <1>2, <2>2 DEF Session
    <2> HIDE DEF r
    <2>5. PeersOK' /\ ses'[s] = r /\ \A x \in Attempts : x # s => ses'[x] = ses[x]
      BY <1>1, <2>1, <2>3, <2>4, SessionReplaced
    <2>6. Serves(s, {"spawn"})
      BY <2>1, <2>4, <2>5 DEF Serves
    <2>7. ses'[s] = [ses[s] EXCEPT !.sending = TRUE, !.todo = ses'[s].todo]
      BY <2>4, <2>5 DEF r
    <2> QED BY <1>1, <1>3, <2>6, <2>7
  <1>4. CASE ses' = [ses EXCEPT ![s].todo = Tail(@)]
    <2> DEFINE l == Tail(ses[s].todo)
    <2>1. ListOK(l) /\ First(l) \in AfterStep
      BY <1>1, ListGoesOn DEF AfterStep
    <2>2. l \in Seq(PeerSteps)
      BY <2>1 DEF ListOK
    <2> DEFINE r == [ses[s] EXCEPT !.todo = l]
    <2>3. ses' = [ses EXCEPT ![s] = r]
      BY <1>4 DEF PeersOK
    <2> HIDE DEF l
    <2>4. r \in Session /\ r.todo = l /\ r.peer = ses[s].peer
      BY <1>2, <2>2 DEF Session
    <2> HIDE DEF r
    <2>5. PeersOK' /\ ses'[s] = r /\ \A x \in Attempts : x # s => ses'[x] = ses[x]
      BY <1>1, <2>1, <2>3, <2>4, SessionReplaced
    <2>6. Serves(s, AfterStep)
      BY <2>1, <2>4, <2>5 DEF Serves
    <2>7. ses'[s] = [ses[s] EXCEPT !.todo = ses'[s].todo]
      BY <2>4, <2>5 DEF r
    <2> QED BY <1>1, <2>6, <2>7
  <1> QED BY <1>3, <1>4 DEF StreamStarts

LEMMA SenderSpawnsServes ==
  ASSUME PeersOK, NEW s \in Attempts, SenderSpawns(s)
  PROVE  /\ PNow(s) = "spawn" /\ ses[s].peer = "loop" /\ Serves(s, AfterStep)
         /\ \/ ses'[s] = [ses[s] EXCEPT !.sender = TRUE, !.todo = ses'[s].todo]
            \/ /\ ses'[s] = [ses[s] EXCEPT !.sending = FALSE, !.todo = ses'[s].todo]
               /\ FoundRunning(s) => "stillborn" \in mishaps'
  <1>1. PNow(s) = "spawn" /\ ses[s].peer = "loop" /\ ListOK(ses[s].todo) /\ ses[s].todo # <<>>
    BY PeerAtStep DEF SenderSpawns
  <1>2. ses[s] \in Session
    BY DEF PeersOK
  <1> DEFINE l == Tail(ses[s].todo)
  <1>3. ListOK(l) /\ First(l) \in AfterStep
    BY <1>1, ListGoesOn DEF AfterStep
  <1>4. l \in Seq(PeerSteps)
    BY <1>3 DEF ListOK
  <1>5. CASE ses' = [ses EXCEPT ![s].sender = TRUE, ![s].todo = Tail(@)]
    <2> DEFINE r == [ses[s] EXCEPT !.sender = TRUE, !.todo = l]
    <2>1. ses' = [ses EXCEPT ![s] = r]
      BY <1>5 DEF PeersOK
    <2> HIDE DEF l
    <2>2. r \in Session /\ r.todo = l /\ r.peer = ses[s].peer
      BY <1>2, <1>4 DEF Session
    <2> HIDE DEF r
    <2>3. PeersOK' /\ ses'[s] = r /\ \A x \in Attempts : x # s => ses'[x] = ses[x]
      BY <1>1, <1>3, <2>1, <2>2, SessionReplaced
    <2>4. Serves(s, AfterStep)
      BY <1>3, <2>2, <2>3 DEF Serves
    <2>5. ses'[s] = [ses[s] EXCEPT !.sender = TRUE, !.todo = ses'[s].todo]
      BY <2>2, <2>3 DEF r
    <2> QED BY <1>1, <2>4, <2>5
  <1>6. CASE /\ ses' = [ses EXCEPT ![s].sending = FALSE, ![s].todo = Tail(@)]
             /\ mishaps' = IF FoundRunning(s) THEN mishaps \cup {"stillborn"} ELSE mishaps
    <2> DEFINE r == [ses[s] EXCEPT !.sending = FALSE, !.todo = l]
    <2>1. ses' = [ses EXCEPT ![s] = r]
      BY <1>6 DEF PeersOK
    <2> HIDE DEF l
    <2>2. r \in Session /\ r.todo = l /\ r.peer = ses[s].peer
      BY <1>2, <1>4 DEF Session
    <2> HIDE DEF r
    <2>3. PeersOK' /\ ses'[s] = r /\ \A x \in Attempts : x # s => ses'[x] = ses[x]
      BY <1>1, <1>3, <2>1, <2>2, SessionReplaced
    <2>4. Serves(s, AfterStep)
      BY <1>3, <2>2, <2>3 DEF Serves
    <2>5. ses'[s] = [ses[s] EXCEPT !.sending = FALSE, !.todo = ses'[s].todo]
      BY <2>2, <2>3 DEF r
    <2>6. FoundRunning(s) => "stillborn" \in mishaps'
      BY <1>6
    <2> QED BY <1>1, <2>4, <2>5, <2>6
  <1> QED BY <1>5, <1>6 DEF SenderSpawns

LEMMA StreamTestedServes ==
  ASSUME PeersOK, NEW s \in Attempts, StreamTested(s)
  PROVE  /\ PNow(s) = "streams" /\ ses[s].peer = "loop"
         /\ ses[s].sending => Serves(s, {"off"})
         /\ ~ses[s].sending => Serves(s, AfterStep)
  <1>1. PNow(s) = "streams" /\ ses[s].peer = "loop" /\ ListOK(ses[s].todo) /\ ses[s].todo # <<>>
    BY PeerAtStep DEF StreamTested
  <1>2. ses[s] \in Session
    BY DEF PeersOK
  <1> DEFINE l == (IF ses[s].sending THEN <<"off">> ELSE <<>>) \o Tail(ses[s].todo)
  <1>3. ListOK(l) /\ (ses[s].sending => First(l) = "off") /\ (~ses[s].sending => First(l) \in AfterStep)
    BY <1>1, ListGoesOn DEF AfterStep, PeerSteps
  <1>4. l \in Seq(PeerSteps)
    BY <1>3 DEF ListOK
  <1> DEFINE r == [ses[s] EXCEPT !.todo = l]
  <1>5. ses' = [ses EXCEPT ![s] = r]
    BY <1>1 DEF StreamTested, PeersOK
  <1> HIDE DEF l
  <1>6. r \in Session
    BY <1>2, <1>4 DEF Session
  <1>8. r.todo = l /\ r.peer = ses[s].peer
    BY <1>2 DEF Session
  <1> HIDE DEF r
  <1> QED BY <1>1, <1>3, <1>5, <1>6, <1>8, SessionReplaced DEF Serves, PeersOK, PNow

LEMMA StreamStopsServes ==
  ASSUME PeersOK, NEW s \in Attempts, StreamStops(s)
  PROVE  PNow(s) = "off" /\ ses[s].peer = "loop" /\ Serves(s, {"waitSend"})
  <1>1. PNow(s) = "off" /\ ses[s].peer = "loop" /\ ListOK(ses[s].todo) /\ ses[s].todo # <<>>
    BY PeerAtStep DEF StreamStops
  <1>2. ses[s] \in Session
    BY DEF PeersOK
  <1> DEFINE l == <<"waitSend">> \o Tail(ses[s].todo)
  <1>3. ListOK(l) /\ First(l) = "waitSend"
    BY <1>1, ListGoesOn DEF PeerSteps
  <1>4. l \in Seq(PeerSteps)
    BY <1>3 DEF ListOK
  <1> DEFINE r == [ses[s] EXCEPT !.sending = FALSE, !.todo = l]
  <1>5. ses' = [ses EXCEPT ![s] = r]
    BY <1>1 DEF StreamStops, PeersOK
  <1> HIDE DEF l
  <1>6. r \in Session
    BY <1>2, <1>4 DEF Session
  <1>8. r.todo = l /\ r.peer = ses[s].peer
    BY <1>2 DEF Session
  <1> HIDE DEF r
  <1> QED BY <1>1, <1>3, <1>5, <1>6, <1>8, SessionReplaced DEF Serves, PeersOK, PNow

LEMMA CallbackChecksServes ==
  ASSUME PeersOK, NEW s \in Attempts, CallbackChecks(s)
  PROVE  /\ PNow(s) \in {"check_up", "check_down", "check_ready"} /\ ses[s].peer = "loop"
         /\ Current(ses[s].gen) => Serves(s, {Checked(PNow(s))})
         /\ ~Current(ses[s].gen) => Serves(s, AfterStep)
  <1>1. PICK c \in {"check_up", "check_down", "check_ready"} :
          /\ PeerAt(s, c)
          /\ ses' = [ses EXCEPT ![s].todo =
               (IF Current(ses[s].gen) THEN <<Checked(c)>> ELSE <<>>) \o Tail(@)]
    BY DEF CallbackChecks
  <1>2. PNow(s) = c /\ ses[s].peer = "loop" /\ ListOK(ses[s].todo) /\ ses[s].todo # <<>>
    BY <1>1, PeerAtStep
  <1>3. Checked(c) \in PeerSteps /\ ses[s] \in Session
    BY DEF Checked, PeerSteps, PeersOK
  <1> DEFINE l == (IF Current(ses[s].gen) THEN <<Checked(c)>> ELSE <<>>) \o Tail(ses[s].todo)
  <1>4. /\ ListOK(l)
        /\ Current(ses[s].gen) => First(l) = Checked(c)
        /\ ~Current(ses[s].gen) => First(l) \in AfterStep
    BY <1>2, <1>3, ListGoesOn DEF AfterStep
  <1>5. l \in Seq(PeerSteps)
    BY <1>4 DEF ListOK
  <1> DEFINE r == [ses[s] EXCEPT !.todo = l]
  <1>6. ses' = [ses EXCEPT ![s] = r]
    BY <1>1 DEF PeersOK
  <1> HIDE DEF l
  <1>7. r \in Session /\ r.todo = l /\ r.peer = ses[s].peer
    BY <1>3, <1>5 DEF Session
  <1> HIDE DEF r
  <1> QED BY <1>2, <1>4, <1>6, <1>7, SessionReplaced DEF Serves

LEMMA PeerExitsServes ==
  ASSUME PeersOK, NEW s \in Attempts, PeerExits(s)
  PROVE  PNow(s) = "none" /\ Serves(s, {"none"})
  <1>1. ses[s].todo = <<>> /\ PNow(s) = "none"
    BY DEF PeerExits, PNow, First
  <1>2. ses[s] \in Session
    BY DEF PeersOK
  <1> DEFINE r == [ses[s] EXCEPT !.peer = "gone", !.exitBit = TRUE]
  <1>5. ses' = [ses EXCEPT ![s] = r]
    BY <1>1 DEF PeerExits, PeersOK
  <1>6. r \in Session
    BY <1>2 DEF Session
  <1>8. r.todo = ses[s].todo /\ r.peer = "gone"
    BY <1>2 DEF Session
  <1> HIDE DEF r
  <1> QED BY <1>1, ShortLists, <1>5, <1>6, <1>8, SessionReplaced DEF Serves, PeersOK, PNow

LEMMA SenderExitsServes ==
  ASSUME PeersOK, NEW s \in Attempts, SenderExits(s)
  PROVE  Serves(s, {PNow(s)})
  <1>1. ses[s].sender
    BY DEF SenderExits
  <1>2. ses[s] \in Session
    BY DEF PeersOK
  <1> DEFINE r == [ses[s] EXCEPT !.sender = FALSE, !.quitBit = TRUE]
  <1>5. ses' = [ses EXCEPT ![s] = r]
    BY <1>1 DEF SenderExits, PeersOK
  <1>6. r \in Session
    BY <1>2 DEF Session
  <1>8. r.todo = ses[s].todo /\ r.peer = ses[s].peer
    BY <1>2 DEF Session
  <1> HIDE DEF r
  <1> QED BY <1>1, ShortLists, <1>5, <1>6, <1>8, SessionReplaced DEF Serves, PeersOK, PNow

-----------------------------------------------------------------------------
(* What the callers do to the sessions                                     *)

Closing(t) == Now(t) \in CloseHeads

\* A caller that is about to touch a session has one.
Anchored ==
  /\ Aim("orch") \in {"start", "fail"} => att # 0
  /\ \A t \in Callers : Closing(t) => call[t].ses # 0

\* The session s becomes r, and pc_task is still where it was.
LEMMA FieldsReplaced ==
  ASSUME PeersOK, NEW s \in Attempts, NEW r \in Session, ses' = [ses EXCEPT ![s] = r],
         r.todo = ses[s].todo, r.peer = ses[s].peer \/ r.peer = "loop"
  PROVE  PeersOK' /\ ses'[s] = r /\ \A x \in Attempts : x # s => ses'[x] = ses[x]
  BY SessionReplaced DEF PeersOK

LEMMA Anchors ==
  ASSUME CallsOK, Anchored, att \in 0 .. MaxAttempts, BoundsAssumption
  PROVE  /\ Now("orch") \in {"begin", "open", "start", "fail"} => att \in Attempts
         /\ \A t \in Callers : Closing(t) => call[t].ses \in Attempts
  <1>1. "orch" \in Callers BY DEF Callers
  <1>2. Now("orch") \in {"begin", "open", "start", "fail"} => Aim("orch") \in {"start", "fail"}
    BY <1>1, Stage DEF CallsOK, Now, Aim
  <1> QED BY <1>2, BoundsAssumption DEF Anchored, CallsOK, Attempts

\* Every variable but the lists and the sessions has its type.
PlainOK ==
  /\ orch \in {"idle", "igniting", "active", "stopping"}
  /\ inbox \in Seq(Events)
  /\ att \in 0 .. MaxAttempts /\ flaps \in 0 .. MaxFlaps
  /\ handle \in 0 .. MaxAttempts /\ rtcHandle \in 0 .. MaxAttempts
  /\ gen \in Nat /\ ready \in BOOLEAN
  /\ media \in 0 .. MaxAttempts
  /\ updFor \in Nat
  /\ upd \in [Gens -> [at : {"none", "check", "send", "gave_up", "refused"}, tries : 0 .. MaxTries - 1]]
  /\ mishaps \subseteq Mishaps

TypeInv == PlainOK /\ CallsOK /\ PeersOK /\ Anchored

LEMMA AnchoredStays ==
  ASSUME Anchored, NEW t \in Callers, NEW f, NEW l, NEW s, NEW ahead, Goes(t, f, l, s, ahead),
         att' = att, f \in CloseHeads => s # 0, t = "orch" /\ l \in {"start", "fail"} => att # 0
  PROVE  Anchored'
  BY DEF Anchored, Goes, Now, Aim, Closing, Callers

LEMMA Posted ==
  ASSUME PlainOK, NEW q \in Seq(Events), NEW ev \in {"ready", "down", "stopped"},
         NEW s \in 0 .. MaxAttempts
  PROVE  Append(q, Event(ev, s)) \in Seq(Events)
  <1>1. Event(ev, s) \in Events BY DEF Event, Events
  <1> QED BY <1>1

LEMMA Read ==
  ASSUME PlainOK, inbox # <<>>
  PROVE  Tail(inbox) \in Seq(Events) /\ Head(inbox) \in Events
  BY DEF PlainOK

LEMMA Taken ==
  ASSUME TypeInv, TakeSession
  PROVE  handle' \in 0 .. MaxAttempts /\ gen' \in Nat /\ ready' \in BOOLEAN /\ updFor' \in Nat
  <1>1. handle' = 0 /\ gen' = gen + 1 /\ ready' = FALSE /\ updFor' = 0 /\ gen \in Nat
    BY DEF TypeInv, PlainOK, TakeSession
  <1>2. gen' \in Nat /\ handle' \in 0 .. MaxAttempts /\ updFor' \in Nat
    BY <1>1, BoundsAssumption
  <1> QED BY <1>1, <1>2

LEMMA CloseMarksKeeps ==
  ASSUME TypeInv, NEW t \in Callers, CloseMarks(t)
  PROVE  /\ call[t].ses \in Attempts /\ PeersOK' /\ \A x \in Attempts : x # call[t].ses => ses'[x] = ses[x]
         /\ ses'[call[t].ses] = [ses[call[t].ses] EXCEPT !.closing = TRUE]
  <1> DEFINE s == call[t].ses
  <1>1. s \in Attempts
    BY CloseMarksMoves, Anchors, BoundsAssumption DEF TypeInv, PlainOK, Closing, CloseHeads
  <1>2. PeersOK /\ ses[s] \in Session
    BY <1>1 DEF TypeInv, PeersOK
  <1> DEFINE r == [ses[s] EXCEPT !.closing = TRUE]
  <1>3. ses' = [ses EXCEPT ![s] = r]
    BY <1>2 DEF CloseMarks, PeersOK
  <1> HIDE DEF s
  <1>4. r \in Session /\ r.todo = ses[s].todo /\ r.peer = ses[s].peer
    BY <1>2 DEF Session
  <1> HIDE DEF r
  <1>5. PeersOK' /\ ses'[s] = r /\ \A x \in Attempts : x # s => ses'[x] = ses[x]
    BY <1>1, <1>2, <1>3, <1>4, FieldsReplaced
  <1> QED BY <1>1, <1>5 DEF r, s

LEMMA CloseStopsStreamKeeps ==
  ASSUME TypeInv, NEW t \in Callers, CloseStopsStream(t)
  PROVE  /\ call[t].ses \in Attempts /\ PeersOK' /\ \A x \in Attempts : x # call[t].ses => ses'[x] = ses[x]
         /\ ses'[call[t].ses] = [ses[call[t].ses] EXCEPT !.sending = FALSE]
  <1> DEFINE s == call[t].ses
  <1>1. s \in Attempts
    BY CloseStopsStreamMoves, Anchors, BoundsAssumption DEF TypeInv, PlainOK, Closing, CloseHeads
  <1>2. PeersOK /\ ses[s] \in Session
    BY <1>1 DEF TypeInv, PeersOK
  <1> DEFINE r == [ses[s] EXCEPT !.sending = FALSE]
  <1>3. ses' = [ses EXCEPT ![s] = r]
    BY <1>2 DEF CloseStopsStream, PeersOK
  <1> HIDE DEF s
  <1>4. r \in Session /\ r.todo = ses[s].todo /\ r.peer = ses[s].peer
    BY <1>2 DEF Session
  <1> HIDE DEF r
  <1>5. PeersOK' /\ ses'[s] = r /\ \A x \in Attempts : x # s => ses'[x] = ses[x]
    BY <1>1, <1>2, <1>3, <1>4, FieldsReplaced
  <1> QED BY <1>1, <1>5 DEF r, s

LEMMA CloseJoinsSenderKeeps ==
  ASSUME TypeInv, NEW t \in Callers, CloseJoinsSender(t)
  PROVE  /\ call[t].ses \in Attempts /\ PeersOK' /\ \A x \in Attempts : x # call[t].ses => ses'[x] = ses[x]
         /\ ses'[call[t].ses] = [ses[call[t].ses] EXCEPT !.quitBit = FALSE]
  <1> DEFINE s == call[t].ses
  <1>1. s \in Attempts
    BY CloseJoinsSenderMoves, Anchors, BoundsAssumption DEF TypeInv, PlainOK, Closing, CloseHeads
  <1>2. PeersOK /\ ses[s] \in Session
    BY <1>1 DEF TypeInv, PeersOK
  <1> DEFINE r == [ses[s] EXCEPT !.quitBit = FALSE]
  <1>3. ses' = [ses EXCEPT ![s] = r]
    BY <1>2 DEF CloseJoinsSender, PeersOK
  <1> HIDE DEF s
  <1>4. r \in Session /\ r.todo = ses[s].todo /\ r.peer = ses[s].peer
    BY <1>2 DEF Session
  <1> HIDE DEF r
  <1>5. PeersOK' /\ ses'[s] = r /\ \A x \in Attempts : x # s => ses'[x] = ses[x]
    BY <1>1, <1>2, <1>3, <1>4, FieldsReplaced
  <1> QED BY <1>1, <1>5 DEF r, s

LEMMA ClosePeerKeeps ==
  ASSUME TypeInv, NEW t \in Callers, ClosePeer(t)
  PROVE  /\ call[t].ses \in Attempts /\ PeersOK' /\ \A x \in Attempts : x # call[t].ses => ses'[x] = ses[x]
         /\ ses'[call[t].ses] = [ses[call[t].ses] EXCEPT !.running = FALSE]
  <1> DEFINE s == call[t].ses
  <1>1. s \in Attempts
    BY ClosePeerMoves, Anchors, BoundsAssumption DEF TypeInv, PlainOK, Closing, CloseHeads
  <1>2. PeersOK /\ ses[s] \in Session
    BY <1>1 DEF TypeInv, PeersOK
  <1> DEFINE r == [ses[s] EXCEPT !.running = FALSE]
  <1>3. ses' = [ses EXCEPT ![s] = r]
    BY <1>2 DEF ClosePeer, PeersOK
  <1> HIDE DEF s
  <1>4. r \in Session /\ r.todo = ses[s].todo /\ r.peer = ses[s].peer
    BY <1>2 DEF Session
  <1> HIDE DEF r
  <1>5. PeersOK' /\ ses'[s] = r /\ \A x \in Attempts : x # s => ses'[x] = ses[x]
    BY <1>1, <1>2, <1>3, <1>4, FieldsReplaced
  <1> QED BY <1>1, <1>5 DEF r, s

\* A session whose list stays and whose pc_task does not go, with the fields of r.
LEMMA Updated ==
  ASSUME TypeInv, NEW s \in Attempts, NEW r \in Session, ses' = [ses EXCEPT ![s] = r],
         r.todo = ses[s].todo, r.peer = ses[s].peer \/ r.peer = "loop"
  PROVE  PeersOK' /\ ses'[s] = r /\ \A x \in Attempts : x # s => ses'[x] = ses[x]
  BY FieldsReplaced DEF TypeInv

LEMMA CloseJoinsPeerKeeps ==
  ASSUME TypeInv, NEW t \in Callers, CloseJoinsPeer(t)
  PROVE  /\ call[t].ses \in Attempts /\ PeersOK' /\ \A x \in Attempts : x # call[t].ses => ses'[x] = ses[x]
         /\ \/ ses'[call[t].ses] = [ses[call[t].ses] EXCEPT !.exitBit = FALSE]
            \/ ses'[call[t].ses] = [ses[call[t].ses] EXCEPT !.exitBit = FALSE, !.chan = "closed"]
  <1> DEFINE s == call[t].ses
  <1>1. s \in Attempts
    BY CloseJoinsPeerMoves, Anchors, BoundsAssumption DEF TypeInv, PlainOK, Closing, CloseHeads
  <1>2. PeersOK /\ ses[s] \in Session
    BY <1>1 DEF TypeInv, PeersOK
  <1>3. CASE ses' = [ses EXCEPT ![s].exitBit = FALSE]
    <2> DEFINE r == [ses[s] EXCEPT !.exitBit = FALSE]
    <2>1. ses' = [ses EXCEPT ![s] = r]
      BY <1>2, <1>3 DEF PeersOK
    <2> HIDE DEF s
    <2>2. r \in Session /\ r.todo = ses[s].todo /\ r.peer = ses[s].peer
      BY <1>2 DEF Session
    <2> HIDE DEF r
    <2>3. PeersOK' /\ ses'[s] = r /\ \A x \in Attempts : x # s => ses'[x] = ses[x]
      BY <1>1, <2>1, <2>2, Updated
    <2> QED BY <1>1, <2>3 DEF r, s
  <1>4. CASE ses' = [ses EXCEPT ![s].exitBit = FALSE, ![s].chan = "closed"]
    <2> DEFINE r == [ses[s] EXCEPT !.exitBit = FALSE, !.chan = "closed"]
    <2>1. ses' = [ses EXCEPT ![s] = r]
      BY <1>2, <1>4 DEF PeersOK
    <2> HIDE DEF s
    <2>2. r \in Session /\ r.todo = ses[s].todo /\ r.peer = ses[s].peer
      BY <1>2 DEF Session
    <2> HIDE DEF r
    <2>3. PeersOK' /\ ses'[s] = r /\ \A x \in Attempts : x # s => ses'[x] = ses[x]
      BY <1>1, <2>1, <2>2, Updated
    <2> QED BY <1>1, <2>3 DEF r, s
  <1> QED BY <1>3, <1>4 DEF CloseJoinsPeer

LEMMA ClosedSession == Closed \in Session
  <1>1. <<>> \in Seq(PeerSteps) /\ 0 \in 0 .. MaxAttempts
    BY BoundsAssumption
  <1> QED BY <1>1 DEF Closed, Session

LEMMA CloseFreesKeeps ==
  ASSUME TypeInv, NEW t \in Callers, CloseFrees(t)
  PROVE  /\ call[t].ses \in Attempts /\ PeersOK' /\ \A x \in Attempts : x # call[t].ses => ses'[x] = ses[x]
         /\ ses'[call[t].ses] =
              [Closed EXCEPT !.life = "freed", !.peer = ses[call[t].ses].peer,
                             !.sender = ses[call[t].ses].sender,
                             !.sending = ses[call[t].ses].sender /\ ses[call[t].ses].sending]
  <1> DEFINE s == call[t].ses
  <1>1. s \in Attempts
    BY CloseFreesMoves, Anchors, BoundsAssumption DEF TypeInv, PlainOK, Closing, CloseHeads
  <1>2. PeersOK /\ ses[s] \in Session
    BY <1>1 DEF TypeInv, PeersOK
  <1> DEFINE r == [Closed EXCEPT !.life = "freed", !.peer = ses[s].peer,
                                 !.sender = ses[s].sender,
                                 !.sending = ses[s].sender /\ ses[s].sending]
  <1>3. ses' = [ses EXCEPT ![s] = r]
    BY <1>2 DEF CloseFrees
  <1> HIDE DEF s
  <1>4. r.todo = <<>>
    BY DEF Closed
  <1>5. r \in Session
    <2>1. Closed \in Session
      BY ClosedSession
    <2>2. ses[s].peer \in {"none", "loop", "gone"} /\ ses[s].sender \in BOOLEAN /\ ses[s].sending \in BOOLEAN
      BY <1>2 DEF Session
    <2> DEFINE c == Closed
    <2>3. c \in Session /\ r = [c EXCEPT !.life = "freed", !.peer = ses[s].peer,
                                         !.sender = ses[s].sender,
                                 !.sending = ses[s].sender /\ ses[s].sending]
      BY <2>1
    <2> HIDE DEF c, r
    <2> QED BY <2>2, <2>3 DEF Session
  <1> HIDE DEF r
  <1>6. PeersOK' /\ ses'[s] = r /\ \A x \in Attempts : x # s => ses'[x] = ses[x]
    BY <1>1, <1>2, <1>3, <1>4, <1>5, ShortLists, SessionReplaced
  <1> QED BY <1>1, <1>6 DEF r, s

LEMMA StartTakesKeeps ==
  ASSUME TypeInv, StartTakes, gen' # gen
  PROVE  /\ att \in Attempts /\ PeersOK' /\ \A x \in Attempts : x # att => ses'[x] = ses[x]
         /\ ses'[att] = [ses[att] EXCEPT !.gen = gen + 1]
  <1>1. att \in Attempts
    BY StartTakesMoves, Anchors, BoundsAssumption DEF TypeInv, PlainOK
  <1>2. PeersOK /\ ses[att] \in Session /\ gen + 1 \in Nat
    BY <1>1 DEF TypeInv, PeersOK, PlainOK
  <1>3. CASE ses' = [ses EXCEPT ![att].gen = gen + 1]
    <2> DEFINE r == [ses[att] EXCEPT !.gen = gen + 1]
    <2>1. ses' = [ses EXCEPT ![att] = r]
      BY <1>2, <1>3 DEF PeersOK
    <2>2. r \in Session /\ r.todo = ses[att].todo /\ r.peer = ses[att].peer
      BY <1>2 DEF Session
    <2> HIDE DEF r
    <2>3. PeersOK' /\ ses'[att] = r /\ \A x \in Attempts : x # att => ses'[x] = ses[x]
      BY <1>1, <2>1, <2>2, Updated
    <2> QED BY <1>1, <2>3 DEF r
  <1> QED BY <1>3 DEF StartTakes

LEMMA StartOpensKeeps ==
  ASSUME TypeInv, StartOpens
  PROVE  /\ att \in Attempts /\ PeersOK' /\ \A x \in Attempts : x # att => ses'[x] = ses[x]
         /\ ses'[att] = [ses[att] EXCEPT !.life = "open", !.media = media]
  <1>1. att \in Attempts
    BY StartOpensMoves, Anchors, BoundsAssumption DEF TypeInv, PlainOK
  <1>2. PeersOK /\ ses[att] \in Session /\ media \in 0 .. MaxAttempts
    BY <1>1 DEF TypeInv, PeersOK, PlainOK
  <1>3. CASE ses' = [ses EXCEPT ![att].life = "open", ![att].media = media]
    <2> DEFINE r == [ses[att] EXCEPT !.life = "open", !.media = media]
    <2>1. ses' = [ses EXCEPT ![att] = r]
      BY <1>2, <1>3 DEF PeersOK
    <2>2. r \in Session /\ r.todo = ses[att].todo /\ r.peer = ses[att].peer
      BY <1>2 DEF Session
    <2> HIDE DEF r
    <2>3. PeersOK' /\ ses'[att] = r /\ \A x \in Attempts : x # att => ses'[x] = ses[x]
      BY <1>1, <2>1, <2>2, Updated
    <2> QED BY <1>1, <2>3 DEF r
  <1> QED BY <1>3 DEF StartOpens

LEMMA StartStartsKeeps ==
  ASSUME TypeInv, StartStarts
  PROVE  /\ att \in Attempts /\ PeersOK' /\ \A x \in Attempts : x # att => ses'[x] = ses[x]
         /\ \/ ses'[att] = [ses[att] EXCEPT !.closing = FALSE, !.running = TRUE, !.peer = "loop"]
            \/ ses'[att] = [ses[att] EXCEPT !.closing = FALSE]
            \/ \E opened \in BOOLEAN : ses'[att] = [ses[att] EXCEPT !.closing = FALSE, !.running = opened]
  <1>1. att \in Attempts
    BY StartStartsMoves, Anchors, BoundsAssumption DEF TypeInv, PlainOK
  <1>2. PeersOK /\ ses[att] \in Session
    BY <1>1 DEF TypeInv, PeersOK
  <1>3. CASE ses' = [ses EXCEPT ![att].closing = FALSE, ![att].running = TRUE, ![att].peer = "loop"]
    <2> DEFINE r == [ses[att] EXCEPT !.closing = FALSE, !.running = TRUE, !.peer = "loop"]
    <2>1. ses' = [ses EXCEPT ![att] = r]
      BY <1>2, <1>3 DEF PeersOK
    <2>2. r \in Session /\ r.todo = ses[att].todo /\ r.peer = "loop"
      BY <1>2 DEF Session
    <2> HIDE DEF r
    <2>3. PeersOK' /\ ses'[att] = r /\ \A x \in Attempts : x # att => ses'[x] = ses[x]
      BY <1>1, <2>1, <2>2, Updated
    <2> QED BY <1>1, <2>3 DEF r
  <1>4. CASE ses' = [ses EXCEPT ![att].closing = FALSE]
    <2> DEFINE r == [ses[att] EXCEPT !.closing = FALSE]
    <2>1. ses' = [ses EXCEPT ![att] = r]
      BY <1>2, <1>4 DEF PeersOK
    <2>2. r \in Session /\ r.todo = ses[att].todo /\ r.peer = ses[att].peer
      BY <1>2 DEF Session
    <2> HIDE DEF r
    <2>3. PeersOK' /\ ses'[att] = r /\ \A x \in Attempts : x # att => ses'[x] = ses[x]
      BY <1>1, <2>1, <2>2, Updated
    <2> QED BY <1>1, <2>3 DEF r
  <1>5. ASSUME NEW opened \in BOOLEAN, ses' = [ses EXCEPT ![att].closing = FALSE, ![att].running = opened]
        PROVE  /\ PeersOK' /\ \A x \in Attempts : x # att => ses'[x] = ses[x]
               /\ ses'[att] = [ses[att] EXCEPT !.closing = FALSE, !.running = opened]
    <2> DEFINE r == [ses[att] EXCEPT !.closing = FALSE, !.running = opened]
    <2>1. ses' = [ses EXCEPT ![att] = r]
      BY <1>2, <1>5 DEF PeersOK
    <2>2. r \in Session /\ r.todo = ses[att].todo /\ r.peer = ses[att].peer
      BY <1>2 DEF Session
    <2> HIDE DEF r
    <2>3. PeersOK' /\ ses'[att] = r /\ \A x \in Attempts : x # att => ses'[x] = ses[x]
      BY <1>1, <2>1, <2>2, Updated
    <2> QED BY <1>1, <2>3 DEF r
  <1> QED BY <1>1, <1>3, <1>4, <1>5 DEF StartStarts

\* The session_update task configures the session in use.
LEMMA UpdateSendsKeeps ==
  ASSUME TypeInv, NEW g \in Gens, UpdateSends(g), Sendable
  PROVE  /\ handle \in Attempts /\ PeersOK' /\ \A x \in Attempts : x # handle => ses'[x] = ses[x]
         /\ \/ ses'[handle] = ses[handle]
            \/ ses[handle].conf = "no" /\ ses'[handle] = [ses[handle] EXCEPT !.conf = "sent"]
  <1>1. handle \in Attempts
    BY BoundsAssumption DEF TypeInv, PlainOK, Sendable, Attempts
  <1>2. PeersOK /\ ses[handle] \in Session /\ ses \in [Attempts -> Session]
    BY <1>1 DEF TypeInv, PeersOK
  <1>3. CASE ses' = [ses EXCEPT ![handle].conf = IF @ = "no" THEN "sent" ELSE @]
    <2>1. CASE ses[handle].conf = "no"
      <3> DEFINE r == [ses[handle] EXCEPT !.conf = "sent"]
      <3>1. ses' = [ses EXCEPT ![handle] = r]
        BY <1>2, <1>3, <2>1
      <3>2. r \in Session /\ r.todo = ses[handle].todo /\ r.peer = ses[handle].peer
        BY <1>2 DEF Session
      <3> HIDE DEF r
      <3>3. PeersOK' /\ ses'[handle] = r /\ \A x \in Attempts : x # handle => ses'[x] = ses[x]
        BY <1>1, <3>1, <3>2, Updated
      <3> QED BY <1>1, <2>1, <3>3 DEF r
    <2>2. CASE ses[handle].conf # "no"
      <3>1. ses' = [ses EXCEPT ![handle] = ses[handle]]
        BY <1>2, <1>3, <2>2 DEF Session
      <3> QED BY <1>1, <1>2, <3>1, Updated
    <2> QED BY <2>1, <2>2
  <1>4. CASE ses' = ses
    BY <1>1, <1>2, <1>4 DEF PeersOK
  <1> QED BY <1>3, <1>4 DEF UpdateSends

-----------------------------------------------------------------------------
(* Types                                                                   *)

LEMMA CallTypes ==
  ASSUME TypeInv, NEW t \in Callers, NEW f, NEW l, NEW s, NEW ahead, Goes(t, f, l, s, ahead),
         att' = att, f \in CloseHeads => s # 0, t = "orch" /\ l \in {"start", "fail"} => att # 0
  PROVE  CallsOK' /\ Anchored'
  BY AnchoredStays DEF Goes, TypeInv

LEMMA ClosingTypes ==
  ASSUME TypeInv, NEW t \in Callers, Closing(t), NEW f, NEW ahead,
         Goes(t, f, Aim(t), call[t].ses, ahead), att' = att
  PROVE  CallsOK' /\ Anchored'
  <1>1. call[t].ses # 0 /\ (t = "orch" /\ Aim(t) \in {"start", "fail"} => att # 0)
    BY DEF TypeInv, Anchored
  <1> QED BY <1>1, CallTypes

\* The callers.
LEMMA CallerTypes ==
  ASSUME TypeInv, NEW t \in Callers, CallStep(t)
  PROVE  TypeInv'
  <1> USE DEF TypeInv
  <1>o. "orch" \in Callers /\ "stop" \in Callers
    BY DEF Callers
  <1>h. handle \in 0 .. MaxAttempts /\ att \in 0 .. MaxAttempts
    BY DEF PlainOK
  <1>a. /\ Aim("orch") \in {"start", "fail"} => att # 0
        /\ Now("orch") \in {"begin", "open", "start", "fail"} => att # 0
    BY <1>h, Anchors, BoundsAssumption DEF Anchored, Attempts
  <1>1. CASE StopTakes(t)
    <2>1. CallsOK' /\ Anchored'
      BY <1>1, <1>o, <1>h, <1>a, StopTakesMoves, CallTypes DEF StopTakes, CloseHeads
    <2>2. PlainOK'
      BY <1>1, Taken DEF StopTakes, PlainOK, TakeSession
    <2>3. PeersOK'
      BY <1>1 DEF StopTakes, PeersOK
    <2> QED BY <2>1, <2>2, <2>3
  <1>2. CASE CloseMarks(t)
    <2>1. CallsOK' /\ Anchored'
      BY <1>2, CloseMarksMoves, ClosingTypes DEF CloseMarks, Closing, CloseHeads
    <2>2. PlainOK'
      BY <1>2 DEF CloseMarks, PlainOK
    <2>3. PeersOK'
      BY <1>2, CloseMarksKeeps
    <2> QED BY <2>1, <2>2, <2>3
  <1>3. CASE CloseTestsStream(t)
    <2>1. CallsOK' /\ Anchored'
      BY <1>3, CloseTestsStreamMoves, ClosingTypes DEF CloseTestsStream, Closing, CloseHeads
    <2>2. PlainOK'
      BY <1>3 DEF CloseTestsStream, PlainOK, Mishaps
    <2>3. PeersOK'
      BY <1>3 DEF CloseTestsStream, PeersOK
    <2> QED BY <2>1, <2>2, <2>3
  <1>4. CASE CloseStopsStream(t)
    <2>1. CallsOK' /\ Anchored'
      BY <1>4, CloseStopsStreamMoves, ClosingTypes DEF CloseStopsStream, Closing, CloseHeads
    <2>2. PlainOK'
      BY <1>4 DEF CloseStopsStream, PlainOK
    <2>3. PeersOK'
      BY <1>4, CloseStopsStreamKeeps
    <2> QED BY <2>1, <2>2, <2>3
  <1>5. CASE CloseJoinsSender(t)
    <2>1. CallsOK' /\ Anchored'
      BY <1>5, CloseJoinsSenderMoves, ClosingTypes DEF CloseJoinsSender, Closing, CloseHeads
    <2>2. PlainOK'
      BY <1>5 DEF CloseJoinsSender, PlainOK
    <2>3. PeersOK'
      BY <1>5, CloseJoinsSenderKeeps
    <2> QED BY <2>1, <2>2, <2>3
  <1>6. CASE ClosePeer(t)
    <2>1. CallsOK' /\ Anchored'
      BY <1>6, ClosePeerMoves, ClosingTypes DEF ClosePeer, Closing, CloseHeads
    <2>2. PlainOK'
      BY <1>6 DEF ClosePeer, PlainOK
    <2>3. PeersOK'
      BY <1>6, ClosePeerKeeps
    <2> QED BY <2>1, <2>2, <2>3
  <1>7. CASE CloseJoinsPeer(t)
    <2>1. CallsOK' /\ Anchored'
      BY <1>7, CloseJoinsPeerMoves, ClosingTypes DEF CloseJoinsPeer, Closing, CloseHeads
    <2>2. PlainOK'
      BY <1>7, call[t].ses \in 0 .. MaxAttempts DEF CloseJoinsPeer, PlainOK, CallsOK
    <2>3. PeersOK'
      BY <1>7, CloseJoinsPeerKeeps
    <2> QED BY <2>1, <2>2, <2>3
  <1>8. CASE CloseFrees(t)
    <2>1. CallsOK' /\ Anchored'
      BY <1>8, CloseFreesMoves, ClosingTypes DEF CloseFrees, Closing, CloseHeads
    <2>2. PlainOK'
      BY <1>8 DEF CloseFrees, PlainOK
    <2>3. PeersOK'
      BY <1>8, CloseFreesKeeps
    <2> QED BY <2>1, <2>2, <2>3
  <1>9. CASE TearsDownMedia(t)
    <2>1. CallsOK' /\ Anchored'
      BY <1>9, <1>o, <1>h, <1>a, TearsDownMediaMoves, CallTypes DEF TearsDownMedia, CloseHeads, Callers
    <2>2. PlainOK'
      BY <1>9, BoundsAssumption DEF TearsDownMedia, PlainOK
    <2>3. PeersOK'
      BY <1>9 DEF TearsDownMedia, PeersOK
    <2> QED BY <2>1, <2>2, <2>3
  <1>10. CASE StartTakes /\ t = "orch"
    <2>1. CallsOK' /\ Anchored'
      BY <1>10, <1>o, <1>h, <1>a, StartTakesMoves, CallTypes DEF StartTakes, CloseHeads
    <2>2. PlainOK'
      BY <1>10, Taken DEF StartTakes, PlainOK
    <2>3. PeersOK'
      <3>1. CASE gen' = gen
        BY <1>10, <3>1 DEF PeersOK, StartTakes, TakeSession, PlainOK
      <3> QED BY <1>10, <3>1, StartTakesKeeps
    <2> QED BY <2>1, <2>2, <2>3
  <1>11. CASE StartOpens /\ t = "orch"
    <2>1. CallsOK' /\ Anchored'
      BY <1>11, <1>o, <1>h, <1>a, StartOpensMoves, CallTypes DEF StartOpens, CloseHeads
    <2>2. PlainOK'
      BY <1>11 DEF StartOpens, PlainOK
    <2>3. PeersOK'
      BY <1>11, StartOpensKeeps
    <2> QED BY <2>1, <2>2, <2>3
  <1>12. CASE StartStarts /\ t = "orch"
    <2>1. CallsOK' /\ Anchored'
      BY <1>12, <1>o, <1>h, <1>a, StartStartsMoves, CallTypes DEF StartStarts, CloseHeads
    <2>2. PlainOK'
      BY <1>12, Taken DEF StartStarts, PlainOK
    <2>3. PeersOK'
      BY <1>12, StartStartsKeeps
    <2> QED BY <2>1, <2>2, <2>3
  <1>13. CASE StartFails /\ t = "orch"
    <2>1. CallsOK' /\ Anchored'
      BY <1>13, <1>o, <1>h, StartFailsMoves, AnchoredStays DEF Goes, StartFails, CloseHeads
    <2>2. PlainOK'
      BY <1>13, Posted DEF StartFails, PlainOK, Post
    <2>3. PeersOK'
      BY <1>13 DEF StartFails, PeersOK
    <2> QED BY <2>1, <2>2, <2>3
  <1>14. CASE StopPosts /\ t = "stop"
    <2>1. CallsOK' /\ Anchored'
      BY <1>14, <1>o, <1>h, StopPostsMoves, AnchoredStays DEF Goes, StopPosts, CloseHeads
    <2>2. PlainOK'
      BY <1>14, Posted DEF StopPosts, PlainOK, Post
    <2>3. PeersOK'
      BY <1>14 DEF StopPosts, PeersOK
    <2> QED BY <2>1, <2>2, <2>3
  <1>15. CASE StopExits /\ t = "stop"
    <2>1. CallsOK' /\ Anchored'
      BY <1>15, <1>o, <1>h, StopExitsMoves, AnchoredStays DEF Goes, StopExits, CloseHeads
    <2>2. PlainOK'
      BY <1>15 DEF StopExits, PlainOK
    <2>3. PeersOK'
      BY <1>15 DEF StopExits, PeersOK
    <2> QED BY <2>1, <2>2, <2>3
  <1> QED BY <1>1, <1>2, <1>3, <1>4, <1>5, <1>6, <1>7, <1>8, <1>9, <1>10, <1>11, <1>12, <1>13, <1>14, <1>15 DEF CallStep

\* The orchestrator between its calls.
LEMMA OrchestratorTypes ==
  ASSUME TypeInv, Ignites \/ LosesWifi \/ SessionEnds \/ OrchestratorStep
  PROVE  TypeInv'
  <1> USE DEF TypeInv
  <1>o. "orch" \in Callers /\ "stop" \in Callers
    BY DEF Callers
  <1>1. CASE Ignites
    <2>1. att + 1 \in 0 .. MaxAttempts /\ att' = att + 1 /\ att \in Nat
      BY <1>1, BoundsAssumption DEF Ignites, PlainOK
    <2>2. CallsOK' /\ Anchored'
      <3>1. ASSUME Goes("orch", "begin", "start", att + 1, "free") PROVE CallsOK' /\ Anchored'
        BY <1>o, <2>1, <3>1 DEF Anchored, Goes, Now, Aim, Closing, Callers, CloseHeads
      <3>2. ASSUME call' = call PROVE CallsOK' /\ Anchored'
        BY <2>1, <3>2 DEF Anchored, Now, Aim, Closing, CallsOK
      <3> QED BY <1>1, <2>1, <3>1, <3>2, IgnitesMoves
    <2>3. PlainOK'
      BY <1>1, <2>1, Posted DEF Ignites, PlainOK, Post
    <2>4. PeersOK'
      BY <1>1 DEF Ignites, PeersOK
    <2> QED BY <2>2, <2>3, <2>4
  <1>2. CASE LosesWifi
    <2>1. CallsOK' /\ Anchored'
      BY <1>2, <1>o, LosesWifiMoves, AnchoredStays DEF Goes, LosesWifi, CloseHeads
    <2>2. PlainOK'
      BY <1>2, BoundsAssumption DEF LosesWifi, PlainOK, Mishaps
    <2>3. PeersOK'
      BY <1>2 DEF LosesWifi, PeersOK
    <2> QED BY <2>1, <2>2, <2>3
  <1>3. ASSUME NEW q \in Seq(Events), EnterStopping(q),
               UNCHANGED <<att, flaps, shared, rtcHandle, media, ses, upd>>
        PROVE  TypeInv'
    <2>1. CallsOK' /\ Anchored'
      <3>1. ASSUME Goes("stop", "take", "exit", call["stop"].ses, "free") PROVE CallsOK' /\ Anchored'
        BY <1>o, <1>3, <3>1, AnchoredStays DEF Goes, CloseHeads
      <3>2. ASSUME call' = call PROVE CallsOK' /\ Anchored'
        BY <1>3, <3>2 DEF Anchored, Now, Aim, Closing, CallsOK
      <3> QED BY <1>3, <3>1, <3>2, EnterStoppingMoves
    <2>2. PlainOK'
      <3>1. Append(q, Event("stopped", 0)) \in Seq(Events)
        BY <1>3, Posted, BoundsAssumption
      <3> QED BY <1>3, <3>1 DEF EnterStopping, PlainOK, Mishaps
    <2>3. PeersOK'
      BY <1>3 DEF PeersOK
    <2> QED BY <2>1, <2>2, <2>3
  <1>4. CASE SessionEnds
    BY <1>3, <1>4 DEF SessionEnds, PlainOK
  <1>5. ASSUME inbox # <<>>, inbox' = Tail(inbox), orch' \in {"idle", "igniting", "active", "stopping"},
               UNCHANGED <<att, flaps, call, shared, rtcHandle, media, ses, upd, mishaps>>
        PROVE  TypeInv'
    <2>1. PlainOK'
      BY <1>5, Read DEF PlainOK
    <2>2. CallsOK' /\ Anchored' /\ PeersOK'
      BY <1>5 DEF Anchored, Now, Aim, Closing, CallsOK, PeersOK
    <2> QED BY <2>1, <2>2
  <1>6. CASE OnReady
    BY <1>5, <1>6 DEF OnReady, Takes, PlainOK
  <1>7. CASE OnStopped
    BY <1>5, <1>7 DEF OnStopped, Takes, PlainOK
  <1>8. CASE OnDown
    <2>1. inbox # <<>> /\ Tail(inbox) \in Seq(Events)
      BY <1>8, Read DEF OnDown, Takes
    <2> QED BY <1>3, <1>5, <1>8, <2>1 DEF OnDown, PlainOK
  <1> QED BY <1>1, <1>2, <1>4, <1>6, <1>7, <1>8 DEF OrchestratorStep

\* pc_task, pc_send and the session_update task.
LEMMA PeerTypes ==
  ASSUME TypeInv, NEW s \in Attempts, PeerReports(s) \/ PeerStep(s) \/ SenderExits(s)
  PROVE  TypeInv'
  <1> USE DEF TypeInv
  <1>s. s \in 0 .. MaxAttempts
    BY BoundsAssumption DEF Attempts
  <1>c. UNCHANGED <<call, att>> => CallsOK' /\ Anchored'
    BY DEF Anchored, Now, Aim, Closing, CallsOK
  <1>1. CASE PeerConnects(s)
    <2>1. PeersOK'
      BY <1>1, PeerConnectsServes DEF Serves
    <2>2. PlainOK'
      BY <1>1, <1>s DEF PeerConnects, PlainOK
    <2> QED BY <1>1, <1>c, <2>1, <2>2 DEF PeerConnects
  <1>2. CASE PeerFails(s)
    <2>1. PeersOK'
      BY <1>2, PeerFailsServes DEF Serves
    <2>2. PlainOK'
      BY <1>2, <1>s DEF PeerFails, PlainOK
    <2> QED BY <1>2, <1>c, <2>1, <2>2 DEF PeerFails
  <1>3. CASE PeerOpensChannel(s)
    <2>1. PeersOK'
      BY <1>3, PeerOpensChannelServes DEF Serves
    <2>2. PlainOK'
      BY <1>3, <1>s DEF PeerOpensChannel, PlainOK
    <2> QED BY <1>3, <1>c, <2>1, <2>2 DEF PeerOpensChannel
  <1>4. CASE PeerLosesChannel(s)
    <2>1. PeersOK'
      BY <1>4, PeerLosesChannelServes DEF Serves
    <2>2. PlainOK'
      BY <1>4, <1>s DEF PeerLosesChannel, PlainOK
    <2> QED BY <1>4, <1>c, <2>1, <2>2 DEF PeerLosesChannel
  <1>5. CASE PeerDisconnects(s)
    <2>1. PeersOK'
      BY <1>5, PeerDisconnectsServes DEF Serves
    <2>2. PlainOK'
      BY <1>5, <1>s DEF PeerDisconnects, PlainOK
    <2> QED BY <1>5, <1>c, <2>1, <2>2 DEF PeerDisconnects
  <1>6. CASE ServerAnswers(s)
    <2>1. PeersOK'
      BY <1>6, ServerAnswersServes DEF Serves
    <2>2. PlainOK'
      BY <1>6, <1>s DEF ServerAnswers, PlainOK
    <2> QED BY <1>6, <1>c, <2>1, <2>2 DEF ServerAnswers
  <1>7. CASE StreamStarts(s)
    <2>1. PeersOK'
      BY <1>7, StreamStartsServes DEF Serves
    <2>2. PlainOK'
      BY <1>7, <1>s DEF StreamStarts, PlainOK, Mishaps
    <2> QED BY <1>7, <1>c, <2>1, <2>2 DEF StreamStarts
  <1>8. CASE StreamTested(s)
    <2>1. PeersOK'
      BY <1>8, StreamTestedServes DEF Serves
    <2>2. PlainOK'
      BY <1>8, <1>s DEF StreamTested, PlainOK, Mishaps
    <2> QED BY <1>8, <1>c, <2>1, <2>2 DEF StreamTested
  <1>9. CASE StreamStops(s)
    <2>1. PeersOK'
      BY <1>9, StreamStopsServes DEF Serves
    <2>2. PlainOK'
      BY <1>9, <1>s DEF StreamStops, PlainOK
    <2> QED BY <1>9, <1>c, <2>1, <2>2 DEF StreamStops
  <1>10. CASE PeerJoinsSender(s)
    <2>1. PeersOK'
      BY <1>10, PeerJoinsSenderServes DEF Serves
    <2>2. PlainOK'
      BY <1>10, <1>s DEF PeerJoinsSender, PlainOK
    <2> QED BY <1>10, <1>c, <2>1, <2>2 DEF PeerJoinsSender
  <1>11. CASE CallbackChecks(s)
    <2>1. PeersOK'
      BY <1>11, CallbackChecksServes DEF Serves
    <2>2. PlainOK'
      BY <1>11, <1>s DEF CallbackChecks, PlainOK
    <2> QED BY <1>11, <1>c, <2>1, <2>2 DEF CallbackChecks
  <1>12. CASE CallbackSchedules(s)
    <2>1. PeersOK'
      BY <1>12, CallbackSchedulesServes DEF Serves
    <2>2. PlainOK'
      <3>1. upd' \in [Gens -> [at : {"none", "check", "send", "gave_up", "refused"}, tries : 0 .. MaxTries - 1]]
        <4>1. 0 \in 0 .. MaxTries - 1
          BY BoundsAssumption
        <4> QED BY <1>12, <4>1 DEF CallbackSchedules, PlainOK
      <3>2. updFor' \in Nat
        BY <1>12 DEF CallbackSchedules, PlainOK
      <3> QED BY <1>12, <3>1, <3>2 DEF CallbackSchedules, PlainOK
    <2> QED BY <1>12, <1>c, <2>1, <2>2 DEF CallbackSchedules
  <1>13. CASE CallbackReportsDown(s)
    <2>1. PeersOK'
      BY <1>13, CallbackReportsDownServes DEF Serves
    <2>2. PlainOK'
      BY <1>13, <1>s, Posted DEF CallbackReportsDown, PlainOK, Post
    <2> QED BY <1>13, <1>c, <2>1, <2>2 DEF CallbackReportsDown
  <1>14. CASE CallbackReportsReady(s)
    <2>1. PeersOK'
      BY <1>14, CallbackReportsReadyServes DEF Serves
    <2>2. PlainOK'
      BY <1>14, <1>s, Posted DEF CallbackReportsReady, PlainOK
    <2> QED BY <1>14, <1>c, <2>1, <2>2 DEF CallbackReportsReady
  <1>15. CASE PeerExits(s)
    <2>1. PeersOK'
      BY <1>15, PeerExitsServes DEF Serves
    <2>2. PlainOK'
      BY <1>15, <1>s DEF PeerExits, PlainOK
    <2> QED BY <1>15, <1>c, <2>1, <2>2 DEF PeerExits
  <1>16. CASE SenderExits(s)
    <2>1. PeersOK'
      BY <1>16, SenderExitsServes DEF Serves
    <2>2. PlainOK'
      BY <1>16, <1>s DEF SenderExits, PlainOK
    <2> QED BY <1>16, <1>c, <2>1, <2>2 DEF SenderExits
  <1>17. CASE SenderSpawns(s)
    <2>1. PeersOK'
      BY <1>17, SenderSpawnsServes DEF Serves
    <2>2. PlainOK'
      BY <1>17, <1>s DEF SenderSpawns, PlainOK, Mishaps
    <2> QED BY <1>17, <1>c, <2>1, <2>2 DEF SenderSpawns
  <1> QED BY <1>1, <1>2, <1>3, <1>4, <1>5, <1>6, <1>7, <1>8, <1>9, <1>10, <1>11, <1>12, <1>13, <1>14, <1>15, <1>16, <1>17 DEF PeerReports, PeerStep

LEMMA UpdateTypes ==
  ASSUME TypeInv, NEW g \in Gens, UpdateChecks(g) \/ UpdateSends(g)
  PROVE  TypeInv'
  <1> USE DEF TypeInv
  <1>c. UNCHANGED <<call, att>> => CallsOK' /\ Anchored'
    BY DEF Anchored, Now, Aim, Closing, CallsOK
  <1> DEFINE Task == [at : {"none", "check", "send", "gave_up", "refused"}, tries : 0 .. MaxTries - 1]
  <1>u. upd \in [Gens -> Task] /\ updFor \in Nat /\ upd[g] \in Task
    BY DEF PlainOK
  <1>z. 0 \in 0 .. MaxTries - 1 /\ MaxTries \in Nat
    BY BoundsAssumption
  <1>e. ASSUME NEW how \in {"none", "gave_up"}, Ends(g, how)
        PROVE  upd' \in [Gens -> Task] /\ updFor' \in Nat
    BY <1>e, <1>u, <1>z DEF Ends
  <1>1. CASE UpdateChecks(g)
    <2>1. upd' \in [Gens -> Task] /\ updFor' \in Nat
      BY <1>1, <1>e, <1>u DEF UpdateChecks
    <2>2. PlainOK' /\ PeersOK'
      BY <1>1, <2>1 DEF UpdateChecks, PlainOK, PeersOK
    <2> QED BY <1>1, <1>c, <2>2 DEF UpdateChecks
  <1>2. CASE UpdateSends(g)
    <2>1. upd' \in [Gens -> Task] /\ updFor' \in Nat
      <3>1. CASE \E how \in {"none", "gave_up"} : Ends(g, how)
        BY <1>e, <3>1
      <3>2. CASE /\ upd[g].tries + 1 # MaxTries /\ UNCHANGED updFor
                 /\ upd' = [upd EXCEPT ![g] = [at |-> "check", tries |-> @.tries + 1]]
        <4>1. upd[g].tries + 1 \in 0 .. MaxTries - 1
          BY <1>u, <1>z, <3>2
        <4> QED BY <1>u, <3>2, <4>1
      <3> QED BY <1>2, <3>1, <3>2 DEF UpdateSends
    <2>2. PlainOK'
      BY <1>2, <2>1 DEF UpdateSends, PlainOK
    <2>3. PeersOK'
      BY <1>2, UpdateSendsKeeps DEF UpdateSends, PeersOK
    <2> QED BY <1>2, <1>c, <2>2, <2>3 DEF UpdateSends
  <1> QED BY <1>1, <1>2

LEMMA TypesBegin == Init => TypeInv
  <1> SUFFICES ASSUME Init PROVE TypeInv
    OBVIOUS
  <1>1. PlainOK
    <2>1. <<>> \in Seq(Events) /\ 0 \in 0 .. MaxTries - 1
      BY BoundsAssumption
    <2>2. gen \in Nat /\ updFor \in Nat /\ ready \in BOOLEAN /\ mishaps \subseteq Mishaps
      BY DEF Init
    <2>3. upd \in [Gens -> [at : {"none", "check", "send", "gave_up", "refused"}, tries : 0 .. MaxTries - 1]]
      BY <2>1 DEF Init
    <2>4. 0 \in 0 .. MaxAttempts /\ 0 \in 0 .. MaxFlaps
      BY BoundsAssumption
    <2> QED BY <2>1, <2>2, <2>3, <2>4 DEF Init, PlainOK
  <1>2. CallsOK
    <2>1. <<>> \in Seq(Steps) /\ 0 \in 0 .. MaxAttempts
      BY BoundsAssumption
    <2> QED BY <2>1, NewLists DEF Init, CallsOK
  <1>3. PeersOK
    <2>1. Closed \in Session
      BY ClosedSession
    <2>2. Closed.todo = <<>>
      BY DEF Closed
    <2> QED BY <2>1, <2>2, ShortLists DEF Init, PeersOK
  <1>4. Anchored
    <2>1. \A t \in Callers : call[t].todo = <<>>
      BY DEF Init
    <2> QED BY <2>1, NewLists DEF Anchored, Now, Aim, Closing, CloseHeads, Callers
  <1> QED BY <1>1, <1>2, <1>3, <1>4 DEF TypeInv

LEMMA TypesStay == TypeInv /\ [Next]_vars => TypeInv'
  <1> SUFFICES ASSUME TypeInv, [Next]_vars PROVE TypeInv'
    OBVIOUS
  <1>1. CASE UNCHANGED vars
    BY <1>1 DEF TypeInv, PlainOK, CallsOK, PeersOK, Anchored, Now, Aim, Closing
  <1> QED BY <1>1, CallerTypes, OrchestratorTypes, PeerTypes, UpdateTypes DEF Next

LEMMA Typed == Spec => []TypeInv
  BY TypesBegin, TypesStay, PTL DEF Spec

\* Every variable keeps its type, whatever the bounds and whichever calls may fail
\* (webrtc.c, esp_webrtc.c): what a caller still has to do in particular is always
\* one of the lists of Shapes.
THEOREM TypeCorrect == Spec => []RtcTypeOK
  <1>1. TypeInv => RtcTypeOK
    BY DEF TypeInv, PlainOK, CallsOK, PeersOK, RtcTypeOK
  <1> QED BY <1>1, Typed, PTL

-----------------------------------------------------------------------------
(* What a step changes of a session                                        *)

Fields == {"life", "gen", "media", "closing", "running", "peer", "todo", "phase",
           "exitBit", "chan", "conf", "sending", "sender", "quitBit"}

\* Of all sessions only s may change, and of s only the fields F.
Only(s, F) ==
  /\ ses \in [Attempts -> Session] /\ ses' \in [Attempts -> Session]
  /\ \A x \in Attempts : x # s => ses'[x] = ses[x]
  /\ \A f \in Fields \ F : ses'[s][f] = ses[s][f]

LEMMA CloseMarksOnly ==
  ASSUME TypeInv, NEW t \in Callers, CloseMarks(t)
  PROVE  /\ call[t].ses \in Attempts /\ Only(call[t].ses, {"closing"})
         /\ ses'[call[t].ses].closing = TRUE
  <1>1. call[t].ses \in Attempts /\ ses \in [Attempts -> Session] /\ ses' \in [Attempts -> Session] /\ ses[call[t].ses] \in Session
    BY CloseMarksKeeps DEF TypeInv, PeersOK
  <1>2. PICK r \in Session : r = ses[call[t].ses]
    BY <1>1
  <1>3. ses'[call[t].ses] = [r EXCEPT !.closing = TRUE] /\ \A x \in Attempts : x # call[t].ses => ses'[x] = ses[x]
    BY <1>2, CloseMarksKeeps
  <1> QED BY <1>1, <1>2, <1>3 DEF Only, Fields, Session

LEMMA CloseStopsStreamOnly ==
  ASSUME TypeInv, NEW t \in Callers, CloseStopsStream(t)
  PROVE  /\ call[t].ses \in Attempts /\ Only(call[t].ses, {"sending"})
         /\ ses'[call[t].ses].sending = FALSE
  <1>1. call[t].ses \in Attempts /\ ses \in [Attempts -> Session] /\ ses' \in [Attempts -> Session] /\ ses[call[t].ses] \in Session
    BY CloseStopsStreamKeeps DEF TypeInv, PeersOK
  <1>2. PICK r \in Session : r = ses[call[t].ses]
    BY <1>1
  <1>3. ses'[call[t].ses] = [r EXCEPT !.sending = FALSE] /\ \A x \in Attempts : x # call[t].ses => ses'[x] = ses[x]
    BY <1>2, CloseStopsStreamKeeps
  <1> QED BY <1>1, <1>2, <1>3 DEF Only, Fields, Session

LEMMA CloseJoinsSenderOnly ==
  ASSUME TypeInv, NEW t \in Callers, CloseJoinsSender(t)
  PROVE  /\ call[t].ses \in Attempts /\ Only(call[t].ses, {"quitBit"})
         /\ ses'[call[t].ses].quitBit = FALSE
  <1>1. call[t].ses \in Attempts /\ ses \in [Attempts -> Session] /\ ses' \in [Attempts -> Session] /\ ses[call[t].ses] \in Session
    BY CloseJoinsSenderKeeps DEF TypeInv, PeersOK
  <1>2. PICK r \in Session : r = ses[call[t].ses]
    BY <1>1
  <1>3. ses'[call[t].ses] = [r EXCEPT !.quitBit = FALSE] /\ \A x \in Attempts : x # call[t].ses => ses'[x] = ses[x]
    BY <1>2, CloseJoinsSenderKeeps
  <1> QED BY <1>1, <1>2, <1>3 DEF Only, Fields, Session

LEMMA ClosePeerOnly ==
  ASSUME TypeInv, NEW t \in Callers, ClosePeer(t)
  PROVE  /\ call[t].ses \in Attempts /\ Only(call[t].ses, {"running"})
         /\ ses'[call[t].ses].running = FALSE
  <1>1. call[t].ses \in Attempts /\ ses \in [Attempts -> Session] /\ ses' \in [Attempts -> Session] /\ ses[call[t].ses] \in Session
    BY ClosePeerKeeps DEF TypeInv, PeersOK
  <1>2. PICK r \in Session : r = ses[call[t].ses]
    BY <1>1
  <1>3. ses'[call[t].ses] = [r EXCEPT !.running = FALSE] /\ \A x \in Attempts : x # call[t].ses => ses'[x] = ses[x]
    BY <1>2, ClosePeerKeeps
  <1> QED BY <1>1, <1>2, <1>3 DEF Only, Fields, Session

LEMMA CloseJoinsPeerOnly ==
  ASSUME TypeInv, NEW t \in Callers, CloseJoinsPeer(t)
  PROVE  /\ call[t].ses \in Attempts /\ Only(call[t].ses, {"exitBit", "chan"})
         /\ ses'[call[t].ses].exitBit = FALSE
         /\ ses'[call[t].ses].chan \in {ses[call[t].ses].chan, "closed"}
  <1>1. call[t].ses \in Attempts /\ ses \in [Attempts -> Session] /\ ses' \in [Attempts -> Session] /\ ses[call[t].ses] \in Session
    BY CloseJoinsPeerKeeps DEF TypeInv, PeersOK
  <1>2. \A x \in Attempts : x # call[t].ses => ses'[x] = ses[x]
    BY CloseJoinsPeerKeeps
  <1>3. CASE ses'[call[t].ses] = [ses[call[t].ses] EXCEPT !.exitBit = FALSE]
    BY <1>1, <1>2, <1>3 DEF Only, Fields, Session
  <1>4. CASE ses'[call[t].ses] = [ses[call[t].ses] EXCEPT !.exitBit = FALSE, !.chan = "closed"]
    BY <1>1, <1>2, <1>4 DEF Only, Fields, Session
  <1> QED BY <1>3, <1>4, CloseJoinsPeerKeeps

LEMMA CloseFreesOnly ==
  ASSUME TypeInv, NEW t \in Callers, CloseFrees(t)
  PROVE  /\ call[t].ses \in Attempts /\ Only(call[t].ses, Fields \ {"peer", "sender"})
         /\ ses'[call[t].ses].sending = (ses[call[t].ses].sender /\ ses[call[t].ses].sending)
         /\ ses'[call[t].ses].life = "freed" /\ ses'[call[t].ses].gen = 0 /\ ses'[call[t].ses].media = 0
         /\ ses'[call[t].ses].closing = FALSE /\ ses'[call[t].ses].running = FALSE
         /\ ses'[call[t].ses].todo = <<>> /\ ses'[call[t].ses].phase = "new"
         /\ ses'[call[t].ses].exitBit = FALSE /\ ses'[call[t].ses].chan = "new"
         /\ ses'[call[t].ses].conf = "no" /\ ses'[call[t].ses].quitBit = FALSE
  <1>1. /\ call[t].ses \in Attempts /\ ses \in [Attempts -> Session] /\ ses' \in [Attempts -> Session]
        /\ ses[call[t].ses] \in Session
    BY CloseFreesKeeps DEF TypeInv, PeersOK
  <1> DEFINE r == ses'[call[t].ses]
  <1>2. /\ r.life = "freed" /\ r.gen = 0 /\ r.media = 0 /\ r.closing = FALSE /\ r.running = FALSE
        /\ r.todo = <<>> /\ r.phase = "new" /\ r.exitBit = FALSE /\ r.chan = "new"
        /\ r.conf = "no" /\ r.quitBit = FALSE
        /\ r.peer = ses[call[t].ses].peer /\ r.sender = ses[call[t].ses].sender
        /\ r.sending = (ses[call[t].ses].sender /\ ses[call[t].ses].sending)
    <2> DEFINE c == Closed
    <2>1. /\ c.gen = 0 /\ c.media = 0 /\ c.closing = FALSE /\ c.running = FALSE
          /\ c.todo = <<>> /\ c.phase = "new" /\ c.exitBit = FALSE /\ c.chan = "new"
          /\ c.conf = "no" /\ c.quitBit = FALSE /\ c \in Session
      BY ClosedSession DEF Closed
    <2>2. r = [c EXCEPT !.life = "freed", !.peer = ses[call[t].ses].peer,
                        !.sender = ses[call[t].ses].sender,
                             !.sending = ses[call[t].ses].sender /\ ses[call[t].ses].sending]
      BY CloseFreesKeeps
    <2> HIDE DEF c, r
    <2> QED BY <2>1, <2>2 DEF Session
  <1>3. \A x \in Attempts : x # call[t].ses => ses'[x] = ses[x]
    BY CloseFreesKeeps
  <1>4. \A f \in Fields \ (Fields \ {"peer", "sender"}) : r[f] = ses[call[t].ses][f]
    BY <1>2
  <1>5. Only(call[t].ses, Fields \ {"peer", "sender"})
    BY <1>1, <1>3, <1>4 DEF Only
  <1> QED BY <1>1, <1>2, <1>5

LEMMA StartTakesOnly ==
  ASSUME TypeInv, StartTakes, gen' # gen
  PROVE  /\ att \in Attempts /\ Only(att, {"gen"})
         /\ ses'[att].gen = gen + 1
  <1>1. att \in Attempts /\ ses \in [Attempts -> Session] /\ ses' \in [Attempts -> Session] /\ ses[att] \in Session
    BY StartTakesKeeps DEF TypeInv, PeersOK
  <1> QED BY <1>1, StartTakesKeeps DEF Only, Fields, Session

LEMMA StartOpensOnly ==
  ASSUME TypeInv, StartOpens
  PROVE  /\ att \in Attempts /\ Only(att, {"life", "media"})
         /\ ses'[att].life = "open" /\ ses'[att].media = media
  <1>1. att \in Attempts /\ ses \in [Attempts -> Session] /\ ses' \in [Attempts -> Session] /\ ses[att] \in Session
    BY StartOpensKeeps DEF TypeInv, PeersOK
  <1> QED BY <1>1, StartOpensKeeps DEF Only, Fields, Session

LEMMA StartStartsOnly ==
  ASSUME TypeInv, StartStarts
  PROVE  /\ att \in Attempts /\ Only(att, {"closing", "running", "peer"})
         /\ ses'[att].closing = FALSE
         /\ \/ ses'[att].running = TRUE /\ ses'[att].peer = "loop"
            \/ ses'[att].peer = ses[att].peer
  <1>1. att \in Attempts /\ ses \in [Attempts -> Session] /\ ses' \in [Attempts -> Session] /\ ses[att] \in Session
    BY StartStartsKeeps DEF TypeInv, PeersOK
  <1>2. PICK r \in Session : r = ses[att]
    BY <1>1
  <1>3. \A x \in Attempts : x # att => ses'[x] = ses[x]
    BY StartStartsKeeps
  <1>4. ASSUME NEW q, NEW running, NEW peer, ses'[att] = q,
               q = [r EXCEPT !.closing = FALSE, !.running = running, !.peer = peer],
               (running = TRUE /\ peer = "loop") \/ peer = r.peer
        PROVE  /\ Only(att, {"closing", "running", "peer"})
               /\ ses'[att].closing = FALSE
               /\ \/ ses'[att].running = TRUE /\ ses'[att].peer = "loop"
                  \/ ses'[att].peer = ses[att].peer
    <2>1. /\ \A f \in Fields \ {"closing", "running", "peer"} : q[f] = r[f]
          /\ q.closing = FALSE /\ q.running = running /\ q.peer = peer
      BY <1>4 DEF Session, Fields
    <2> QED BY <1>1, <1>2, <1>3, <1>4, <2>1 DEF Only
  <1>5. CASE ses'[att] = [ses[att] EXCEPT !.closing = FALSE, !.running = TRUE, !.peer = "loop"]
    BY <1>1, <1>2, <1>4, <1>5
  <1>6. CASE ses'[att] = [ses[att] EXCEPT !.closing = FALSE]
    <2>1. ses'[att] = [r EXCEPT !.closing = FALSE, !.running = r.running, !.peer = r.peer]
      BY <1>2, <1>6 DEF Session
    <2> QED BY <1>1, <1>4, <2>1
  <1>7. ASSUME NEW opened \in BOOLEAN, ses'[att] = [ses[att] EXCEPT !.closing = FALSE, !.running = opened]
        PROVE  /\ Only(att, {"closing", "running", "peer"})
               /\ ses'[att].closing = FALSE
               /\ \/ ses'[att].running = TRUE /\ ses'[att].peer = "loop"
                  \/ ses'[att].peer = ses[att].peer
    <2>1. ses'[att] = [r EXCEPT !.closing = FALSE, !.running = opened, !.peer = r.peer]
      BY <1>2, <1>7 DEF Session
    <2> QED BY <1>1, <1>4, <2>1
  <1> QED BY <1>1, <1>5, <1>6, <1>7, StartStartsKeeps

LEMMA UpdateSendsOnly ==
  ASSUME TypeInv, NEW g \in Gens, UpdateSends(g), ses' # ses
  PROVE  /\ handle \in Attempts /\ Only(handle, {"conf"}) /\ ses'[handle].conf = "sent"
  <1>1. UpdateSends(g) => Sendable \/ ses' = ses
    BY DEF UpdateSends
  <1>2. /\ handle \in Attempts /\ ses \in [Attempts -> Session] /\ ses' \in [Attempts -> Session]
        /\ ses[handle] \in Session
    BY <1>1, UpdateSendsKeeps DEF TypeInv, PeersOK
  <1>3. ses'[handle] # ses[handle]
    <2> SUFFICES ASSUME ses'[handle] = ses[handle] PROVE FALSE
      OBVIOUS
    <2>1. \A x \in Attempts : ses'[x] = ses[x]
      BY <1>1, UpdateSendsKeeps
    <2> QED BY <1>2, <2>1
  <1>4. ses'[handle] = [ses[handle] EXCEPT !.conf = "sent"]
    BY <1>1, <1>3, UpdateSendsKeeps
  <1>5. ses'[handle].conf = "sent" /\ \A f \in Fields \ {"conf"} : ses'[handle][f] = ses[handle][f]
    BY <1>2, <1>4 DEF Fields, Session
  <1> QED BY <1>1, <1>2, <1>5, UpdateSendsKeeps DEF Only

LEMMA PeerConnectsOnly ==
  ASSUME TypeInv, NEW s \in Attempts, PeerConnects(s)
  PROVE  Only(s, {"phase", "todo"}) /\ ses'[s].phase = "connected"
  <1>1. ses \in [Attempts -> Session] /\ ses' \in [Attempts -> Session] /\ ses[s] \in Session
    BY PeerConnectsServes DEF TypeInv, PeersOK, Serves
  <1>2. \A x \in Attempts : x # s => ses'[x] = ses[x]
    BY PeerConnectsServes DEF TypeInv, Serves
  <1>3. ses'[s] = [ses[s] EXCEPT !.phase = "connected", !.todo = ses'[s].todo]
    BY <1>1 DEF PeerConnects
  <1> QED BY <1>1, <1>2, <1>3 DEF Only, Fields, Session

LEMMA PeerFailsOnly ==
  ASSUME TypeInv, NEW s \in Attempts, PeerFails(s)
  PROVE  Only(s, {"phase", "todo"}) /\ ses'[s].phase = "over"
  <1>1. ses \in [Attempts -> Session] /\ ses' \in [Attempts -> Session] /\ ses[s] \in Session
    BY PeerFailsServes DEF TypeInv, PeersOK, Serves
  <1>2. \A x \in Attempts : x # s => ses'[x] = ses[x]
    BY PeerFailsServes DEF TypeInv, Serves
  <1>3. ses'[s] = [ses[s] EXCEPT !.phase = "over", !.todo = ses'[s].todo]
    BY <1>1 DEF PeerFails
  <1> QED BY <1>1, <1>2, <1>3 DEF Only, Fields, Session

LEMMA PeerOpensChannelOnly ==
  ASSUME TypeInv, NEW s \in Attempts, PeerOpensChannel(s)
  PROVE  Only(s, {"chan", "todo"}) /\ ses'[s].chan = "open"
  <1>1. ses \in [Attempts -> Session] /\ ses' \in [Attempts -> Session] /\ ses[s] \in Session
    BY PeerOpensChannelServes DEF TypeInv, PeersOK, Serves
  <1>2. \A x \in Attempts : x # s => ses'[x] = ses[x]
    BY PeerOpensChannelServes DEF TypeInv, Serves
  <1>3. ses'[s] = [ses[s] EXCEPT !.chan = "open", !.todo = ses'[s].todo]
    BY <1>1 DEF PeerOpensChannel
  <1> QED BY <1>1, <1>2, <1>3 DEF Only, Fields, Session

LEMMA PeerLosesChannelOnly ==
  ASSUME TypeInv, NEW s \in Attempts, PeerLosesChannel(s)
  PROVE  Only(s, {"chan", "todo"}) /\ ses'[s].chan = "closed"
  <1>1. ses \in [Attempts -> Session] /\ ses' \in [Attempts -> Session] /\ ses[s] \in Session
    BY PeerLosesChannelServes DEF TypeInv, PeersOK, Serves
  <1>2. \A x \in Attempts : x # s => ses'[x] = ses[x]
    BY PeerLosesChannelServes DEF TypeInv, Serves
  <1>3. ses'[s] = [ses[s] EXCEPT !.chan = "closed", !.todo = ses'[s].todo]
    BY <1>1 DEF PeerLosesChannel
  <1> QED BY <1>1, <1>2, <1>3 DEF Only, Fields, Session

LEMMA PeerDisconnectsOnly ==
  ASSUME TypeInv, NEW s \in Attempts, PeerDisconnects(s)
  PROVE  Only(s, {"phase", "chan", "todo"}) /\ ses'[s].phase = "over" /\ ses'[s].chan # "open"
  <1>1. ses \in [Attempts -> Session] /\ ses' \in [Attempts -> Session] /\ ses[s] \in Session
    BY PeerDisconnectsServes DEF TypeInv, PeersOK, Serves
  <1>2. \A x \in Attempts : x # s => ses'[x] = ses[x]
    BY PeerDisconnectsServes DEF TypeInv, Serves
  <1>3. ses'[s] = [ses[s] EXCEPT !.phase = "over", !.chan = AfterOpen(s),
                                  !.todo = ses'[s].todo]
    BY <1>1 DEF PeerDisconnects
  <1> QED BY <1>1, <1>2, <1>3 DEF Only, Fields, Session, AfterOpen

LEMMA ServerAnswersOnly ==
  ASSUME TypeInv, NEW s \in Attempts, ServerAnswers(s)
  PROVE  Only(s, {"conf", "todo"}) /\ ses'[s].conf = "answered"
  <1>1. ses \in [Attempts -> Session] /\ ses' \in [Attempts -> Session] /\ ses[s] \in Session
    BY ServerAnswersServes DEF TypeInv, PeersOK, Serves
  <1>2. \A x \in Attempts : x # s => ses'[x] = ses[x]
    BY ServerAnswersServes DEF TypeInv, Serves
  <1>3. ses'[s] = [ses[s] EXCEPT !.conf = "answered", !.todo = ses'[s].todo]
    BY <1>1 DEF ServerAnswers
  <1> QED BY <1>1, <1>2, <1>3 DEF Only, Fields, Session

LEMMA StreamStartsOnly ==
  ASSUME TypeInv, NEW s \in Attempts, StreamStarts(s)
  PROVE  Only(s, {"sending", "todo"})
  <1>1. ses \in [Attempts -> Session] /\ ses' \in [Attempts -> Session] /\ ses[s] \in Session
    BY StreamStartsServes DEF TypeInv, PeersOK, Serves
  <1>2. \A x \in Attempts : x # s => ses'[x] = ses[x]
    BY StreamStartsServes DEF TypeInv, Serves
  <1>3. \/ ses'[s] = [ses[s] EXCEPT !.sending = TRUE, !.todo = ses'[s].todo]
        \/ ses'[s] = [ses[s] EXCEPT !.todo = ses'[s].todo]
    BY StreamStartsServes DEF TypeInv
  <1>4. \A f \in Fields \ {"sending", "todo"} : ses'[s][f] = ses[s][f]
    BY <1>1, <1>3 DEF Fields, Session
  <1> QED BY <1>1, <1>2, <1>3, <1>4 DEF Only, Fields, Session

LEMMA SenderSpawnsOnly ==
  ASSUME TypeInv, NEW s \in Attempts, SenderSpawns(s)
  PROVE  Only(s, {"sending", "sender", "todo"})
  <1>1. ses \in [Attempts -> Session] /\ ses' \in [Attempts -> Session] /\ ses[s] \in Session
    BY SenderSpawnsServes DEF TypeInv, PeersOK, Serves
  <1>2. \A x \in Attempts : x # s => ses'[x] = ses[x]
    BY SenderSpawnsServes DEF TypeInv, Serves
  <1>3. \/ ses'[s] = [ses[s] EXCEPT !.sender = TRUE, !.todo = ses'[s].todo]
        \/ ses'[s] = [ses[s] EXCEPT !.sending = FALSE, !.todo = ses'[s].todo]
    BY SenderSpawnsServes DEF TypeInv
  <1>4. \A f \in Fields \ {"sending", "sender", "todo"} : ses'[s][f] = ses[s][f]
    BY <1>1, <1>3 DEF Fields, Session
  <1> QED BY <1>1, <1>2, <1>3, <1>4 DEF Only, Fields, Session

LEMMA StreamTestedOnly ==
  ASSUME TypeInv, NEW s \in Attempts, StreamTested(s)
  PROVE  Only(s, {"todo"})
  <1>1. ses \in [Attempts -> Session] /\ ses' \in [Attempts -> Session] /\ ses[s] \in Session
    BY StreamTestedServes DEF TypeInv, PeersOK, Serves
  <1>2. \A x \in Attempts : x # s => ses'[x] = ses[x]
    BY StreamTestedServes DEF TypeInv, Serves
  <1>3. ses'[s] = [ses[s] EXCEPT !.todo = ses'[s].todo]
    BY <1>1 DEF StreamTested
  <1> QED BY <1>1, <1>2, <1>3 DEF Only, Fields, Session

LEMMA StreamStopsOnly ==
  ASSUME TypeInv, NEW s \in Attempts, StreamStops(s)
  PROVE  Only(s, {"sending", "todo"}) /\ ses'[s].sending = FALSE
  <1>1. ses \in [Attempts -> Session] /\ ses' \in [Attempts -> Session] /\ ses[s] \in Session
    BY StreamStopsServes DEF TypeInv, PeersOK, Serves
  <1>2. \A x \in Attempts : x # s => ses'[x] = ses[x]
    BY StreamStopsServes DEF TypeInv, Serves
  <1>3. ses'[s] = [ses[s] EXCEPT !.sending = FALSE, !.todo = ses'[s].todo]
    BY <1>1 DEF StreamStops
  <1> QED BY <1>1, <1>2, <1>3 DEF Only, Fields, Session

LEMMA PeerJoinsSenderOnly ==
  ASSUME TypeInv, NEW s \in Attempts, PeerJoinsSender(s)
  PROVE  Only(s, {"quitBit", "todo"}) /\ ses'[s].quitBit = FALSE
  <1>1. ses \in [Attempts -> Session] /\ ses' \in [Attempts -> Session] /\ ses[s] \in Session
    BY PeerJoinsSenderServes DEF TypeInv, PeersOK, Serves
  <1>2. \A x \in Attempts : x # s => ses'[x] = ses[x]
    BY PeerJoinsSenderServes DEF TypeInv, Serves
  <1>3. ses'[s] = [ses[s] EXCEPT !.quitBit = FALSE, !.todo = Tail(@)]
    BY <1>1 DEF PeerJoinsSender
  <1> QED BY <1>1, <1>2, <1>3 DEF Only, Fields, Session

LEMMA CallbackChecksOnly ==
  ASSUME TypeInv, NEW s \in Attempts, CallbackChecks(s)
  PROVE  Only(s, {"todo"})
  <1>1. ses \in [Attempts -> Session] /\ ses' \in [Attempts -> Session] /\ ses[s] \in Session
    BY CallbackChecksServes DEF TypeInv, PeersOK, Serves
  <1>2. \A x \in Attempts : x # s => ses'[x] = ses[x]
    BY CallbackChecksServes DEF TypeInv, Serves
  <1>3. ses'[s] = [ses[s] EXCEPT !.todo = ses'[s].todo]
    BY <1>1 DEF CallbackChecks
  <1> QED BY <1>1, <1>2, <1>3 DEF Only, Fields, Session

LEMMA CallbackSchedulesOnly ==
  ASSUME TypeInv, NEW s \in Attempts, CallbackSchedules(s)
  PROVE  Only(s, {"todo"})
  <1>1. ses \in [Attempts -> Session] /\ ses' \in [Attempts -> Session] /\ ses[s] \in Session
    BY CallbackSchedulesServes DEF TypeInv, PeersOK, Serves
  <1>2. \A x \in Attempts : x # s => ses'[x] = ses[x]
    BY CallbackSchedulesServes DEF TypeInv, Serves
  <1>3. ses'[s] = [ses[s] EXCEPT !.todo = ses'[s].todo]
    BY <1>1 DEF CallbackSchedules
  <1> QED BY <1>1, <1>2, <1>3 DEF Only, Fields, Session

LEMMA CallbackReportsDownOnly ==
  ASSUME TypeInv, NEW s \in Attempts, CallbackReportsDown(s)
  PROVE  Only(s, {"todo"})
  <1>1. ses \in [Attempts -> Session] /\ ses' \in [Attempts -> Session] /\ ses[s] \in Session
    BY CallbackReportsDownServes DEF TypeInv, PeersOK, Serves
  <1>2. \A x \in Attempts : x # s => ses'[x] = ses[x]
    BY CallbackReportsDownServes DEF TypeInv, Serves
  <1>3. ses'[s] = [ses[s] EXCEPT !.todo = ses'[s].todo]
    BY <1>1 DEF CallbackReportsDown
  <1> QED BY <1>1, <1>2, <1>3 DEF Only, Fields, Session

LEMMA CallbackReportsReadyOnly ==
  ASSUME TypeInv, NEW s \in Attempts, CallbackReportsReady(s)
  PROVE  Only(s, {"todo"})
  <1>1. ses \in [Attempts -> Session] /\ ses' \in [Attempts -> Session] /\ ses[s] \in Session
    BY CallbackReportsReadyServes DEF TypeInv, PeersOK, Serves
  <1>2. \A x \in Attempts : x # s => ses'[x] = ses[x]
    BY CallbackReportsReadyServes DEF TypeInv, Serves
  <1>3. ses'[s] = [ses[s] EXCEPT !.todo = ses'[s].todo]
    BY <1>1 DEF CallbackReportsReady
  <1> QED BY <1>1, <1>2, <1>3 DEF Only, Fields, Session

LEMMA PeerExitsOnly ==
  ASSUME TypeInv, NEW s \in Attempts, PeerExits(s)
  PROVE  Only(s, {"peer", "exitBit"}) /\ ses'[s].peer = "gone" /\ ses'[s].exitBit = TRUE
  <1>1. ses \in [Attempts -> Session] /\ ses' \in [Attempts -> Session] /\ ses[s] \in Session
    BY PeerExitsServes DEF TypeInv, PeersOK, Serves
  <1>2. \A x \in Attempts : x # s => ses'[x] = ses[x]
    BY PeerExitsServes DEF TypeInv, Serves
  <1>3. ses'[s] = [ses[s] EXCEPT !.peer = "gone", !.exitBit = TRUE]
    BY <1>1 DEF PeerExits
  <1> QED BY <1>1, <1>2, <1>3 DEF Only, Fields, Session

LEMMA SenderExitsOnly ==
  ASSUME TypeInv, NEW s \in Attempts, SenderExits(s)
  PROVE  Only(s, {"sender", "quitBit"}) /\ ses'[s].sender = FALSE /\ ses'[s].quitBit = TRUE
  <1>1. ses \in [Attempts -> Session] /\ ses' \in [Attempts -> Session] /\ ses[s] \in Session
    BY SenderExitsServes DEF TypeInv, PeersOK, Serves
  <1>2. \A x \in Attempts : x # s => ses'[x] = ses[x]
    BY SenderExitsServes DEF TypeInv, Serves
  <1>3. ses'[s] = [ses[s] EXCEPT !.sender = FALSE, !.quitBit = TRUE]
    BY <1>1 DEF SenderExits
  <1> QED BY <1>1, <1>2, <1>3 DEF Only, Fields, Session

-----------------------------------------------------------------------------
(* The session in use                                                      *)

Queued(q) == \E i \in DOMAIN q : q[i].ev = "stopped"
NoOverlap == "overlap" \notin mishaps
Calm == "overlap" \notin mishaps /\ "unstopped" \notin mishaps
\* The stop task is between its creation and its event.
Works == Now("stop") \in CloseHeads \cup {"take", "teardown", "post"}

Stages ==
  /\ Aim("orch") \in {"start", "fail"} => orch = "igniting"
  /\ Aim("orch") = "teardown" => orch = "idle"

\* Nobody but its owner has to do with the session in use, and the two callers
\* never close the same one unless the start of it has failed.
InUse ==
  /\ handle <= att /\ \A t \in Callers : call[t].ses <= att
  /\ handle # 0 => ses[handle].life = "open"
  /\ \A t \in Callers : Now(t) \notin {"none", "take", "start"} /\ handle # 0 => call[t].ses # handle
  /\ Now("orch") \in {"begin", "start"} \/ Aim("orch") = "fail" => call["orch"].ses = att
  /\ Closing("orch") /\ Aim("orch") = "start" => call["orch"].ses # att
  /\ Now("orch") \in {"begin", "open"} \/ (Closing("orch") /\ Aim("orch") = "start") => call["stop"].ses # att
  /\ Aim("orch") = "start" /\ Now("orch") \notin {"begin", "start"} => handle = 0
  /\ Aim("orch") = "teardown" /\ Now("orch") # "take" => handle = 0
  /\ Closing("orch") /\ Closing("stop") /\ Aim("orch") # "fail" => call["orch"].ses # call["stop"].ses

\* WEBRTC_STOPPED comes when there is nothing left to stop.
Order ==
  /\ NoOverlap =>
       /\ Works => orch = "stopping" /\ ~Queued(inbox)
       /\ Queued(inbox) => orch \in {"stopping", "idle"}
       /\ Works /\ Now("stop") # "take" => handle = 0
       /\ Now("orch") = "start" => handle = att
  /\ Calm =>
       /\ Queued(inbox) => handle = 0
       /\ orch = "idle" /\ Now("orch") # "take" => handle = 0
       /\ handle # 0 => handle = att

UseInv == Stages /\ InUse /\ Order

LEMMA QueuedAppend ==
  ASSUME NEW q \in Seq(Events), NEW e \in Events
  PROVE  Queued(Append(q, e)) <=> Queued(q) \/ e.ev = "stopped"
  <1>1. /\ Len(Append(q, e)) = Len(q) + 1 /\ Len(q) \in Nat
        /\ \A i \in 1 .. Len(q) : Append(q, e)[i] = q[i]
        /\ Append(q, e)[Len(q) + 1] = e
        /\ DOMAIN q = 1 .. Len(q) /\ DOMAIN Append(q, e) = 1 .. Len(q) + 1
    OBVIOUS
  <1>2. \A i \in 1 .. Len(q) + 1 : i \in 1 .. Len(q) \/ i = Len(q) + 1
    BY <1>1
  <1>3. \A i \in 1 .. Len(q) : i \in 1 .. Len(q) + 1
    BY <1>1
  <1>4. Len(q) + 1 \in 1 .. Len(q) + 1
    BY <1>1
  <1> QED BY <1>1, <1>2, <1>3, <1>4 DEF Queued

LEMMA QueuedTail ==
  ASSUME NEW q \in Seq(Events), q # <<>>
  PROVE  /\ Queued(Tail(q)) => Queued(q)
         /\ Head(q).ev = "stopped" => Queued(q)
  <1>1. /\ Len(Tail(q)) = Len(q) - 1 /\ Len(q) \in Nat /\ Len(q) >= 1
        /\ \A i \in 1 .. Len(q) - 1 : Tail(q)[i] = q[i + 1] /\ i + 1 \in 1 .. Len(q)
        /\ DOMAIN q = 1 .. Len(q) /\ DOMAIN Tail(q) = 1 .. Len(q) - 1
        /\ Head(q) = q[1] /\ 1 \in 1 .. Len(q)
    OBVIOUS
  <1> QED BY <1>1 DEF Queued

LEMMA QueuedPost ==
  ASSUME TypeInv, NEW q \in Seq(Events), NEW ev \in {"ready", "down", "stopped"},
         NEW s \in 0 .. MaxAttempts
  PROVE  Queued(Append(q, Event(ev, s))) <=> Queued(q) \/ ev = "stopped"
  <1>1. Event(ev, s) \in Events /\ Event(ev, s).ev = ev
    BY DEF Event, Events
  <1> QED BY <1>1, QueuedAppend

\* A step that is not about the session in use.
LEMMA UseKept ==
  ASSUME TypeInv, UseInv, UNCHANGED <<orch, att, call, handle>>, mishaps \subseteq mishaps',
         Queued(inbox') <=> Queued(inbox), \A x \in Attempts : ses'[x].life = ses[x].life
  PROVE  UseInv'
  <1>1. handle # 0 => handle \in Attempts
    BY BoundsAssumption DEF TypeInv, PlainOK, Attempts
  <1>2. Stages' /\ InUse'
    BY <1>1 DEF UseInv, Stages, InUse, Now, Aim, Closing
  <1>3. Order'
    BY DEF UseInv, Order, Now, Works, NoOverlap, Calm
  <1> QED BY <1>2, <1>3 DEF UseInv

\* A caller goes on closing a session.
LEMMA UseClosing ==
  ASSUME TypeInv, UseInv, NEW t \in Callers, Closing(t), NEW f \in CloseHeads, NEW ahead,
         Goes(t, f, Aim(t), call[t].ses, ahead),
         UNCHANGED <<orch, att, inbox, handle>>, mishaps \subseteq mishaps',
         \A x \in Attempts : ses'[x].life = ses[x].life
  PROVE  UseInv'
  <1>1. handle # 0 => handle \in Attempts
    BY BoundsAssumption DEF TypeInv, PlainOK, Attempts
  <1>2. CASE t = "orch"
    <2>1. /\ Now("orch")' \in CloseHeads /\ Aim("orch")' = Aim("orch")
          /\ call'["orch"].ses = call["orch"].ses /\ call'["stop"] = call["stop"]
          /\ Now("stop")' = Now("stop") /\ Now("orch") \in CloseHeads
      BY <1>2 DEF Goes, Now, Aim, Callers, Closing
    <2>2. Stages' /\ InUse'
      BY <1>1, <1>2, <2>1 DEF UseInv, Stages, InUse, Closing, Callers, CloseHeads
    <2>3. Order'
      BY <1>2, <2>1 DEF UseInv, Order, Works, NoOverlap, Calm, CloseHeads
    <2> QED BY <2>2, <2>3 DEF UseInv
  <1>3. CASE t = "stop"
    <2>1. /\ Now("stop")' \in CloseHeads /\ Aim("orch")' = Aim("orch")
          /\ call'["stop"].ses = call["stop"].ses /\ call'["orch"] = call["orch"]
          /\ Now("orch")' = Now("orch") /\ Now("stop") \in CloseHeads
      BY <1>3 DEF Goes, Now, Aim, Callers, Closing
    <2>2. Stages' /\ InUse'
      BY <1>1, <1>3, <2>1 DEF UseInv, Stages, InUse, Closing, Callers, CloseHeads
    <2>3. Order'
      BY <1>3, <2>1 DEF UseInv, Order, Works, NoOverlap, Calm, CloseHeads
    <2> QED BY <2>2, <2>3 DEF UseInv
  <1> QED BY <1>2, <1>3 DEF Callers

\* What a caller comes to, and that the other one stays where it is.
LEMMA OrchTurns ==
  ASSUME NEW f, NEW l, NEW s, NEW ahead, Goes("orch", f, l, s, ahead)
  PROVE  /\ Now("orch")' = f /\ Aim("orch")' = l /\ Way("orch")' = ahead /\ call'["orch"].ses = s
         /\ call'["stop"] = call["stop"]
         /\ Now("stop")' = Now("stop") /\ Aim("stop")' = Aim("stop") /\ Way("stop")' = Way("stop")
  BY DEF Goes, Now, Aim, Way, Callers

LEMMA StopTurns ==
  ASSUME NEW f, NEW l, NEW s, NEW ahead, Goes("stop", f, l, s, ahead)
  PROVE  /\ Now("stop")' = f /\ Aim("stop")' = l /\ Way("stop")' = ahead /\ call'["stop"].ses = s
         /\ call'["orch"] = call["orch"]
         /\ Now("orch")' = Now("orch") /\ Aim("orch")' = Aim("orch") /\ Way("orch")' = Way("orch")
  BY DEF Goes, Now, Aim, Way, Callers

LEMMA CallersAt ==
  ASSUME TypeInv
  PROVE  /\ Now("orch") \in CloseHeads \cup {"none", "begin", "open", "start", "fail", "take", "teardown"}
         /\ Aim("orch") \in {"none", "start", "fail", "teardown"}
         /\ Now("orch") \in {"take", "teardown"} => Aim("orch") = "teardown"
         /\ Now("stop") \in CloseHeads \cup {"none", "take", "teardown", "post", "exit"}
         /\ Aim("stop") \in {"none", "exit"}
         /\ Now("orch") \in {"begin", "open", "start"} => Aim("orch") = "start"
         /\ Now("orch") = "fail" => Aim("orch") = "fail"
         /\ Now("orch") = "none" <=> Aim("orch") = "none"
         /\ \A t \in Callers : Way(t) = "peer" => Now(t) \in CloseHeads \ {"free"}
         /\ \A t \in Callers : Now(t) \in {"mark", "peer", "waitPeer"} => Way(t) = "peer"
         /\ \A t \in Callers : Way(t) \in {"peer", "free"}
  <1>1. "orch" \in Callers /\ "stop" \in Callers /\ \A t \in Callers : call[t].todo \in Shapes(t)
    BY DEF Callers, TypeInv, CallsOK
  <1>2. CloseHeads \cap {"none", "begin", "open", "start", "fail", "take", "teardown", "post", "exit"} = {}
    BY DEF CloseHeads
  <1> QED BY <1>1, <1>2, Stage DEF Now, Aim, Way

LEMMA InRange ==
  ASSUME TypeInv
  PROVE  /\ handle \in 0 .. MaxAttempts /\ att \in 0 .. MaxAttempts /\ MaxAttempts \in Nat
         /\ handle # 0 => handle \in Attempts
         /\ \A t \in Callers : call[t].ses \in 0 .. MaxAttempts
         /\ "orch" \in Callers /\ "stop" \in Callers
  BY BoundsAssumption DEF TypeInv, PlainOK, Attempts, CallsOK, Callers

LEMMA StopTakesUse ==
  ASSUME TypeInv, UseInv, NEW t \in Callers, StopTakes(t)
  PROVE  UseInv'
  <1>1. /\ handle' = 0 /\ UNCHANGED <<orch, inbox, att, ses, mishaps>>
    BY DEF StopTakes, TakeSession
  <1>2. CASE t = "orch"
    <2>1. /\ Now("orch") = "take" /\ Aim("orch") = "teardown"
          /\ Now("orch")' = IF handle = 0 THEN "teardown" ELSE "mark"
          /\ Aim("orch")' = "teardown" /\ call'["orch"].ses = handle
          /\ call'["stop"] = call["stop"] /\ Now("stop")' = Now("stop")
      BY <1>2, StopTakesMoves, OrchTurns, CallersAt, InRange DEF TypeInv
    <2>2. Stages' /\ InUse'
      BY <1>1, <2>1, InRange DEF UseInv, Stages, InUse, Closing, Callers, CloseHeads
    <2>3. Order'
      BY <1>1, <2>1 DEF UseInv, Stages, Order, Works, NoOverlap, Calm, CloseHeads
    <2> QED BY <2>2, <2>3 DEF UseInv
  <1>3. CASE t = "stop"
    <2>1. /\ Now("stop") = "take"
          /\ Now("stop")' = IF handle = 0 THEN "teardown" ELSE "mark"
          /\ call'["stop"].ses = handle /\ Aim("orch")' = Aim("orch")
          /\ call'["orch"] = call["orch"] /\ Now("orch")' = Now("orch")
      BY <1>3, StopTakesMoves, StopTurns, InRange DEF TypeInv
    <2>2. Stages' /\ InUse'
      BY <1>1, <2>1, InRange, CallersAt DEF UseInv, Stages, InUse, Closing, Callers, CloseHeads
    <2>3. Order'
      BY <1>1, <2>1, CallersAt DEF UseInv, Stages, Order, Works, NoOverlap, Calm, CloseHeads
    <2> QED BY <2>2, <2>3 DEF UseInv
  <1> QED BY <1>2, <1>3 DEF Callers

LEMMA StartTakesUse ==
  ASSUME TypeInv, UseInv, StartTakes
  PROVE  UseInv'
  <1>1. UNCHANGED <<orch, inbox, att, mishaps>> /\ Now("orch") = "begin" /\ Aim("orch") = "start"
    BY StartTakesMoves, CallersAt, InRange DEF StartTakes, TypeInv
  <1>l. \A x \in Attempts : ses'[x].life = ses[x].life
    <2>1. CASE gen' = gen
      BY <2>1 DEF StartTakes, TakeSession, TypeInv, PlainOK
    <2>2. CASE gen' # gen
      BY <2>2, StartTakesOnly DEF Only, Fields
    <2> QED BY <2>1, <2>2
  <1>2. CASE TakeSession /\ (handle = 0 => Goes("orch", "open", Aim("orch"), handle, "free"))
             /\ (handle # 0 => Goes("orch", "mark", Aim("orch"), handle, "peer"))
    <2>1. /\ handle' = 0 /\ Now("orch")' = IF handle = 0 THEN "open" ELSE "mark"
          /\ Aim("orch")' = "start" /\ call'["orch"].ses = handle
          /\ call'["stop"] = call["stop"] /\ Now("stop")' = Now("stop")
      BY <1>1, <1>2, OrchTurns DEF TakeSession
    <2>2. Stages' /\ InUse'
      BY <1>1, <2>1, InRange DEF UseInv, Stages, InUse, Closing, Callers, CloseHeads
    <2>3. Order'
      BY <1>1, <2>1 DEF UseInv, Stages, Order, Works, NoOverlap, Calm, CloseHeads
    <2> QED BY <2>2, <2>3 DEF UseInv
  <1>3. CASE UNCHANGED shared /\ Goes("orch", "fail", "fail", call["orch"].ses, "free")
    <2>1. /\ handle' = handle /\ Now("orch")' = "fail"
          /\ Aim("orch")' = "fail" /\ call'["orch"].ses = call["orch"].ses
          /\ call'["stop"] = call["stop"] /\ Now("stop")' = Now("stop")
      BY <1>1, <1>3, OrchTurns
    <2>2. Stages' /\ InUse'
      BY <1>1, <1>l, <2>1, InRange DEF UseInv, Stages, InUse, Closing, Callers, CloseHeads
    <2>3. Order'
      BY <1>1, <2>1 DEF UseInv, Stages, Order, Works, NoOverlap, Calm, CloseHeads
    <2> QED BY <2>2, <2>3 DEF UseInv
  <1> QED BY <1>2, <1>3, StartTakesMoves, InRange DEF TypeInv

LEMMA StartOpensUse ==
  ASSUME TypeInv, UseInv, StartOpens
  PROVE  UseInv'
  <1>1. /\ UNCHANGED <<orch, inbox, att, mishaps>> /\ handle' = att
        /\ Now("orch") = "open" /\ Aim("orch") = "start"
        /\ Now("orch")' = "start" /\ Aim("orch")' = "start" /\ call'["orch"].ses = att
        /\ call'["stop"] = call["stop"] /\ Now("stop")' = Now("stop")
    BY StartOpensMoves, OrchTurns, CallersAt, InRange DEF StartOpens, TypeInv
  <1>2. ses'[att].life = "open"
    BY StartOpensOnly
  <1>3. Stages' /\ InUse'
    BY <1>1, <1>2, InRange DEF UseInv, Stages, InUse, Closing, Callers, CloseHeads
  <1>4. Order'
    BY <1>1 DEF UseInv, Stages, Order, Works, NoOverlap, Calm, CloseHeads
  <1> QED BY <1>3, <1>4 DEF UseInv

LEMMA StartStartsUse ==
  ASSUME TypeInv, UseInv, StartStarts
  PROVE  UseInv'
  <1>1. /\ UNCHANGED <<orch, inbox, att, mishaps>>
        /\ Now("orch") = "start" /\ Aim("orch") = "start"
    BY StartStartsMoves, CallersAt, InRange DEF StartStarts, TypeInv
  <1>l. \A x \in Attempts : ses'[x].life = ses[x].life
    BY StartStartsOnly DEF Only, Fields
  <1>2. CASE Goes("orch", "none", "none", call["orch"].ses, "free") /\ UNCHANGED shared
    <2>1. /\ handle' = handle /\ Now("orch")' = "none" /\ Aim("orch")' = "none"
          /\ call'["orch"].ses = call["orch"].ses
          /\ call'["stop"] = call["stop"] /\ Now("stop")' = Now("stop")
      BY <1>2, OrchTurns
    <2>2. Stages' /\ InUse'
      BY <1>1, <1>l, <2>1, InRange DEF UseInv, Stages, InUse, Closing, Callers, CloseHeads
    <2>3. Order'
      BY <1>1, <2>1 DEF UseInv, Stages, Order, Works, NoOverlap, Calm, CloseHeads
    <2> QED BY <2>2, <2>3 DEF UseInv
  <1>3. CASE Goes("orch", "mark", "fail", att, "peer")
             /\ IF handle = att THEN TakeSession ELSE UNCHANGED shared
    <2>1. /\ handle' = (IF handle = att THEN 0 ELSE handle)
          /\ Now("orch")' = "mark" /\ Aim("orch")' = "fail" /\ call'["orch"].ses = att
          /\ call'["stop"] = call["stop"] /\ Now("stop")' = Now("stop")
      BY <1>3, OrchTurns DEF TakeSession
    <2>2. Stages' /\ InUse'
      BY <1>1, <1>l, <2>1, InRange DEF UseInv, Stages, InUse, Closing, Callers, CloseHeads
    <2>3. Order'
      BY <1>1, <2>1 DEF UseInv, Stages, Order, Works, NoOverlap, Calm, CloseHeads
    <2> QED BY <2>2, <2>3 DEF UseInv
  <1> QED BY <1>2, <1>3, StartStartsMoves, InRange DEF TypeInv

LEMMA StartFailsUse ==
  ASSUME TypeInv, UseInv, StartFails
  PROVE  UseInv'
  <1>1. /\ UNCHANGED <<orch, att, handle, ses, mishaps>>
        /\ Now("orch") = "fail" /\ Aim("orch") = "fail"
        /\ Now("orch")' = "none" /\ Aim("orch")' = "none" /\ call'["orch"].ses = call["orch"].ses
        /\ call'["stop"] = call["stop"] /\ Now("stop")' = Now("stop")
    BY StartFailsMoves, OrchTurns, CallersAt DEF StartFails, TypeInv
  <1>2. Queued(inbox') <=> Queued(inbox)
    BY QueuedPost, InRange DEF StartFails, Post, TypeInv, PlainOK
  <1>3. Stages' /\ InUse'
    BY <1>1, InRange DEF UseInv, Stages, InUse, Closing, Callers, CloseHeads
  <1>4. Order'
    BY <1>1, <1>2 DEF UseInv, Stages, Order, Works, NoOverlap, Calm, CloseHeads
  <1> QED BY <1>3, <1>4 DEF UseInv

LEMMA CloseFreesUse ==
  ASSUME TypeInv, UseInv, NEW t \in Callers, CloseFrees(t)
  PROVE  UseInv'
  <1>1. UNCHANGED <<orch, inbox, att, handle, mishaps>> /\ Now(t) = "free"
        /\ Goes(t, Onward(Aim(t)), Aim(t), call[t].ses, "free")
    BY CloseFreesMoves DEF CloseFrees, TypeInv
  <1>l. \A x \in Attempts : x # call[t].ses => ses'[x].life = ses[x].life
    BY CloseFreesOnly DEF Only
  <1>2. CASE t = "orch"
    <2>1. /\ Now("orch") = "free" /\ Now("orch")' = Onward(Aim("orch"))
          /\ Aim("orch")' = Aim("orch") /\ call'["orch"].ses = call["orch"].ses
          /\ call'["stop"] = call["stop"] /\ Now("stop")' = Now("stop")
      BY <1>1, <1>2, OrchTurns
    <2>2. Aim("orch") \in {"start", "fail", "teardown"}
      BY <2>1, CallersAt
    <2>3. Stages' /\ InUse'
      BY <1>1, <1>2, <1>l, <2>1, <2>2, InRange DEF UseInv, Stages, InUse, Closing, Callers, CloseHeads, Onward
    <2>4. Order'
      BY <1>1, <2>1, <2>2 DEF UseInv, Stages, Order, Works, NoOverlap, Calm, CloseHeads, Onward
    <2> QED BY <2>3, <2>4 DEF UseInv
  <1>3. CASE t = "stop"
    <2>1. Aim("stop") = "exit"
      BY <1>1, <1>3, Stage, InRange DEF TypeInv, CallsOK, Now, Aim
    <2>2. /\ Now("stop") = "free" /\ Now("stop")' = "teardown"
          /\ call'["stop"].ses = call["stop"].ses /\ Aim("orch")' = Aim("orch")
          /\ call'["orch"] = call["orch"] /\ Now("orch")' = Now("orch")
      BY <1>1, <1>3, <2>1, StopTurns DEF Onward
    <2>3. Stages' /\ InUse'
      BY <1>1, <1>3, <1>l, <2>2, InRange DEF UseInv, Stages, InUse, Closing, Callers, CloseHeads
    <2>4. Order'
      BY <1>1, <2>2 DEF UseInv, Stages, Order, Works, NoOverlap, Calm, CloseHeads
    <2> QED BY <2>3, <2>4 DEF UseInv
  <1> QED BY <1>2, <1>3 DEF Callers

LEMMA TearsDownMediaUse ==
  ASSUME TypeInv, UseInv, NEW t \in Callers, TearsDownMedia(t)
  PROVE  UseInv'
  <1>1. UNCHANGED <<orch, inbox, att, handle, ses, mishaps>> /\ Now(t) = "teardown"
    BY TearsDownMediaMoves DEF TearsDownMedia, TypeInv
  <1>2. CASE t = "orch"
    <2>1. /\ Now("orch") = "teardown" /\ Aim("orch") = "teardown" /\ Now("orch")' = "none"
          /\ Aim("orch")' = "none" /\ call'["orch"].ses = call["orch"].ses
          /\ call'["stop"] = call["stop"] /\ Now("stop")' = Now("stop")
      BY <1>1, <1>2, TearsDownMediaMoves, OrchTurns, CallersAt DEF TypeInv
    <2>3. Stages' /\ InUse'
      BY <1>1, <2>1, InRange DEF UseInv, Stages, InUse, Closing, Callers, CloseHeads
    <2>4. Order'
      BY <1>1, <2>1 DEF UseInv, Stages, Order, Works, NoOverlap, Calm, CloseHeads
    <2> QED BY <2>3, <2>4 DEF UseInv
  <1>3. CASE t = "stop"
    <2>2. /\ Now("stop") = "teardown" /\ Now("stop")' = "post"
          /\ call'["stop"].ses = call["stop"].ses /\ Aim("orch")' = Aim("orch")
          /\ call'["orch"] = call["orch"] /\ Now("orch")' = Now("orch")
      BY <1>1, <1>3, TearsDownMediaMoves, StopTurns DEF TypeInv
    <2>3. Stages' /\ InUse'
      BY <1>1, <2>2, InRange DEF UseInv, Stages, InUse, Closing, Callers, CloseHeads
    <2>4. Order'
      BY <1>1, <2>2 DEF UseInv, Stages, Order, Works, NoOverlap, Calm, CloseHeads
    <2> QED BY <2>3, <2>4 DEF UseInv
  <1> QED BY <1>2, <1>3 DEF Callers

LEMMA StopPostsUse ==
  ASSUME TypeInv, UseInv, StopPosts
  PROVE  UseInv'
  <1>1. /\ UNCHANGED <<orch, att, handle, ses, mishaps>>
        /\ Now("stop") = "post" /\ Now("stop")' = "exit" /\ call'["stop"].ses = call["stop"].ses
        /\ call'["orch"] = call["orch"] /\ Now("orch")' = Now("orch") /\ Aim("orch")' = Aim("orch")
    BY StopPostsMoves, StopTurns DEF StopPosts, TypeInv
  <1>2. Queued(inbox')
    BY QueuedPost, InRange DEF StopPosts, Post, TypeInv, PlainOK
  <1>3. Stages' /\ InUse'
    BY <1>1, InRange DEF UseInv, Stages, InUse, Closing, Callers, CloseHeads
  <1>4. Order'
    BY <1>1, <1>2 DEF UseInv, Stages, Order, Works, NoOverlap, Calm, CloseHeads
  <1> QED BY <1>3, <1>4 DEF UseInv

LEMMA StopExitsUse ==
  ASSUME TypeInv, UseInv, StopExits
  PROVE  UseInv'
  <1>1. /\ UNCHANGED <<orch, att, handle, ses, mishaps, inbox>>
        /\ Now("stop") = "exit" /\ Now("stop")' = "none" /\ call'["stop"].ses = call["stop"].ses
        /\ call'["orch"] = call["orch"] /\ Now("orch")' = Now("orch") /\ Aim("orch")' = Aim("orch")
    BY StopExitsMoves, StopTurns DEF StopExits, TypeInv
  <1>3. Stages' /\ InUse'
    BY <1>1, InRange DEF UseInv, Stages, InUse, Closing, Callers, CloseHeads
  <1>4. Order'
    BY <1>1 DEF UseInv, Stages, Order, Works, NoOverlap, Calm, CloseHeads
  <1> QED BY <1>3, <1>4 DEF UseInv

\* The orchestrator between its calls.
LEMMA IgnitesUse ==
  ASSUME TypeInv, UseInv, Ignites
  PROVE  UseInv'
  <1>1. /\ UNCHANGED <<handle, ses, mishaps>> /\ Now("orch") = "none" /\ orch = "idle" /\ inbox = <<>>
        /\ orch' = "igniting" /\ att' = att + 1
        /\ \/ Goes("orch", "begin", "start", att + 1, "free") /\ UNCHANGED inbox
           \/ UNCHANGED call /\ Post(Event("down", att + 1))
        /\ att + 1 \in 0 .. MaxAttempts
    <2>1. att + 1 \in 0 .. MaxAttempts
      BY InRange DEF Ignites
    <2> QED BY <2>1, IgnitesMoves DEF Ignites, TypeInv
  <1>2. Aim("orch") = "none" /\ ~Queued(inbox)
    BY <1>1, CallersAt DEF Queued
  <1>3. CASE Goes("orch", "begin", "start", att + 1, "free") /\ UNCHANGED inbox
    <2>1. /\ Now("orch")' = "begin" /\ Aim("orch")' = "start" /\ call'["orch"].ses = att + 1
          /\ call'["stop"] = call["stop"] /\ Now("stop")' = Now("stop")
      BY <1>3, OrchTurns
    <2>2. Stages' /\ InUse'
      BY <1>1, <2>1, InRange DEF UseInv, Stages, InUse, Closing, Callers, CloseHeads
    <2>3. Order'
      BY <1>1, <1>2, <1>3, <2>1 DEF UseInv, Stages, Order, Works, NoOverlap, Calm, CloseHeads
    <2> QED BY <2>2, <2>3 DEF UseInv
  <1>4. CASE UNCHANGED call /\ Post(Event("down", att + 1))
    <2>1. /\ Now("orch")' = "none" /\ Aim("orch")' = "none" /\ call' = call /\ Now("stop")' = Now("stop")
      BY <1>1, <1>2, <1>4 DEF Now, Aim
    <2>2. Queued(inbox') <=> Queued(inbox)
      BY <1>1, <1>4, QueuedPost DEF Post, TypeInv, PlainOK
    <2>3. Stages' /\ InUse'
      BY <1>1, <1>2, <2>1, InRange DEF UseInv, Stages, InUse, Closing, Callers, CloseHeads
    <2>4. Order'
      BY <1>1, <1>2, <2>1, <2>2 DEF UseInv, Stages, Order, Works, NoOverlap, Calm, CloseHeads
    <2> QED BY <2>3, <2>4 DEF UseInv
  <1> QED BY <1>1, <1>3, <1>4

LEMMA LosesWifiUse ==
  ASSUME TypeInv, UseInv, LosesWifi
  PROVE  UseInv'
  <1>1. /\ UNCHANGED <<handle, ses, att, inbox>> /\ Now("orch") = "none" /\ Aim("orch") = "none"
        /\ orch' = "idle" /\ Now("orch")' = "take" /\ Aim("orch")' = "teardown"
        /\ call'["orch"].ses = call["orch"].ses
        /\ call'["stop"] = call["stop"] /\ Now("stop")' = Now("stop")
    BY LosesWifiMoves, OrchTurns, CallersAt DEF LosesWifi, TypeInv
  <1>2. /\ mishaps \subseteq mishaps'
        /\ Now("stop") # "none" => "overlap" \in mishaps'
    <2>1. Now("stop") # "none" => ~Free("stop")
      BY DEF Now, Free, First
    <2> QED BY <2>1 DEF LosesWifi
  <1>3. Stages' /\ InUse'
    BY <1>1, InRange DEF UseInv, Stages, InUse, Closing, Callers, CloseHeads
  <1>4. Order'
    BY <1>1, <1>2 DEF UseInv, Stages, Order, Works, NoOverlap, Calm, CloseHeads
  <1> QED BY <1>3, <1>4 DEF UseInv

LEMMA EnterStoppingUse ==
  ASSUME TypeInv, UseInv, NEW q \in Seq(Events), Queued(q) => Queued(inbox), EnterStopping(q),
         orch \in {"igniting", "active"}, Free("orch"),
         UNCHANGED <<att, flaps, shared, rtcHandle, media, ses, upd>>
  PROVE  UseInv'
  <1>1. UNCHANGED <<handle, ses, att>> /\ orch' = "stopping" /\ Now("orch") = "none" /\ Aim("orch") = "none"
    BY CallersAt DEF EnterStopping, Free, Now, First
  <1>2. CASE /\ Now("stop") = "none" /\ inbox' = q /\ UNCHANGED mishaps
             /\ Goes("stop", "take", "exit", call["stop"].ses, "free")
    <2>1. /\ Now("stop")' = "take" /\ call'["stop"].ses = call["stop"].ses
          /\ call'["orch"] = call["orch"] /\ Now("orch")' = "none" /\ Aim("orch")' = "none"
      BY <1>1, <1>2, StopTurns
    <2>2. Stages' /\ InUse'
      BY <1>1, <2>1, InRange DEF UseInv, Stages, InUse, Closing, Callers, CloseHeads
    <2>3. Order'
      BY <1>1, <1>2, <2>1 DEF UseInv, Order, Works, NoOverlap, Calm, CloseHeads
    <2> QED BY <2>2, <2>3 DEF UseInv
  <1>3. CASE /\ Now("stop") = "none" /\ inbox' = Append(q, Event("stopped", 0))
             /\ mishaps' = mishaps \cup {"unstopped"} /\ UNCHANGED call
    <2>1. UNCHANGED <<Now("orch"), Now("stop"), Aim("orch")>>
      BY <1>3 DEF Now, Aim
    <2>2. Stages' /\ InUse'
      BY <1>1, <1>3, <2>1, InRange DEF UseInv, Stages, InUse, Closing, Callers, CloseHeads
    <2>3. Order'
      BY <1>1, <1>3, <2>1 DEF UseInv, Order, Works, NoOverlap, Calm, CloseHeads
    <2> QED BY <2>2, <2>3 DEF UseInv
  <1>4. CASE Now("stop") # "none" /\ inbox' = q /\ UNCHANGED <<call, mishaps>>
    <2>1. UNCHANGED <<Now("orch"), Now("stop"), Aim("orch")>>
      BY <1>4 DEF Now, Aim
    <2>2. Stages' /\ InUse'
      BY <1>1, <1>4, <2>1, InRange DEF UseInv, Stages, InUse, Closing, Callers, CloseHeads
    <2>3. Order'
      BY <1>1, <1>4, <2>1 DEF UseInv, Order, Works, NoOverlap, Calm, CloseHeads
    <2> QED BY <2>2, <2>3 DEF UseInv
  <1> QED BY <1>2, <1>3, <1>4, EnterStoppingMoves DEF TypeInv

\* The orchestrator takes an event that changes at most its state.
LEMMA OnEventUse ==
  ASSUME TypeInv, UseInv, Free("orch"), inbox # <<>>, inbox' = Tail(inbox),
         \/ orch' = orch
         \/ orch = "igniting" /\ orch' = "active"
         \/ orch = "stopping" /\ orch' = "idle" /\ Head(inbox).ev = "stopped",
         UNCHANGED <<att, flaps, call, shared, rtcHandle, media, ses, upd, mishaps>>
  PROVE  UseInv'
  <1>1. /\ UNCHANGED <<handle, ses, att, mishaps, Now("orch"), Now("stop"), Aim("orch")>>
        /\ Now("orch") = "none" /\ Aim("orch") = "none"
    BY CallersAt DEF Free, Now, Aim, First
  <1>2. /\ Queued(inbox') => Queued(inbox)
        /\ Head(inbox).ev = "stopped" => Queued(inbox)
    BY QueuedTail DEF TypeInv, PlainOK
  <1>3. Stages' /\ InUse'
    BY <1>1, InRange DEF UseInv, Stages, InUse, Closing, Callers, CloseHeads
  <1>4. Order'
    BY <1>1, <1>2 DEF UseInv, Order, Works, NoOverlap, Calm, CloseHeads
  <1> QED BY <1>3, <1>4 DEF UseInv

LEMMA OrchestratorUse ==
  ASSUME TypeInv, UseInv, Ignites \/ LosesWifi \/ SessionEnds \/ OrchestratorStep
  PROVE  UseInv'
  <1>1. CASE SessionEnds
    BY <1>1, EnterStoppingUse DEF SessionEnds, TypeInv, PlainOK
  <1>2. CASE OnReady
    BY <1>2, OnEventUse DEF OnReady, Takes
  <1>3. CASE OnStopped
    BY <1>3, OnEventUse DEF OnStopped, Takes
  <1>4. CASE OnDown
    <2>1. inbox # <<>> /\ Free("orch")
      BY <1>4 DEF OnDown, Takes
    <2>2. Tail(inbox) \in Seq(Events) /\ (Queued(Tail(inbox)) => Queued(inbox))
      BY <2>1, Read, QueuedTail DEF TypeInv, PlainOK
    <2> QED BY <1>4, <2>1, <2>2, EnterStoppingUse, OnEventUse DEF OnDown
  <1> QED BY <1>1, <1>2, <1>3, <1>4, IgnitesUse, LosesWifiUse DEF OrchestratorStep

LEMMA CallerUse ==
  ASSUME TypeInv, UseInv, NEW t \in Callers, CallStep(t)
  PROVE  UseInv'

  <1>1. CASE CloseMarks(t)
    <2>1. \A x \in Attempts : ses'[x].life = ses[x].life
      BY <1>1, CloseMarksOnly DEF Only, Fields
    <2>2. /\ UNCHANGED <<orch, att, inbox, handle>> /\ mishaps \subseteq mishaps'
          /\ Closing(t) /\ Way(t) \in CloseHeads
      BY <1>1, CloseMarksMoves, CallersAt DEF CloseMarks, TypeInv, Closing, CloseHeads
    <2>3. \E f \in CloseHeads, ahead \in {"peer", "free"} : Goes(t, f, Aim(t), call[t].ses, ahead)
      BY <1>1, <2>2, CloseMarksMoves, CallersAt DEF TypeInv, CloseHeads
    <2> QED BY <2>1, <2>2, <2>3, UseClosing
  <1>2. CASE CloseTestsStream(t)
    <2>1. \A x \in Attempts : ses'[x].life = ses[x].life
      BY <1>2 DEF CloseTestsStream
    <2>2. /\ UNCHANGED <<orch, att, inbox, handle>> /\ mishaps \subseteq mishaps'
          /\ Closing(t) /\ Way(t) \in CloseHeads
      BY <1>2, CloseTestsStreamMoves, CallersAt DEF CloseTestsStream, TypeInv, Closing, CloseHeads
    <2>3. \E f \in CloseHeads, ahead \in {"peer", "free"} : Goes(t, f, Aim(t), call[t].ses, ahead)
      BY <1>2, <2>2, CloseTestsStreamMoves, CallersAt DEF TypeInv, CloseHeads
    <2> QED BY <2>1, <2>2, <2>3, UseClosing
  <1>3. CASE CloseStopsStream(t)
    <2>1. \A x \in Attempts : ses'[x].life = ses[x].life
      BY <1>3, CloseStopsStreamOnly DEF Only, Fields
    <2>2. /\ UNCHANGED <<orch, att, inbox, handle>> /\ mishaps \subseteq mishaps'
          /\ Closing(t) /\ Way(t) \in CloseHeads
      BY <1>3, CloseStopsStreamMoves, CallersAt DEF CloseStopsStream, TypeInv, Closing, CloseHeads
    <2>3. \E f \in CloseHeads, ahead \in {"peer", "free"} : Goes(t, f, Aim(t), call[t].ses, ahead)
      BY <1>3, <2>2, CloseStopsStreamMoves, CallersAt DEF TypeInv, CloseHeads
    <2> QED BY <2>1, <2>2, <2>3, UseClosing
  <1>4. CASE CloseJoinsSender(t)
    <2>1. \A x \in Attempts : ses'[x].life = ses[x].life
      BY <1>4, CloseJoinsSenderOnly DEF Only, Fields
    <2>2. /\ UNCHANGED <<orch, att, inbox, handle>> /\ mishaps \subseteq mishaps'
          /\ Closing(t) /\ Way(t) \in CloseHeads
      BY <1>4, CloseJoinsSenderMoves, CallersAt DEF CloseJoinsSender, TypeInv, Closing, CloseHeads
    <2>3. \E f \in CloseHeads, ahead \in {"peer", "free"} : Goes(t, f, Aim(t), call[t].ses, ahead)
      BY <1>4, <2>2, CloseJoinsSenderMoves, CallersAt DEF TypeInv, CloseHeads
    <2> QED BY <2>1, <2>2, <2>3, UseClosing
  <1>5. CASE ClosePeer(t)
    <2>1. \A x \in Attempts : ses'[x].life = ses[x].life
      BY <1>5, ClosePeerOnly DEF Only, Fields
    <2>2. /\ UNCHANGED <<orch, att, inbox, handle>> /\ mishaps \subseteq mishaps'
          /\ Closing(t) /\ Way(t) \in CloseHeads
      BY <1>5, ClosePeerMoves, CallersAt DEF ClosePeer, TypeInv, Closing, CloseHeads
    <2>3. \E f \in CloseHeads, ahead \in {"peer", "free"} : Goes(t, f, Aim(t), call[t].ses, ahead)
      BY <1>5, <2>2, ClosePeerMoves, CallersAt DEF TypeInv, CloseHeads
    <2> QED BY <2>1, <2>2, <2>3, UseClosing
  <1>6. CASE CloseJoinsPeer(t)
    <2>1. \A x \in Attempts : ses'[x].life = ses[x].life
      BY <1>6, CloseJoinsPeerOnly DEF Only, Fields
    <2>2. /\ UNCHANGED <<orch, att, inbox, handle>> /\ mishaps \subseteq mishaps'
          /\ Closing(t) /\ Way(t) \in CloseHeads
      BY <1>6, CloseJoinsPeerMoves, CallersAt DEF CloseJoinsPeer, TypeInv, Closing, CloseHeads
    <2>3. \E f \in CloseHeads, ahead \in {"peer", "free"} : Goes(t, f, Aim(t), call[t].ses, ahead)
      BY <1>6, <2>2, CloseJoinsPeerMoves, CallersAt DEF TypeInv, CloseHeads
    <2> QED BY <2>1, <2>2, <2>3, UseClosing
  <1> QED BY <1>1, <1>2, <1>3, <1>4, <1>5, <1>6, StopTakesUse, CloseFreesUse, TearsDownMediaUse,
             StartTakesUse, StartOpensUse, StartStartsUse, StartFailsUse, StopPostsUse, StopExitsUse
          DEF CallStep

\* pc_task, pc_send and the session_update task do not meddle with it.
LEMMA PeerUse ==
  ASSUME TypeInv, UseInv, NEW s \in Attempts, PeerReports(s) \/ PeerStep(s) \/ SenderExits(s)
  PROVE  UseInv'
  <1>s. s \in 0 .. MaxAttempts
    BY InRange DEF Attempts
  <1>1. CASE PeerConnects(s)
    <2>1. \A x \in Attempts : ses'[x].life = ses[x].life
      BY <1>1, PeerConnectsOnly DEF Only, Fields
    <2>2. Queued(inbox') <=> Queued(inbox)
      BY <1>1 DEF PeerConnects
    <2> QED BY <1>1, <2>1, <2>2, UseKept DEF PeerConnects
  <1>2. CASE PeerFails(s)
    <2>1. \A x \in Attempts : ses'[x].life = ses[x].life
      BY <1>2, PeerFailsOnly DEF Only, Fields
    <2>2. Queued(inbox') <=> Queued(inbox)
      BY <1>2 DEF PeerFails
    <2> QED BY <1>2, <2>1, <2>2, UseKept DEF PeerFails
  <1>3. CASE PeerOpensChannel(s)
    <2>1. \A x \in Attempts : ses'[x].life = ses[x].life
      BY <1>3, PeerOpensChannelOnly DEF Only, Fields
    <2>2. Queued(inbox') <=> Queued(inbox)
      BY <1>3 DEF PeerOpensChannel
    <2> QED BY <1>3, <2>1, <2>2, UseKept DEF PeerOpensChannel
  <1>4. CASE PeerLosesChannel(s)
    <2>1. \A x \in Attempts : ses'[x].life = ses[x].life
      BY <1>4, PeerLosesChannelOnly DEF Only, Fields
    <2>2. Queued(inbox') <=> Queued(inbox)
      BY <1>4 DEF PeerLosesChannel
    <2> QED BY <1>4, <2>1, <2>2, UseKept DEF PeerLosesChannel
  <1>5. CASE PeerDisconnects(s)
    <2>1. \A x \in Attempts : ses'[x].life = ses[x].life
      BY <1>5, PeerDisconnectsOnly DEF Only, Fields
    <2>2. Queued(inbox') <=> Queued(inbox)
      BY <1>5 DEF PeerDisconnects
    <2> QED BY <1>5, <2>1, <2>2, UseKept DEF PeerDisconnects
  <1>6. CASE ServerAnswers(s)
    <2>1. \A x \in Attempts : ses'[x].life = ses[x].life
      BY <1>6, ServerAnswersOnly DEF Only, Fields
    <2>2. Queued(inbox') <=> Queued(inbox)
      BY <1>6 DEF ServerAnswers
    <2> QED BY <1>6, <2>1, <2>2, UseKept DEF ServerAnswers
  <1>7. CASE StreamStarts(s)
    <2>1. \A x \in Attempts : ses'[x].life = ses[x].life
      BY <1>7, StreamStartsOnly DEF Only, Fields
    <2>2. Queued(inbox') <=> Queued(inbox)
      BY <1>7 DEF StreamStarts
    <2> QED BY <1>7, <2>1, <2>2, UseKept DEF StreamStarts
  <1>8. CASE StreamTested(s)
    <2>1. \A x \in Attempts : ses'[x].life = ses[x].life
      BY <1>8, StreamTestedOnly DEF Only, Fields
    <2>2. Queued(inbox') <=> Queued(inbox)
      BY <1>8 DEF StreamTested
    <2> QED BY <1>8, <2>1, <2>2, UseKept DEF StreamTested
  <1>9. CASE StreamStops(s)
    <2>1. \A x \in Attempts : ses'[x].life = ses[x].life
      BY <1>9, StreamStopsOnly DEF Only, Fields
    <2>2. Queued(inbox') <=> Queued(inbox)
      BY <1>9 DEF StreamStops
    <2> QED BY <1>9, <2>1, <2>2, UseKept DEF StreamStops
  <1>10. CASE PeerJoinsSender(s)
    <2>1. \A x \in Attempts : ses'[x].life = ses[x].life
      BY <1>10, PeerJoinsSenderOnly DEF Only, Fields
    <2>2. Queued(inbox') <=> Queued(inbox)
      BY <1>10 DEF PeerJoinsSender
    <2> QED BY <1>10, <2>1, <2>2, UseKept DEF PeerJoinsSender
  <1>11. CASE CallbackChecks(s)
    <2>1. \A x \in Attempts : ses'[x].life = ses[x].life
      BY <1>11, CallbackChecksOnly DEF Only, Fields
    <2>2. Queued(inbox') <=> Queued(inbox)
      BY <1>11 DEF CallbackChecks
    <2> QED BY <1>11, <2>1, <2>2, UseKept DEF CallbackChecks
  <1>12. CASE CallbackSchedules(s)
    <2>1. \A x \in Attempts : ses'[x].life = ses[x].life
      BY <1>12, CallbackSchedulesOnly DEF Only, Fields
    <2>2. Queued(inbox') <=> Queued(inbox)
      BY <1>12 DEF CallbackSchedules
    <2> QED BY <1>12, <2>1, <2>2, UseKept DEF CallbackSchedules
  <1>13. CASE CallbackReportsDown(s)
    <2>1. \A x \in Attempts : ses'[x].life = ses[x].life
      BY <1>13, CallbackReportsDownOnly DEF Only, Fields
    <2>2. Queued(inbox') <=> Queued(inbox)
      BY <1>13, <1>s, QueuedPost DEF CallbackReportsDown, Post, TypeInv, PlainOK
    <2> QED BY <1>13, <2>1, <2>2, UseKept DEF CallbackReportsDown
  <1>14. CASE CallbackReportsReady(s)
    <2>1. \A x \in Attempts : ses'[x].life = ses[x].life
      BY <1>14, CallbackReportsReadyOnly DEF Only, Fields
    <2>2. Queued(inbox') <=> Queued(inbox)
      BY <1>14, <1>s, QueuedPost DEF CallbackReportsReady, Post, TypeInv, PlainOK
    <2> QED BY <1>14, <2>1, <2>2, UseKept DEF CallbackReportsReady
  <1>15. CASE PeerExits(s)
    <2>1. \A x \in Attempts : ses'[x].life = ses[x].life
      BY <1>15, PeerExitsOnly DEF Only, Fields
    <2>2. Queued(inbox') <=> Queued(inbox)
      BY <1>15 DEF PeerExits
    <2> QED BY <1>15, <2>1, <2>2, UseKept DEF PeerExits
  <1>16. CASE SenderExits(s)
    <2>1. \A x \in Attempts : ses'[x].life = ses[x].life
      BY <1>16, SenderExitsOnly DEF Only, Fields
    <2>2. Queued(inbox') <=> Queued(inbox)
      BY <1>16 DEF SenderExits
    <2> QED BY <1>16, <2>1, <2>2, UseKept DEF SenderExits
  <1>17. CASE SenderSpawns(s)
    <2>1. \A x \in Attempts : ses'[x].life = ses[x].life
      BY <1>17, SenderSpawnsOnly DEF Only, Fields
    <2>2. Queued(inbox') <=> Queued(inbox)
      BY <1>17 DEF SenderSpawns
    <2> QED BY <1>17, <2>1, <2>2, UseKept DEF SenderSpawns
  <1> QED BY <1>1, <1>2, <1>3, <1>4, <1>5, <1>6, <1>7, <1>8, <1>9, <1>10, <1>11, <1>12, <1>13, <1>14, <1>15, <1>16, <1>17 DEF PeerReports, PeerStep

LEMMA UpdateUse ==
  ASSUME TypeInv, UseInv, NEW g \in Gens, UpdateChecks(g) \/ UpdateSends(g)
  PROVE  UseInv'
  <1>1. \A x \in Attempts : ses'[x].life = ses[x].life
    <2>1. CASE ses' = ses
      BY <2>1
    <2>2. CASE ses' # ses
      BY <2>2, UpdateSendsOnly DEF Only, Fields, UpdateChecks
    <2> QED BY <2>1, <2>2
  <1>2. UNCHANGED <<orch, att, call, handle, inbox, mishaps>>
    BY DEF UpdateChecks, UpdateSends
  <1> QED BY <1>1, <1>2, UseKept

LEMMA UseBegins == Init => UseInv
  <1> SUFFICES ASSUME Init PROVE UseInv
    OBVIOUS
  <1>1. /\ call["orch"].todo = <<>> /\ call["stop"].todo = <<>> /\ \A t \in Callers : call[t].ses = 0
        /\ ~Queued(inbox) /\ handle = 0 /\ att = 0
    BY DEF Init, Queued, Callers
  <1> QED BY <1>1, NewLists DEF UseInv, Stages, InUse, Order, Works, Now, Aim, Closing, CloseHeads, Callers

LEMMA UseStays == TypeInv /\ UseInv /\ [Next]_vars => UseInv'
  <1> SUFFICES ASSUME TypeInv, UseInv, [Next]_vars PROVE UseInv'
    OBVIOUS
  <1>1. CASE UNCHANGED vars
    BY <1>1, UseKept
  <1> QED BY <1>1, CallerUse, OrchestratorUse, PeerUse, UpdateUse DEF Next

LEMMA InUseAlways == Spec => []UseInv
  BY UseBegins, UseStays, Typed, PTL DEF Spec

\* Whoever holds g_webrtc_mutex and sees a handle may use it (webrtc.c:213-239): the
\* session is allocated and neither the orchestrator nor the stop task is closing it.
THEOREM HandleLives == Spec => []HandleIsLive
  <1>1. TypeInv /\ UseInv => HandleIsLive
    <2> SUFFICES ASSUME TypeInv, UseInv, handle # 0 PROVE HandleIsLive
      BY DEF HandleIsLive
    <2>1. handle = att \/ mishaps \cap {"overlap", "unstopped"} # {}
      BY DEF UseInv, Order, Calm
    <2>2. \A t \in Callers : ~Free(t) /\ call[t].ses = handle => Now(t) \in {"start", "take"}
      <3>1. \A t \in Callers : ~Free(t) => Now(t) # "none"
        BY Stage DEF TypeInv, CallsOK, Free, Now
      <3> QED BY <3>1 DEF UseInv, InUse
    <2> QED BY <2>1, <2>2 DEF HandleIsLive, UseInv, InUse, Now, First, Free
  <1> QED BY <1>1, Typed, InUseAlways, PTL

-----------------------------------------------------------------------------
(* The steps of the callers, one caller at a time                          *)

StopStays ==
  /\ call'["stop"] = call["stop"] /\ Now("stop")' = Now("stop")
  /\ Aim("stop")' = Aim("stop") /\ Way("stop")' = Way("stop")
OrchStays ==
  /\ call'["orch"] = call["orch"] /\ Now("orch")' = Now("orch")
  /\ Aim("orch")' = Aim("orch") /\ Way("orch")' = Way("orch")
NobodyCalls ==
  StopStays /\ OrchStays

LEMMA Nobody ==
  ASSUME UNCHANGED call
  PROVE  NobodyCalls
  BY DEF NobodyCalls, StopStays, OrchStays, Now, Aim, Way

LEMMA OrchStopTakes ==
  ASSUME TypeInv, StopTakes("orch")
  PROVE  /\ Now("orch") = "take" /\ Aim("orch") = "teardown"
         /\ Now("orch")' = IF handle = 0 THEN "teardown" ELSE "mark"
         /\ Way("orch")' = (IF handle = 0 THEN "free" ELSE "peer") /\ Aim("orch")' = Aim("orch")
         /\ call'["orch"].ses = handle /\ StopStays
  <1>1. CASE handle = 0
    BY <1>1, StopTakesMoves, OrchTurns, CallersAt, InRange DEF TypeInv, StopStays, CloseHeads
  <1>2. CASE ~(handle = 0)
    BY <1>2, StopTakesMoves, OrchTurns, CallersAt, InRange DEF TypeInv, StopStays, CloseHeads
  <1> QED BY <1>1, <1>2

LEMMA OrchCloseMarks ==
  ASSUME TypeInv, CloseMarks("orch")
  PROVE  /\ Now("orch") = "mark" /\ Way("orch") = "peer"
         /\ Now("orch")' = "streams"
         /\ Way("orch")' = "peer" /\ Aim("orch")' = Aim("orch")
         /\ call'["orch"].ses = call["orch"].ses /\ StopStays
  BY CloseMarksMoves, OrchTurns, CallersAt, InRange DEF TypeInv, StopStays, CloseHeads

LEMMA OrchCloseTestsStream ==
  ASSUME TypeInv, CloseTestsStream("orch")
  PROVE  /\ Now("orch") = "streams"
         /\ Now("orch")' = IF ses[call["orch"].ses].sending THEN "off" ELSE Way("orch")
         /\ Way("orch")' = Way("orch") /\ Aim("orch")' = Aim("orch")
         /\ call'["orch"].ses = call["orch"].ses /\ StopStays
  BY CloseTestsStreamMoves, OrchTurns, CallersAt, InRange DEF TypeInv, StopStays, CloseHeads

LEMMA OrchCloseStopsStream ==
  ASSUME TypeInv, CloseStopsStream("orch")
  PROVE  /\ Now("orch") = "off"
         /\ Now("orch")' = "waitSend"
         /\ Way("orch")' = Way("orch") /\ Aim("orch")' = Aim("orch")
         /\ call'["orch"].ses = call["orch"].ses /\ StopStays
  BY CloseStopsStreamMoves, OrchTurns, CallersAt, InRange DEF TypeInv, StopStays, CloseHeads

LEMMA OrchCloseJoinsSender ==
  ASSUME TypeInv, CloseJoinsSender("orch")
  PROVE  /\ Now("orch") = "waitSend"
         /\ Now("orch")' = Way("orch")
         /\ Way("orch")' = Way("orch") /\ Aim("orch")' = Aim("orch")
         /\ call'["orch"].ses = call["orch"].ses /\ StopStays
  BY CloseJoinsSenderMoves, OrchTurns, CallersAt, InRange DEF TypeInv, StopStays, CloseHeads

LEMMA OrchClosePeer ==
  ASSUME TypeInv, ClosePeer("orch")
  PROVE  /\ Now("orch") = "peer" /\ Way("orch") = "peer"
         /\ Now("orch")' = IF ses[call["orch"].ses].running THEN "waitPeer" ELSE "free"
         /\ Way("orch")' = (IF ses[call["orch"].ses].running THEN "peer" ELSE "free") /\ Aim("orch")' = Aim("orch")
         /\ call'["orch"].ses = call["orch"].ses /\ StopStays
  <1>1. CASE ses[call["orch"].ses].running
    BY <1>1, ClosePeerMoves, OrchTurns, CallersAt, InRange DEF TypeInv, StopStays, CloseHeads
  <1>2. CASE ~(ses[call["orch"].ses].running)
    BY <1>2, ClosePeerMoves, OrchTurns, CallersAt, InRange DEF TypeInv, StopStays, CloseHeads
  <1> QED BY <1>1, <1>2

LEMMA OrchCloseJoinsPeer ==
  ASSUME TypeInv, CloseJoinsPeer("orch")
  PROVE  /\ Now("orch") = "waitPeer" /\ Way("orch") = "peer"
         /\ Now("orch")' \in {"free", "streams"}
         /\ Way("orch")' = "free" /\ Aim("orch")' = Aim("orch")
         /\ call'["orch"].ses = call["orch"].ses /\ StopStays
  BY CloseJoinsPeerMoves, OrchTurns, CallersAt, InRange DEF TypeInv, StopStays, CloseHeads

LEMMA OrchCloseFrees ==
  ASSUME TypeInv, CloseFrees("orch")
  PROVE  /\ Now("orch") = "free" /\ Way("orch") = "free"
         /\ Aim("orch") \in {"start", "fail", "teardown"}
         /\ Now("orch")' = Onward(Aim("orch"))
         /\ Way("orch")' = "free" /\ Aim("orch")' = Aim("orch")
         /\ call'["orch"].ses = call["orch"].ses /\ StopStays
  BY CloseFreesMoves, OrchTurns, CallersAt, InRange DEF TypeInv, StopStays, CloseHeads

LEMMA OrchTearsDownMedia ==
  ASSUME TypeInv, TearsDownMedia("orch")
  PROVE  /\ Now("orch") = "teardown" /\ Aim("orch") = "teardown"
         /\ Now("orch")' = "none"
         /\ Way("orch")' = "free" /\ Aim("orch")' = "none"
         /\ call'["orch"].ses = call["orch"].ses /\ StopStays
  BY TearsDownMediaMoves, OrchTurns, CallersAt, InRange DEF TypeInv, StopStays, CloseHeads

LEMMA StopStopTakes ==
  ASSUME TypeInv, StopTakes("stop")
  PROVE  /\ Now("stop") = "take"
         /\ Now("stop")' = IF handle = 0 THEN "teardown" ELSE "mark"
         /\ Way("stop")' = (IF handle = 0 THEN "free" ELSE "peer") /\ Aim("stop")' = Aim("stop")
         /\ call'["stop"].ses = handle /\ OrchStays
  <1>1. CASE handle = 0
    BY <1>1, StopTakesMoves, StopTurns, CallersAt, InRange DEF TypeInv, OrchStays, CloseHeads
  <1>2. CASE ~(handle = 0)
    BY <1>2, StopTakesMoves, StopTurns, CallersAt, InRange DEF TypeInv, OrchStays, CloseHeads
  <1> QED BY <1>1, <1>2

LEMMA StopCloseMarks ==
  ASSUME TypeInv, CloseMarks("stop")
  PROVE  /\ Now("stop") = "mark" /\ Way("stop") = "peer"
         /\ Now("stop")' = "streams"
         /\ Way("stop")' = "peer" /\ Aim("stop")' = Aim("stop")
         /\ call'["stop"].ses = call["stop"].ses /\ OrchStays
  BY CloseMarksMoves, StopTurns, CallersAt, InRange DEF TypeInv, OrchStays, CloseHeads

LEMMA StopCloseTestsStream ==
  ASSUME TypeInv, CloseTestsStream("stop")
  PROVE  /\ Now("stop") = "streams"
         /\ Now("stop")' = IF ses[call["stop"].ses].sending THEN "off" ELSE Way("stop")
         /\ Way("stop")' = Way("stop") /\ Aim("stop")' = Aim("stop")
         /\ call'["stop"].ses = call["stop"].ses /\ OrchStays
  BY CloseTestsStreamMoves, StopTurns, CallersAt, InRange DEF TypeInv, OrchStays, CloseHeads

LEMMA StopCloseStopsStream ==
  ASSUME TypeInv, CloseStopsStream("stop")
  PROVE  /\ Now("stop") = "off"
         /\ Now("stop")' = "waitSend"
         /\ Way("stop")' = Way("stop") /\ Aim("stop")' = Aim("stop")
         /\ call'["stop"].ses = call["stop"].ses /\ OrchStays
  BY CloseStopsStreamMoves, StopTurns, CallersAt, InRange DEF TypeInv, OrchStays, CloseHeads

LEMMA StopCloseJoinsSender ==
  ASSUME TypeInv, CloseJoinsSender("stop")
  PROVE  /\ Now("stop") = "waitSend"
         /\ Now("stop")' = Way("stop")
         /\ Way("stop")' = Way("stop") /\ Aim("stop")' = Aim("stop")
         /\ call'["stop"].ses = call["stop"].ses /\ OrchStays
  BY CloseJoinsSenderMoves, StopTurns, CallersAt, InRange DEF TypeInv, OrchStays, CloseHeads

LEMMA StopClosePeer ==
  ASSUME TypeInv, ClosePeer("stop")
  PROVE  /\ Now("stop") = "peer" /\ Way("stop") = "peer"
         /\ Now("stop")' = IF ses[call["stop"].ses].running THEN "waitPeer" ELSE "free"
         /\ Way("stop")' = (IF ses[call["stop"].ses].running THEN "peer" ELSE "free") /\ Aim("stop")' = Aim("stop")
         /\ call'["stop"].ses = call["stop"].ses /\ OrchStays
  <1>1. CASE ses[call["stop"].ses].running
    BY <1>1, ClosePeerMoves, StopTurns, CallersAt, InRange DEF TypeInv, OrchStays, CloseHeads
  <1>2. CASE ~(ses[call["stop"].ses].running)
    BY <1>2, ClosePeerMoves, StopTurns, CallersAt, InRange DEF TypeInv, OrchStays, CloseHeads
  <1> QED BY <1>1, <1>2

LEMMA StopCloseJoinsPeer ==
  ASSUME TypeInv, CloseJoinsPeer("stop")
  PROVE  /\ Now("stop") = "waitPeer" /\ Way("stop") = "peer"
         /\ Now("stop")' \in {"free", "streams"}
         /\ Way("stop")' = "free" /\ Aim("stop")' = Aim("stop")
         /\ call'["stop"].ses = call["stop"].ses /\ OrchStays
  BY CloseJoinsPeerMoves, StopTurns, CallersAt, InRange DEF TypeInv, OrchStays, CloseHeads

LEMMA StopCloseFrees ==
  ASSUME TypeInv, CloseFrees("stop")
  PROVE  /\ Now("stop") = "free" /\ Way("stop") = "free"
         /\ Now("stop")' = "teardown"
         /\ Way("stop")' = "free" /\ Aim("stop")' = Aim("stop")
         /\ call'["stop"].ses = call["stop"].ses /\ OrchStays
  <1>1. Now("stop") = "free" /\ Goes("stop", Onward(Aim("stop")), Aim("stop"), call["stop"].ses, "free")
        /\ Way("stop") = "free"
    BY CloseFreesMoves, InRange DEF TypeInv
  <1>2. Aim("stop") = "exit"
    BY <1>1, Stage, InRange DEF TypeInv, CallsOK, Now, Aim
  <1> QED BY <1>1, <1>2, StopTurns DEF StopStays, OrchStays, Onward

LEMMA StopTearsDownMedia ==
  ASSUME TypeInv, TearsDownMedia("stop")
  PROVE  /\ Now("stop") = "teardown"
         /\ Now("stop")' = "post"
         /\ Way("stop")' = "free" /\ Aim("stop")' = Aim("stop")
         /\ call'["stop"].ses = call["stop"].ses /\ OrchStays
  BY TearsDownMediaMoves, StopTurns, CallersAt, InRange DEF TypeInv, OrchStays, CloseHeads

LEMMA OrchStartTakes ==
  ASSUME TypeInv, StartTakes
  PROVE  /\ Now("orch") = "begin" /\ Aim("orch") = "start" /\ StopStays
         /\ \/ /\ TakeSession /\ ses' = [ses EXCEPT ![att].gen = gen + 1]
               /\ Now("orch")' = (IF handle = 0 THEN "open" ELSE "mark")
               /\ Way("orch")' = (IF handle = 0 THEN "free" ELSE "peer")
               /\ Aim("orch")' = "start" /\ call'["orch"].ses = handle
            \/ /\ UNCHANGED <<shared, ses>> /\ Way("orch")' = "free"
               /\ Now("orch")' = "fail" /\ Aim("orch")' = "fail" /\ call'["orch"].ses = call["orch"].ses
  <1>1. Now("orch") = "begin" /\ Aim("orch") = "start" /\ att \in Attempts
    BY StartTakesMoves, CallersAt, InRange, Anchors, BoundsAssumption DEF TypeInv
  <1>2. CASE /\ TakeSession /\ ses' = [ses EXCEPT ![att].gen = gen + 1]
             /\ handle = 0 => Goes("orch", "open", Aim("orch"), handle, "free")
             /\ handle # 0 => Goes("orch", "mark", Aim("orch"), handle, "peer")
    <2>1. CASE handle = 0
      BY <1>1, <1>2, <2>1, OrchTurns DEF StopStays
    <2>2. CASE handle # 0
      BY <1>1, <1>2, <2>2, OrchTurns DEF StopStays
    <2> QED BY <2>1, <2>2
  <1>3. CASE UNCHANGED <<shared, ses>> /\ Goes("orch", "fail", "fail", call["orch"].ses, "free")
    BY <1>1, <1>3, OrchTurns DEF StopStays
  <1> QED BY <1>2, <1>3, StartTakesMoves, InRange DEF TypeInv

LEMMA OrchStartOpens ==
  ASSUME TypeInv, StartOpens
  PROVE  /\ Now("orch") = "open" /\ Aim("orch") = "start" /\ StopStays
         /\ Now("orch")' = "start" /\ Aim("orch")' = "start" /\ Way("orch")' = "free"
         /\ call'["orch"].ses = att
  BY StartOpensMoves, OrchTurns, CallersAt, InRange DEF TypeInv, StopStays

LEMMA OrchStartStarts ==
  ASSUME TypeInv, StartStarts
  PROVE  /\ Now("orch") = "start" /\ Aim("orch") = "start" /\ StopStays
         /\ \/ /\ UNCHANGED shared /\ Now("orch")' = "none" /\ Aim("orch")' = "none"
               /\ Way("orch")' = "free" /\ call'["orch"].ses = call["orch"].ses
            \/ /\ IF handle = att THEN TakeSession ELSE UNCHANGED shared
               /\ Now("orch")' = "mark" /\ Aim("orch")' = "fail"
               /\ Way("orch")' = "peer" /\ call'["orch"].ses = att
               /\ ses' = [ses EXCEPT ![att].closing = FALSE]
  BY StartStartsMoves, OrchTurns, CallersAt, InRange DEF TypeInv, StopStays

LEMMA OrchStartFails ==
  ASSUME TypeInv, StartFails
  PROVE  /\ Now("orch") = "fail" /\ Aim("orch") = "fail" /\ StopStays
         /\ Now("orch")' = "none" /\ Aim("orch")' = "none" /\ Way("orch")' = "free"
         /\ call'["orch"].ses = call["orch"].ses
  BY StartFailsMoves, OrchTurns, CallersAt DEF TypeInv, StopStays

LEMMA StopPostsEnd ==
  ASSUME TypeInv, StopPosts
  PROVE  /\ Now("stop") = "post" /\ Now("stop")' = "exit" /\ Way("stop")' = "free" /\ OrchStays
         /\ call'["stop"].ses = call["stop"].ses
  BY StopPostsMoves, StopTurns DEF TypeInv, OrchStays

LEMMA StopExitsEnd ==
  ASSUME TypeInv, StopExits
  PROVE  /\ Now("stop") = "exit" /\ Now("stop")' = "none" /\ Way("stop")' = "free" /\ OrchStays
         /\ call'["stop"].ses = call["stop"].ses
  BY StopExitsMoves, StopTurns DEF TypeInv, OrchStays

LEMMA OrchIgnites ==
  ASSUME TypeInv, Ignites
  PROVE  /\ Now("orch") = "none" /\ Aim("orch") = "none" /\ StopStays /\ orch = "idle" /\ inbox = <<>>
         /\ att + 1 \in Attempts /\ att' = att + 1
         /\ \/ /\ Now("orch")' = "begin" /\ Aim("orch")' = "start" /\ Way("orch")' = "free"
               /\ call'["orch"].ses = att + 1 /\ UNCHANGED inbox
               /\ media' = IF media = 0 THEN att + 1 ELSE media
            \/ OrchStays /\ UNCHANGED media /\ inbox' = Append(inbox, Event("down", att + 1))
  <1>1. att + 1 \in 0 .. MaxAttempts /\ att + 1 \in Attempts
    BY InRange DEF Ignites, Attempts
  <1>2. Now("orch") = "none" /\ Aim("orch") = "none" /\ orch = "idle" /\ inbox = <<>> /\ att' = att + 1
    BY <1>1, IgnitesMoves, CallersAt DEF TypeInv
  <1>3. CASE Goes("orch", "begin", "start", att + 1, "free") /\ UNCHANGED inbox
             /\ media' = IF media = 0 THEN att + 1 ELSE media
    BY <1>1, <1>2, <1>3, OrchTurns DEF StopStays
  <1>4. CASE UNCHANGED <<call, media>> /\ Post(Event("down", att + 1))
    BY <1>1, <1>2, <1>4, Nobody DEF NobodyCalls, Post
  <1> QED BY <1>1, <1>3, <1>4, IgnitesMoves DEF TypeInv

LEMMA OrchLosesWifi ==
  ASSUME TypeInv, LosesWifi
  PROVE  /\ Now("orch") = "none" /\ Aim("orch") = "none" /\ StopStays
         /\ Now("orch")' = "take" /\ Aim("orch")' = "teardown" /\ Way("orch")' = "free"
         /\ call'["orch"].ses = call["orch"].ses /\ mishaps \subseteq mishaps'
         /\ Now("stop") # "none" => "overlap" \in mishaps'
  <1>1. Now("stop") # "none" => ~Free("stop")
    BY DEF Now, Free, First
  <1> QED BY <1>1, LosesWifiMoves, OrchTurns, CallersAt DEF TypeInv, StopStays, LosesWifi

\* The orchestrator sends the stop task off, cannot, or finds it at work.
LEMMA StopBegins ==
  ASSUME TypeInv, NEW q, EnterStopping(q)
  PROVE  /\ orch' = "stopping" /\ OrchStays /\ mishaps \subseteq mishaps'
         /\ \/ /\ Now("stop") = "none" /\ inbox' = q /\ UNCHANGED mishaps
               /\ Now("stop")' = "take" /\ Way("stop")' = "free"
               /\ call'["stop"].ses = call["stop"].ses
            \/ /\ Now("stop") = "none" /\ inbox' = Append(q, Event("stopped", 0))
               /\ "unstopped" \in mishaps' /\ StopStays
            \/ Now("stop") # "none" /\ inbox' = q /\ UNCHANGED mishaps /\ StopStays
  BY EnterStoppingMoves, StopTurns, Nobody DEF TypeInv, OrchStays, NobodyCalls

-----------------------------------------------------------------------------
(* What most steps leave alone                                             *)

\* pc_task and pc_send change nothing of what a session was given by its caller.
LEMMA PeerKeepsPlace ==
  ASSUME TypeInv, NEW s \in Attempts, PeerReports(s) \/ PeerStep(s) \/ SenderExits(s)
  PROVE  /\ UNCHANGED <<orch, att, flaps, call, handle, gen, media>> /\ mishaps \subseteq mishaps'
         /\ NobodyCalls
         /\ \A x \in Attempts :
              /\ ses'[x].life = ses[x].life /\ ses'[x].gen = ses[x].gen /\ ses'[x].media = ses[x].media
              /\ ses'[x].closing = ses[x].closing /\ ses'[x].running = ses[x].running
  <1>c. UNCHANGED call => NobodyCalls
    BY Nobody
  <1>1. CASE PeerConnects(s)
    <2>1. \A x \in Attempts :
            /\ ses'[x].life = ses[x].life /\ ses'[x].gen = ses[x].gen /\ ses'[x].media = ses[x].media
            /\ ses'[x].closing = ses[x].closing /\ ses'[x].running = ses[x].running
      BY <1>1, PeerConnectsOnly DEF Only, Fields
    <2>2. UNCHANGED <<orch, att, flaps, call, handle, gen, media>> /\ mishaps \subseteq mishaps'
      BY <1>1 DEF PeerConnects
    <2> QED BY <1>c, <2>1, <2>2
  <1>2. CASE PeerFails(s)
    <2>1. \A x \in Attempts :
            /\ ses'[x].life = ses[x].life /\ ses'[x].gen = ses[x].gen /\ ses'[x].media = ses[x].media
            /\ ses'[x].closing = ses[x].closing /\ ses'[x].running = ses[x].running
      BY <1>2, PeerFailsOnly DEF Only, Fields
    <2>2. UNCHANGED <<orch, att, flaps, call, handle, gen, media>> /\ mishaps \subseteq mishaps'
      BY <1>2 DEF PeerFails
    <2> QED BY <1>c, <2>1, <2>2
  <1>3. CASE PeerOpensChannel(s)
    <2>1. \A x \in Attempts :
            /\ ses'[x].life = ses[x].life /\ ses'[x].gen = ses[x].gen /\ ses'[x].media = ses[x].media
            /\ ses'[x].closing = ses[x].closing /\ ses'[x].running = ses[x].running
      BY <1>3, PeerOpensChannelOnly DEF Only, Fields
    <2>2. UNCHANGED <<orch, att, flaps, call, handle, gen, media>> /\ mishaps \subseteq mishaps'
      BY <1>3 DEF PeerOpensChannel
    <2> QED BY <1>c, <2>1, <2>2
  <1>4. CASE PeerLosesChannel(s)
    <2>1. \A x \in Attempts :
            /\ ses'[x].life = ses[x].life /\ ses'[x].gen = ses[x].gen /\ ses'[x].media = ses[x].media
            /\ ses'[x].closing = ses[x].closing /\ ses'[x].running = ses[x].running
      BY <1>4, PeerLosesChannelOnly DEF Only, Fields
    <2>2. UNCHANGED <<orch, att, flaps, call, handle, gen, media>> /\ mishaps \subseteq mishaps'
      BY <1>4 DEF PeerLosesChannel
    <2> QED BY <1>c, <2>1, <2>2
  <1>5. CASE PeerDisconnects(s)
    <2>1. \A x \in Attempts :
            /\ ses'[x].life = ses[x].life /\ ses'[x].gen = ses[x].gen /\ ses'[x].media = ses[x].media
            /\ ses'[x].closing = ses[x].closing /\ ses'[x].running = ses[x].running
      BY <1>5, PeerDisconnectsOnly DEF Only, Fields
    <2>2. UNCHANGED <<orch, att, flaps, call, handle, gen, media>> /\ mishaps \subseteq mishaps'
      BY <1>5 DEF PeerDisconnects
    <2> QED BY <1>c, <2>1, <2>2
  <1>6. CASE ServerAnswers(s)
    <2>1. \A x \in Attempts :
            /\ ses'[x].life = ses[x].life /\ ses'[x].gen = ses[x].gen /\ ses'[x].media = ses[x].media
            /\ ses'[x].closing = ses[x].closing /\ ses'[x].running = ses[x].running
      BY <1>6, ServerAnswersOnly DEF Only, Fields
    <2>2. UNCHANGED <<orch, att, flaps, call, handle, gen, media>> /\ mishaps \subseteq mishaps'
      BY <1>6 DEF ServerAnswers
    <2> QED BY <1>c, <2>1, <2>2
  <1>7. CASE StreamStarts(s)
    <2>1. \A x \in Attempts :
            /\ ses'[x].life = ses[x].life /\ ses'[x].gen = ses[x].gen /\ ses'[x].media = ses[x].media
            /\ ses'[x].closing = ses[x].closing /\ ses'[x].running = ses[x].running
      BY <1>7, StreamStartsOnly DEF Only, Fields
    <2>2. UNCHANGED <<orch, att, flaps, call, handle, gen, media>> /\ mishaps \subseteq mishaps'
      BY <1>7 DEF StreamStarts
    <2> QED BY <1>c, <2>1, <2>2
  <1>8. CASE StreamTested(s)
    <2>1. \A x \in Attempts :
            /\ ses'[x].life = ses[x].life /\ ses'[x].gen = ses[x].gen /\ ses'[x].media = ses[x].media
            /\ ses'[x].closing = ses[x].closing /\ ses'[x].running = ses[x].running
      BY <1>8, StreamTestedOnly DEF Only, Fields
    <2>2. UNCHANGED <<orch, att, flaps, call, handle, gen, media>> /\ mishaps \subseteq mishaps'
      BY <1>8 DEF StreamTested
    <2> QED BY <1>c, <2>1, <2>2
  <1>9. CASE StreamStops(s)
    <2>1. \A x \in Attempts :
            /\ ses'[x].life = ses[x].life /\ ses'[x].gen = ses[x].gen /\ ses'[x].media = ses[x].media
            /\ ses'[x].closing = ses[x].closing /\ ses'[x].running = ses[x].running
      BY <1>9, StreamStopsOnly DEF Only, Fields
    <2>2. UNCHANGED <<orch, att, flaps, call, handle, gen, media>> /\ mishaps \subseteq mishaps'
      BY <1>9 DEF StreamStops
    <2> QED BY <1>c, <2>1, <2>2
  <1>10. CASE PeerJoinsSender(s)
    <2>1. \A x \in Attempts :
            /\ ses'[x].life = ses[x].life /\ ses'[x].gen = ses[x].gen /\ ses'[x].media = ses[x].media
            /\ ses'[x].closing = ses[x].closing /\ ses'[x].running = ses[x].running
      BY <1>10, PeerJoinsSenderOnly DEF Only, Fields
    <2>2. UNCHANGED <<orch, att, flaps, call, handle, gen, media>> /\ mishaps \subseteq mishaps'
      BY <1>10 DEF PeerJoinsSender
    <2> QED BY <1>c, <2>1, <2>2
  <1>11. CASE CallbackChecks(s)
    <2>1. \A x \in Attempts :
            /\ ses'[x].life = ses[x].life /\ ses'[x].gen = ses[x].gen /\ ses'[x].media = ses[x].media
            /\ ses'[x].closing = ses[x].closing /\ ses'[x].running = ses[x].running
      BY <1>11, CallbackChecksOnly DEF Only, Fields
    <2>2. UNCHANGED <<orch, att, flaps, call, handle, gen, media>> /\ mishaps \subseteq mishaps'
      BY <1>11 DEF CallbackChecks
    <2> QED BY <1>c, <2>1, <2>2
  <1>12. CASE CallbackSchedules(s)
    <2>1. \A x \in Attempts :
            /\ ses'[x].life = ses[x].life /\ ses'[x].gen = ses[x].gen /\ ses'[x].media = ses[x].media
            /\ ses'[x].closing = ses[x].closing /\ ses'[x].running = ses[x].running
      BY <1>12, CallbackSchedulesOnly DEF Only, Fields
    <2>2. UNCHANGED <<orch, att, flaps, call, handle, gen, media>> /\ mishaps \subseteq mishaps'
      BY <1>12 DEF CallbackSchedules
    <2> QED BY <1>c, <2>1, <2>2
  <1>13. CASE CallbackReportsDown(s)
    <2>1. \A x \in Attempts :
            /\ ses'[x].life = ses[x].life /\ ses'[x].gen = ses[x].gen /\ ses'[x].media = ses[x].media
            /\ ses'[x].closing = ses[x].closing /\ ses'[x].running = ses[x].running
      BY <1>13, CallbackReportsDownOnly DEF Only, Fields
    <2>2. UNCHANGED <<orch, att, flaps, call, handle, gen, media>> /\ mishaps \subseteq mishaps'
      BY <1>13 DEF CallbackReportsDown
    <2> QED BY <1>c, <2>1, <2>2
  <1>14. CASE CallbackReportsReady(s)
    <2>1. \A x \in Attempts :
            /\ ses'[x].life = ses[x].life /\ ses'[x].gen = ses[x].gen /\ ses'[x].media = ses[x].media
            /\ ses'[x].closing = ses[x].closing /\ ses'[x].running = ses[x].running
      BY <1>14, CallbackReportsReadyOnly DEF Only, Fields
    <2>2. UNCHANGED <<orch, att, flaps, call, handle, gen, media>> /\ mishaps \subseteq mishaps'
      BY <1>14 DEF CallbackReportsReady
    <2> QED BY <1>c, <2>1, <2>2
  <1>15. CASE PeerExits(s)
    <2>1. \A x \in Attempts :
            /\ ses'[x].life = ses[x].life /\ ses'[x].gen = ses[x].gen /\ ses'[x].media = ses[x].media
            /\ ses'[x].closing = ses[x].closing /\ ses'[x].running = ses[x].running
      BY <1>15, PeerExitsOnly DEF Only, Fields
    <2>2. UNCHANGED <<orch, att, flaps, call, handle, gen, media>> /\ mishaps \subseteq mishaps'
      BY <1>15 DEF PeerExits
    <2> QED BY <1>c, <2>1, <2>2
  <1>16. CASE SenderExits(s)
    <2>1. \A x \in Attempts :
            /\ ses'[x].life = ses[x].life /\ ses'[x].gen = ses[x].gen /\ ses'[x].media = ses[x].media
            /\ ses'[x].closing = ses[x].closing /\ ses'[x].running = ses[x].running
      BY <1>16, SenderExitsOnly DEF Only, Fields
    <2>2. UNCHANGED <<orch, att, flaps, call, handle, gen, media>> /\ mishaps \subseteq mishaps'
      BY <1>16 DEF SenderExits
    <2> QED BY <1>c, <2>1, <2>2
  <1>17. CASE SenderSpawns(s)
    <2>1. \A x \in Attempts :
            /\ ses'[x].life = ses[x].life /\ ses'[x].gen = ses[x].gen /\ ses'[x].media = ses[x].media
            /\ ses'[x].closing = ses[x].closing /\ ses'[x].running = ses[x].running
      BY <1>17, SenderSpawnsOnly DEF Only, Fields
    <2>2. UNCHANGED <<orch, att, flaps, call, handle, gen, media>> /\ mishaps \subseteq mishaps'
      BY <1>17 DEF SenderSpawns
    <2> QED BY <1>c, <2>1, <2>2
  <1> QED BY <1>1, <1>2, <1>3, <1>4, <1>5, <1>6, <1>7, <1>8, <1>9, <1>10, <1>11, <1>12, <1>13, <1>14, <1>15, <1>16, <1>17 DEF PeerReports, PeerStep

LEMMA UpdateKeepsPlace ==
  ASSUME TypeInv, NEW g \in Gens, UpdateChecks(g) \/ UpdateSends(g)
  PROVE  /\ UNCHANGED <<orch, inbox, att, flaps, call, handle, gen, media, mishaps>>
         /\ NobodyCalls
         /\ \A x \in Attempts : \A f \in Fields \ {"conf"} : ses'[x][f] = ses[x][f]
         /\ \A x \in Attempts : ses'[x].conf \in {ses[x].conf, "sent"}
         /\ \A x \in Attempts : PNow(x)' = PNow(x)
  <1>1. UNCHANGED <<orch, inbox, att, flaps, call, handle, gen, media, mishaps>>
    BY DEF UpdateChecks, UpdateSends
  <1>2. NobodyCalls
    BY <1>1, Nobody
  <1>3. CASE ses' = ses
    BY <1>1, <1>2, <1>3 DEF PNow
  <1>4. CASE ses' # ses
    <2>1. UpdateSends(g)
      BY <1>4 DEF UpdateChecks
    <2>2. /\ \A x \in Attempts : \A f \in Fields \ {"conf"} : ses'[x][f] = ses[x][f]
          /\ \A x \in Attempts : ses'[x].conf \in {ses[x].conf, "sent"}
      BY <1>4, <2>1, UpdateSendsOnly DEF Only
    <2>3. \A x \in Attempts : ses'[x].todo = ses[x].todo
      BY <2>2 DEF Fields
    <2> QED BY <1>1, <1>2, <2>2, <2>3 DEF PNow
  <1> QED BY <1>3, <1>4

\* Up to esp_webrtc_close's last step, a caller changes nothing of whose a session is.
CloseWorks(t) ==
  CloseMarks(t) \/ CloseTestsStream(t) \/ CloseStopsStream(t) \/ CloseJoinsSender(t)
  \/ ClosePeer(t) \/ CloseJoinsPeer(t)

LEMMA CloseKeepsPlace ==
  ASSUME TypeInv, NEW t \in Callers, CloseWorks(t)
  PROVE  /\ UNCHANGED <<orch, inbox, att, flaps, shared, media, upd>> /\ mishaps \subseteq mishaps'
         /\ Closing(t) /\ Closing(t)'
         /\ t = "orch" => StopStays /\ Aim("orch")' = Aim("orch") /\ call'["orch"].ses = call["orch"].ses
         /\ t = "stop" => OrchStays /\ call'["stop"].ses = call["stop"].ses
         /\ \A x \in Attempts :
              /\ ses'[x].life = ses[x].life /\ ses'[x].gen = ses[x].gen /\ ses'[x].media = ses[x].media
              /\ ses'[x].todo = ses[x].todo /\ ses'[x].phase = ses[x].phase
              /\ ses'[x].peer = ses[x].peer /\ ses'[x].conf = ses[x].conf /\ ses'[x].sender = ses[x].sender
              /\ ses'[x].chan \in {ses[x].chan, "closed"}
  <1>1. CASE CloseMarks(t)
    <2>1. UNCHANGED <<orch, inbox, att, flaps, shared, media, upd>> /\ mishaps \subseteq mishaps'
      BY <1>1 DEF CloseMarks
    <2>2. \A x \in Attempts :
            /\ ses'[x].life = ses[x].life /\ ses'[x].gen = ses[x].gen /\ ses'[x].media = ses[x].media
            /\ ses'[x].todo = ses[x].todo /\ ses'[x].phase = ses[x].phase
            /\ ses'[x].peer = ses[x].peer /\ ses'[x].conf = ses[x].conf /\ ses'[x].sender = ses[x].sender
            /\ ses'[x].chan \in {ses[x].chan, "closed"}
      BY <1>1, CloseMarksOnly DEF Only, Fields
    <2>3. CASE t = "orch"
      BY <1>1, <2>1, <2>2, <2>3, OrchCloseMarks, CallersAt, InRange DEF Closing, CloseHeads
    <2>4. CASE t = "stop"
      BY <1>1, <2>1, <2>2, <2>4, StopCloseMarks, CallersAt, InRange DEF Closing, CloseHeads
    <2> QED BY <2>3, <2>4 DEF Callers
  <1>2. CASE CloseTestsStream(t)
    <2>1. UNCHANGED <<orch, inbox, att, flaps, shared, media, upd>> /\ mishaps \subseteq mishaps'
      BY <1>2 DEF CloseTestsStream
    <2>2. \A x \in Attempts :
            /\ ses'[x].life = ses[x].life /\ ses'[x].gen = ses[x].gen /\ ses'[x].media = ses[x].media
            /\ ses'[x].todo = ses[x].todo /\ ses'[x].phase = ses[x].phase
            /\ ses'[x].peer = ses[x].peer /\ ses'[x].conf = ses[x].conf /\ ses'[x].sender = ses[x].sender
            /\ ses'[x].chan \in {ses[x].chan, "closed"}
      BY <1>2 DEF Only, Fields, CloseTestsStream
    <2>3. CASE t = "orch"
      BY <1>2, <2>1, <2>2, <2>3, OrchCloseTestsStream, CallersAt, InRange DEF Closing, CloseHeads
    <2>4. CASE t = "stop"
      BY <1>2, <2>1, <2>2, <2>4, StopCloseTestsStream, CallersAt, InRange DEF Closing, CloseHeads
    <2> QED BY <2>3, <2>4 DEF Callers
  <1>3. CASE CloseStopsStream(t)
    <2>1. UNCHANGED <<orch, inbox, att, flaps, shared, media, upd>> /\ mishaps \subseteq mishaps'
      BY <1>3 DEF CloseStopsStream
    <2>2. \A x \in Attempts :
            /\ ses'[x].life = ses[x].life /\ ses'[x].gen = ses[x].gen /\ ses'[x].media = ses[x].media
            /\ ses'[x].todo = ses[x].todo /\ ses'[x].phase = ses[x].phase
            /\ ses'[x].peer = ses[x].peer /\ ses'[x].conf = ses[x].conf /\ ses'[x].sender = ses[x].sender
            /\ ses'[x].chan \in {ses[x].chan, "closed"}
      BY <1>3, CloseStopsStreamOnly DEF Only, Fields
    <2>3. CASE t = "orch"
      BY <1>3, <2>1, <2>2, <2>3, OrchCloseStopsStream, CallersAt, InRange DEF Closing, CloseHeads
    <2>4. CASE t = "stop"
      BY <1>3, <2>1, <2>2, <2>4, StopCloseStopsStream, CallersAt, InRange DEF Closing, CloseHeads
    <2> QED BY <2>3, <2>4 DEF Callers
  <1>4. CASE CloseJoinsSender(t)
    <2>1. UNCHANGED <<orch, inbox, att, flaps, shared, media, upd>> /\ mishaps \subseteq mishaps'
      BY <1>4 DEF CloseJoinsSender
    <2>2. \A x \in Attempts :
            /\ ses'[x].life = ses[x].life /\ ses'[x].gen = ses[x].gen /\ ses'[x].media = ses[x].media
            /\ ses'[x].todo = ses[x].todo /\ ses'[x].phase = ses[x].phase
            /\ ses'[x].peer = ses[x].peer /\ ses'[x].conf = ses[x].conf /\ ses'[x].sender = ses[x].sender
            /\ ses'[x].chan \in {ses[x].chan, "closed"}
      BY <1>4, CloseJoinsSenderOnly DEF Only, Fields
    <2>3. CASE t = "orch"
      BY <1>4, <2>1, <2>2, <2>3, OrchCloseJoinsSender, CallersAt, InRange DEF Closing, CloseHeads
    <2>4. CASE t = "stop"
      BY <1>4, <2>1, <2>2, <2>4, StopCloseJoinsSender, CallersAt, InRange DEF Closing, CloseHeads
    <2> QED BY <2>3, <2>4 DEF Callers
  <1>5. CASE ClosePeer(t)
    <2>1. UNCHANGED <<orch, inbox, att, flaps, shared, media, upd>> /\ mishaps \subseteq mishaps'
      BY <1>5 DEF ClosePeer
    <2>2. \A x \in Attempts :
            /\ ses'[x].life = ses[x].life /\ ses'[x].gen = ses[x].gen /\ ses'[x].media = ses[x].media
            /\ ses'[x].todo = ses[x].todo /\ ses'[x].phase = ses[x].phase
            /\ ses'[x].peer = ses[x].peer /\ ses'[x].conf = ses[x].conf /\ ses'[x].sender = ses[x].sender
            /\ ses'[x].chan \in {ses[x].chan, "closed"}
      BY <1>5, ClosePeerOnly DEF Only, Fields
    <2>3. CASE t = "orch"
      BY <1>5, <2>1, <2>2, <2>3, OrchClosePeer, CallersAt, InRange DEF Closing, CloseHeads
    <2>4. CASE t = "stop"
      BY <1>5, <2>1, <2>2, <2>4, StopClosePeer, CallersAt, InRange DEF Closing, CloseHeads
    <2> QED BY <2>3, <2>4 DEF Callers
  <1>6. CASE CloseJoinsPeer(t)
    <2>1. UNCHANGED <<orch, inbox, att, flaps, shared, media, upd>> /\ mishaps \subseteq mishaps'
      BY <1>6 DEF CloseJoinsPeer
    <2>2. \A x \in Attempts :
            /\ ses'[x].life = ses[x].life /\ ses'[x].gen = ses[x].gen /\ ses'[x].media = ses[x].media
            /\ ses'[x].todo = ses[x].todo /\ ses'[x].phase = ses[x].phase
            /\ ses'[x].peer = ses[x].peer /\ ses'[x].conf = ses[x].conf /\ ses'[x].sender = ses[x].sender
            /\ ses'[x].chan \in {ses[x].chan, "closed"}
      BY <1>6, CloseJoinsPeerOnly DEF Only, Fields
    <2>3. CASE t = "orch"
      BY <1>6, <2>1, <2>2, <2>3, OrchCloseJoinsPeer, CallersAt, InRange DEF Closing, CloseHeads
    <2>4. CASE t = "stop"
      BY <1>6, <2>1, <2>2, <2>4, StopCloseJoinsPeer, CallersAt, InRange DEF Closing, CloseHeads
    <2> QED BY <2>3, <2>4 DEF Callers
  <1> QED BY <1>1, <1>2, <1>3, <1>4, <1>5, <1>6 DEF CloseWorks

-----------------------------------------------------------------------------
(* The steps of the callers, whichever caller it is                        *)

\* The caller t goes on, and nobody else.
OnlyTurns(t) ==
  \A u \in Callers : u # t =>
    call'[u] = call[u] /\ Now(u)' = Now(u) /\ Aim(u)' = Aim(u) /\ Way(u)' = Way(u)

LEMMA Turns ==
  ASSUME NEW t \in Callers, NEW f, NEW l, NEW s, NEW ahead, Goes(t, f, l, s, ahead)
  PROVE  /\ Now(t)' = f /\ Aim(t)' = l /\ Way(t)' = ahead /\ call'[t].ses = s /\ OnlyTurns(t)
  BY DEF Goes, Now, Aim, Way, OnlyTurns

LEMMA TakesTurn ==
  ASSUME TypeInv, NEW t \in Callers, StopTakes(t)
  PROVE  /\ Now(t) = "take" /\ OnlyTurns(t) /\ call'[t].ses = handle
         /\ Now(t)' \in {"teardown", "mark"}
         /\ Way(t)' = (IF handle = 0 THEN "free" ELSE "peer")
  <1>1. CASE handle = 0
    BY <1>1, StopTakesMoves, Turns, InRange DEF TypeInv
  <1>2. CASE handle # 0
    BY <1>2, StopTakesMoves, Turns, InRange DEF TypeInv
  <1> QED BY <1>1, <1>2

LEMMA MarksTurn ==
  ASSUME TypeInv, NEW t \in Callers, CloseMarks(t)
  PROVE  /\ Now(t) = "mark" /\ OnlyTurns(t) /\ call'[t].ses = call[t].ses /\ Aim(t)' = Aim(t)
         /\ Now(t)' = "streams" /\ Way(t) = "peer" /\ Way(t)' = "peer"
  BY CloseMarksMoves, Turns DEF TypeInv

LEMMA TestsTurn ==
  ASSUME TypeInv, NEW t \in Callers, CloseTestsStream(t)
  PROVE  /\ Now(t) = "streams" /\ OnlyTurns(t) /\ call'[t].ses = call[t].ses /\ Aim(t)' = Aim(t)
         /\ Way(t)' = Way(t)
         /\ \/ ses[call[t].ses].sending /\ Now(t)' = "off"
            \/ ~ses[call[t].ses].sending /\ Now(t)' = Way(t) /\ Now(t)' \in {"peer", "free"}
  <1>1. CASE ses[call[t].ses].sending
    BY <1>1, CloseTestsStreamMoves, Turns DEF TypeInv
  <1>2. CASE ~ses[call[t].ses].sending
    BY <1>2, CloseTestsStreamMoves, Turns, CallersAt DEF TypeInv
  <1> QED BY <1>1, <1>2

LEMMA StopsTurn ==
  ASSUME TypeInv, NEW t \in Callers, CloseStopsStream(t)
  PROVE  /\ Now(t) = "off" /\ OnlyTurns(t) /\ call'[t].ses = call[t].ses /\ Aim(t)' = Aim(t)
         /\ Now(t)' = "waitSend" /\ Way(t)' = Way(t)
  BY CloseStopsStreamMoves, Turns DEF TypeInv

LEMMA JoinsSenderTurn ==
  ASSUME TypeInv, NEW t \in Callers, CloseJoinsSender(t)
  PROVE  /\ Now(t) = "waitSend" /\ OnlyTurns(t) /\ call'[t].ses = call[t].ses /\ Aim(t)' = Aim(t)
         /\ Now(t)' = Way(t) /\ Now(t)' \in {"peer", "free"} /\ Way(t)' = Way(t)
  BY CloseJoinsSenderMoves, Turns, CallersAt DEF TypeInv

LEMMA ClosePeerTurn ==
  ASSUME TypeInv, NEW t \in Callers, ClosePeer(t)
  PROVE  /\ Now(t) = "peer" /\ OnlyTurns(t) /\ call'[t].ses = call[t].ses /\ Aim(t)' = Aim(t)
         /\ Way(t) = "peer"
         /\ \/ ses[call[t].ses].running /\ Now(t)' = "waitPeer" /\ Way(t)' = "peer"
            \/ ~ses[call[t].ses].running /\ Now(t)' = "free" /\ Way(t)' = "free"
  <1>1. CASE ses[call[t].ses].running
    BY <1>1, ClosePeerMoves, Turns DEF TypeInv
  <1>2. CASE ~ses[call[t].ses].running
    BY <1>2, ClosePeerMoves, Turns DEF TypeInv
  <1> QED BY <1>1, <1>2

LEMMA JoinsPeerTurn ==
  ASSUME TypeInv, NEW t \in Callers, CloseJoinsPeer(t)
  PROVE  /\ Now(t) = "waitPeer" /\ OnlyTurns(t) /\ call'[t].ses = call[t].ses /\ Aim(t)' = Aim(t)
         /\ Now(t)' \in {"free", "streams"} /\ Way(t) = "peer" /\ Way(t)' = "free"
         /\ ses[call[t].ses].exitBit
  BY CloseJoinsPeerMoves, Turns DEF TypeInv

LEMMA FreesTurn ==
  ASSUME TypeInv, NEW t \in Callers, CloseFrees(t)
  PROVE  /\ Now(t) = "free" /\ OnlyTurns(t) /\ call'[t].ses = call[t].ses /\ Aim(t)' = Aim(t)
         /\ Now(t)' \in {"open", "fail", "teardown"} /\ Way(t) = "free" /\ Way(t)' = "free"
  <1>1. CASE t = "orch"
    BY <1>1, OrchCloseFrees, CloseFreesMoves, Turns DEF TypeInv, Onward
  <1>2. CASE t = "stop"
    BY <1>2, StopCloseFrees, CloseFreesMoves, Turns DEF TypeInv, Onward
  <1> QED BY <1>1, <1>2 DEF Callers

LEMMA TeardownTurn ==
  ASSUME TypeInv, NEW t \in Callers, TearsDownMedia(t)
  PROVE  /\ Now(t) = "teardown" /\ OnlyTurns(t) /\ call'[t].ses = call[t].ses
         /\ Now(t)' \in {"none", "post"} /\ Way(t)' = "free"
  <1>1. CASE t = "orch"
    BY <1>1, TearsDownMediaMoves, Turns DEF TypeInv
  <1>2. CASE t = "stop"
    BY <1>2, TearsDownMediaMoves, Turns DEF TypeInv
  <1> QED BY <1>1, <1>2 DEF Callers

\* Every other step of a caller: it neither comes from within a close nor goes there,
\* except that a session is taken out of use.
LEMMA OtherTurns ==
  ASSUME TypeInv, NEW t \in Callers,
         \/ t = "orch" /\ (StartTakes \/ StartOpens \/ StartStarts \/ StartFails)
         \/ t = "stop" /\ (StopPosts \/ StopExits)
  PROVE  /\ Now(t) \in {"begin", "open", "start", "fail", "post", "exit"} /\ OnlyTurns(t)
         /\ Now(t)' \in {"open", "start", "fail", "mark", "none", "exit"}
         /\ Way(t)' = "peer" <=> Now(t)' = "mark"
  <1>a. OnlyTurns("orch") <=> StopStays
    BY DEF OnlyTurns, StopStays, Callers
  <1>b. OnlyTurns("stop") <=> OrchStays
    BY DEF OnlyTurns, OrchStays, Callers
  <1>1. CASE t = "orch" /\ StartTakes
    BY <1>1, <1>a, OrchStartTakes
  <1>2. CASE t = "orch" /\ StartOpens
    BY <1>2, <1>a, OrchStartOpens
  <1>3. CASE t = "orch" /\ StartStarts
    BY <1>3, <1>a, OrchStartStarts
  <1>4. CASE t = "orch" /\ StartFails
    BY <1>4, <1>a, OrchStartFails
  <1>5. CASE t = "stop" /\ StopPosts
    BY <1>5, <1>b, StopPostsEnd
  <1>6. CASE t = "stop" /\ StopExits
    BY <1>6, <1>b, StopExitsEnd
  <1> QED BY <1>1, <1>2, <1>3, <1>4, <1>5, <1>6

-----------------------------------------------------------------------------
(* Sessions and the media system they use                                  *)

Closes(s) ==
  \/ Closing("orch") /\ call["orch"].ses = s
  \/ Closing("stop") /\ call["stop"].ses = s

\* Unless WiFi is lost while the stop task is at work: a session that is allocated is
\* in use or being closed, and the media system is the one it was given.
Owned ==
  NoOverlap =>
    /\ \A s \in Attempts : ses[s].life = "open" => s = handle \/ Closes(s)
    /\ Closing("orch") => ses[call["orch"].ses].life = "open"
    /\ Closing("stop") => ses[call["stop"].ses].life = "open"
    /\ Aim("orch") = "start" => media # 0
    /\ \A s \in Attempts : ses[s].life = "open" => media # 0 /\ media = ses[s].media

\* Then the stop task is never at work together with the orchestrator.
LEMMA OneAtWork ==
  ASSUME TypeInv, UseInv, NoOverlap, Works
  PROVE  /\ Now("orch") = "none" /\ Aim("orch") = "none"
         /\ Now("stop") # "take" => handle = 0
  <1>1. orch = "stopping" /\ (Now("stop") # "take" => handle = 0)
    BY DEF UseInv, Order
  <1> QED BY <1>1, CallersAt DEF UseInv, Stages

LEMMA CallerOwned ==
  ASSUME TypeInv, UseInv, Owned, NEW t \in Callers, CallStep(t)
  PROVE  Owned'
  <1>r. /\ handle \in 0 .. MaxAttempts /\ att \in 0 .. MaxAttempts /\ MaxAttempts \in Nat
        /\ handle # 0 => handle \in Attempts
        /\ "orch" \in Callers /\ "stop" \in Callers /\ ses \in [Attempts -> Session]
    BY InRange DEF TypeInv, PeersOK
  <1>u. /\ NoOverlap /\ Works => Now("orch") = "none" /\ Aim("orch") = "none"
                              /\ (Now("stop") # "take" => handle = 0)
    BY OneAtWork
  <1>w. /\ Closing("orch") => call["orch"].ses \in Attempts
        /\ Closing("stop") => call["stop"].ses \in Attempts
        /\ handle # 0 => ses[handle].life = "open"
        /\ Aim("orch") = "teardown" /\ Now("orch") # "take" => handle = 0
        /\ Aim("orch") = "start" /\ Now("orch") \notin {"begin", "start"} => handle = 0
        /\ NoOverlap /\ Now("orch") = "start" => handle = att
        /\ NoOverlap /\ Aim("orch") = "teardown" => Now("stop") \in {"none", "exit"}
    BY <1>r, <1>u, Anchors, BoundsAssumption, CallersAt DEF TypeInv, UseInv, InUse, Order, Works
  <1>z. 0 \notin Attempts
    BY DEF Attempts
  <1>n. CloseHeads \cap {"none", "begin", "open", "start", "fail", "take", "teardown", "post", "exit"} = {}
    BY DEF CloseHeads
  <1>s. StartTakes => \A x \in Attempts : ses'[x].life = ses[x].life /\ ses'[x].media = ses[x].media
    <2>1. CASE StartTakes /\ gen' = gen
      BY <2>1 DEF StartTakes, TakeSession, TypeInv, PlainOK
    <2>2. CASE StartTakes /\ gen' # gen
      BY <2>2, StartTakesOnly DEF Only, Fields
    <2> QED BY <2>1, <2>2
  <1>1. CASE CloseWorks(t)
    BY <1>r, <1>1, CloseKeepsPlace, <1>w, CallersAt, <1>u DEF CloseWorks, StopStays, OrchStays, Callers, Owned, Closes, Closing, NoOverlap, CloseHeads, Onward, Works
  <1>2. CASE StopTakes("orch")
    BY <1>r, <1>2, OrchStopTakes, <1>w, CallersAt, <1>u DEF StopTakes, StopStays, TakeSession, Owned, Closes, Closing, NoOverlap, CloseHeads, Onward, Works
  <1>3. CASE StopTakes("stop")
    BY <1>r, <1>3, StopStopTakes, <1>w, CallersAt, <1>u DEF StopTakes, OrchStays, TakeSession, Owned, Closes, Closing, NoOverlap, CloseHeads, Onward, Works
  <1>4. CASE CloseFrees(t)
    <2>1. PICK s \in Attempts : s = call[t].ses
      BY <1>4, CloseFreesOnly
    <2>2. /\ ses'[s].life = "freed" /\ \A x \in Attempts : x # s => ses'[x] = ses[x]
      BY <1>4, <2>1, CloseFreesOnly DEF Only
    <2>3. UNCHANGED <<handle, media, mishaps>>
      BY <1>4 DEF CloseFrees
    <2>4. Now(t) = "free" /\ OnlyTurns(t) /\ Now(t)' \in {"open", "fail", "teardown"} /\ Aim(t)' = Aim(t)
      BY <1>4, FreesTurn
    <2>5. Closing(t) /\ ~(Closing(t)')
      BY <1>n, <2>4 DEF Closing, CloseHeads
    <2>6. NoOverlap => \A u \in Callers : u # t => ~Closing(u) /\ ~(Closing(u)')
      <3> SUFFICES ASSUME NoOverlap, NEW u \in Callers, u # t, Closing(u) PROVE FALSE
        BY <2>4 DEF OnlyTurns, Closing
      <3>1. Closing("orch") /\ Works
        BY <2>5 DEF Callers, Works, Closing
      <3> QED BY <1>u, <1>n, <3>1 DEF Closing
    <2>7. Aim("orch")' = Aim("orch")
      BY <2>4 DEF OnlyTurns, Callers
    <2>8. NoOverlap => \A x \in Attempts : ses'[x].life = "open" =>
            /\ ses[x].life = "open" /\ ses'[x] = ses[x] /\ x = handle
      <3> SUFFICES ASSUME NoOverlap, NEW x \in Attempts, ses'[x].life = "open"
                   PROVE  ses[x].life = "open" /\ ses'[x] = ses[x] /\ x = handle
        OBVIOUS
      <3>1. x # s /\ ses'[x] = ses[x]
        BY <2>2
      <3>2. ~Closes(x)
        BY <1>r, <2>1, <2>6, <3>1 DEF Closes
      <3> QED BY <3>1, <3>2 DEF Owned
    <2>9. NoOverlap => ~(Closing("orch")') /\ ~(Closing("stop")')
      BY <1>r, <2>5, <2>6
    <2> QED BY <2>3, <2>7, <2>8, <2>9 DEF Owned, NoOverlap
  <1>6. CASE TearsDownMedia("orch")
    <2>1. NoOverlap => handle = 0 /\ ~Closing("orch") /\ ~Closing("stop") /\ Aim("orch") # "start"
      BY <1>n, <1>w, <1>u, <1>6, OrchTearsDownMedia, CallersAt DEF Closing, Works
    <2>2. NoOverlap => \A x \in Attempts : ses[x].life # "open"
      BY <1>r, <2>1 DEF Owned, Closes, Attempts
    <2>3. UNCHANGED <<ses, mishaps>> /\ ~(Closing("orch")') /\ Aim("orch")' \in {"none", Aim("orch")}
      BY <1>n, <1>6, OrchTearsDownMedia DEF TearsDownMedia, Closing, StopStays
    <2> QED BY <1>n, <1>6, <2>1, <2>2, <2>3, OrchTearsDownMedia DEF StopStays, Owned, Closes, Closing, NoOverlap
  <1>7. CASE TearsDownMedia("stop")
    <2>1. NoOverlap => handle = 0 /\ ~Closing("orch") /\ ~Closing("stop") /\ Aim("orch") # "start"
      BY <1>n, <1>w, <1>u, <1>7, StopTearsDownMedia, CallersAt DEF Closing, Works
    <2>2. NoOverlap => \A x \in Attempts : ses[x].life # "open"
      BY <1>r, <2>1 DEF Owned, Closes, Attempts
    <2>3. UNCHANGED <<ses, mishaps>> /\ ~(Closing("stop")') /\ Aim("orch")' \in {"none", Aim("orch")}
      BY <1>n, <1>7, StopTearsDownMedia DEF TearsDownMedia, Closing, OrchStays
    <2> QED BY <1>n, <1>7, <2>1, <2>2, <2>3, StopTearsDownMedia DEF OrchStays, Owned, Closes, Closing, NoOverlap
  <1>8. CASE StartTakes
    <2>1. \A x \in Attempts : ses'[x].life = ses[x].life /\ ses'[x].media = ses[x].media
      BY <1>8, <1>s
    <2>2. Now("orch") = "begin" /\ Aim("orch") = "start" /\ StopStays /\ UNCHANGED <<media, mishaps>>
      BY <1>8, OrchStartTakes DEF StartTakes
    <2>3. CASE /\ handle' = 0 /\ Aim("orch")' = "start" /\ call'["orch"].ses = handle
               /\ Now("orch")' = IF handle = 0 THEN "open" ELSE "mark"
      <3>1. CASE handle = 0
        BY <1>n, <1>w, <2>1, <2>2, <2>3, <3>1 DEF StopStays, Owned, Closes, Closing, NoOverlap
      <3>2. CASE handle # 0
        <4>1. Closing("orch")' /\ ~Closing("orch") /\ (Closing("stop")' <=> Closing("stop"))
          BY <1>n, <2>2, <2>3, <3>2 DEF Closing, StopStays, CloseHeads
        <4> QED BY <1>r, <1>w, <2>1, <2>2, <2>3, <3>2, <4>1 DEF StopStays, Owned, Closes, NoOverlap
      <3> QED BY <3>1, <3>2
    <2>4. CASE handle' = handle /\ Aim("orch")' = "fail" /\ Now("orch")' = "fail"
      BY <1>n, <1>w, <2>1, <2>2, <2>4 DEF StopStays, Owned, Closes, Closing, NoOverlap
    <2> QED BY <1>8, <2>3, <2>4, OrchStartTakes DEF TakeSession
  <1>9. CASE StartOpens
    <2>1. /\ ses'[att].life = "open" /\ ses'[att].media = media /\ att \in Attempts
          /\ \A x \in Attempts : x # att => ses'[x].life = ses[x].life /\ ses'[x].media = ses[x].media
      BY <1>9, StartOpensOnly DEF Only
    <2>2. handle' = att /\ UNCHANGED <<media, mishaps>>
      BY <1>9 DEF StartOpens
    <2>3. /\ Now("orch") = "open" /\ Aim("orch") = "start" /\ StopStays
          /\ Now("orch")' = "start" /\ Aim("orch")' = "start"
      BY <1>9, OrchStartOpens
    <2>4. handle = 0 /\ ~Closing("orch") /\ ~(Closing("orch")') /\ (Closing("stop")' <=> Closing("stop"))
      BY <1>n, <1>w, <2>3 DEF Closing, StopStays
    <2>5. call'["stop"] = call["stop"] /\ media' = media /\ mishaps' = mishaps
      BY <2>2, <2>3 DEF StopStays
    <2>6. NoOverlap => \A s \in Attempts : ses'[s].life = "open" => s = handle' \/ Closes(s)'
      BY <1>z, <2>1, <2>2, <2>4, <2>5 DEF Owned, Closes
    <2>7. NoOverlap /\ Closing("stop") => ses'[call["stop"].ses].life = "open"
      BY <1>w, <2>1 DEF Owned
    <2>8. NoOverlap => media # 0 /\ \A s \in Attempts : ses'[s].life = "open" => media = ses'[s].media
      BY <2>1, <2>3 DEF Owned
    <2> QED BY <2>4, <2>5, <2>6, <2>7, <2>8 DEF Owned, NoOverlap
  <1>10. CASE StartStarts
    <2>1. \A x \in Attempts : ses'[x].life = ses[x].life /\ ses'[x].media = ses[x].media
      BY <1>10, StartStartsOnly DEF Only, Fields
    <2>2. /\ Now("orch") = "start" /\ Aim("orch") = "start" /\ StopStays /\ UNCHANGED <<media, mishaps, att>>
          /\ att \in Attempts
      BY <1>10, OrchStartStarts, StartStartsOnly DEF StartStarts
    <2>3. ~Closing("orch") /\ (Closing("stop")' <=> Closing("stop"))
      BY <1>n, <2>2 DEF Closing, StopStays
    <2>4. CASE handle' = handle /\ Now("orch")' = "none" /\ Aim("orch")' = "none"
      BY <1>n, <1>w, <2>1, <2>2, <2>3, <2>4 DEF StopStays, Owned, Closes, Closing, NoOverlap
    <2>5. CASE /\ handle' = (IF handle = att THEN 0 ELSE handle) /\ Now("orch")' = "mark"
               /\ Aim("orch")' = "fail" /\ call'["orch"].ses = att
      <3>1. Closing("orch")'
        BY <2>5 DEF Closing, CloseHeads
      <3>2. call'["stop"] = call["stop"] /\ media' = media /\ mishaps' = mishaps
        BY <2>2 DEF StopStays
      <3>3. NoOverlap => \A s \in Attempts : ses'[s].life = "open" => s = handle' \/ Closes(s)'
        BY <2>1, <2>3, <2>5, <3>1, <3>2 DEF Owned, Closes
      <3>4. NoOverlap => ses'[att].life = "open"
        BY <1>z, <1>w, <2>1, <2>2
      <3>5. NoOverlap /\ Closing("stop") => ses'[call["stop"].ses].life = "open"
        BY <1>w, <2>1 DEF Owned
      <3>6. NoOverlap => \A s \in Attempts : ses'[s].life = "open" => media # 0 /\ media = ses'[s].media
        BY <2>1 DEF Owned
      <3> QED BY <2>3, <2>5, <3>1, <3>2, <3>3, <3>4, <3>5, <3>6 DEF Owned, NoOverlap
    <2> QED BY <1>10, <2>4, <2>5, OrchStartStarts DEF TakeSession
  <1>11. CASE StartFails
    BY <1>r, <1>11, OrchStartFails, <1>w, CallersAt, <1>u DEF StartFails, StopStays, Owned, Closes, Closing, NoOverlap, CloseHeads, Onward, Works
  <1>12. CASE StopPosts
    BY <1>r, <1>12, StopPostsEnd, <1>w, CallersAt, <1>u DEF StopPosts, OrchStays, Owned, Closes, Closing, NoOverlap, CloseHeads, Onward, Works
  <1>13. CASE StopExits
    BY <1>r, <1>13, StopExitsEnd, <1>w, CallersAt, <1>u DEF StopExits, OrchStays, Owned, Closes, Closing, NoOverlap, CloseHeads, Onward, Works
  <1> QED BY <1>1, <1>2, <1>3, <1>4, <1>6, <1>7, <1>8, <1>9, <1>10, <1>11, <1>12, <1>13 DEF CallStep, CloseWorks, Callers

LEMMA OwnedKept ==
  ASSUME TypeInv, Owned, UNCHANGED <<handle, media>>, mishaps \subseteq mishaps', NobodyCalls,
         \A x \in Attempts : ses'[x].life = ses[x].life /\ ses'[x].media = ses[x].media
  PROVE  Owned'
  <1>1. /\ Closing("orch") => call["orch"].ses \in Attempts
        /\ Closing("stop") => call["stop"].ses \in Attempts
    BY InRange, Anchors, BoundsAssumption DEF TypeInv
  <1> QED BY <1>1 DEF NobodyCalls, StopStays, OrchStays, Owned, Closes, Closing, NoOverlap

LEMMA OrchestratorOwned ==
  ASSUME TypeInv, UseInv, Owned, Ignites \/ LosesWifi \/ SessionEnds \/ OrchestratorStep
  PROVE  Owned'
  <1>r. /\ handle # 0 => handle \in Attempts /\ ses[handle].life = "open"
        /\ UNCHANGED call => NobodyCalls
        /\ att \in 0 .. MaxAttempts /\ MaxAttempts \in Nat
    BY InRange, Nobody DEF UseInv, InUse
  <1>n. CloseHeads \cap {"none", "begin", "take"} = {}
    BY DEF CloseHeads
  <1>1. CASE Ignites
    BY <1>r, <1>n, <1>1, OrchIgnites DEF Ignites, StopStays, OrchStays, Owned, Closes, Closing, NoOverlap
  <1>2. CASE LosesWifi
    BY <1>r, <1>n, <1>2, OrchLosesWifi DEF LosesWifi, StopStays, Owned, Closes, Closing, NoOverlap
  <1>3. ASSUME NEW q, EnterStopping(q), UNCHANGED <<att, flaps, shared, rtcHandle, media, ses, upd>>
        PROVE  Owned'
    BY <1>r, <1>n, <1>3, StopBegins DEF StopStays, OrchStays, Owned, Closes, Closing, NoOverlap
  <1>4. ASSUME UNCHANGED <<call, handle, media, ses, mishaps>>
        PROVE  Owned'
    BY <1>r, <1>4 DEF NobodyCalls, StopStays, OrchStays, Owned, Closes, Closing, NoOverlap
  <1>5. CASE SessionEnds
    BY <1>3, <1>5 DEF SessionEnds
  <1>6. CASE OrchestratorStep
    BY <1>3, <1>4, <1>6 DEF OrchestratorStep, OnReady, OnDown, OnStopped
  <1> QED BY <1>1, <1>2, <1>5, <1>6

LEMMA OwnedBegins == Init => Owned
  <1> SUFFICES ASSUME Init PROVE Owned
    OBVIOUS
  <1>1. \A s \in Attempts : ses[s].life = "none"
    BY DEF Init, Closed
  <1>2. call["orch"].todo = <<>> /\ call["stop"].todo = <<>>
    BY DEF Init, Callers
  <1> QED BY <1>1, <1>2, NewLists DEF Owned, Now, Aim, Closing, CloseHeads

LEMMA OwnedStays == TypeInv /\ UseInv /\ Owned /\ [Next]_vars => Owned'
  <1> SUFFICES ASSUME TypeInv, UseInv, Owned, [Next]_vars PROVE Owned'
    OBVIOUS
  <1>1. CASE UNCHANGED vars
    BY <1>1, Nobody, OwnedKept
  <1>2. ASSUME NEW s \in Attempts, PeerReports(s) \/ PeerStep(s) \/ SenderExits(s)
        PROVE  Owned'
    BY <1>2, PeerKeepsPlace, OwnedKept
  <1>3. ASSUME NEW g \in Gens, UpdateChecks(g) \/ UpdateSends(g)
        PROVE  Owned'
    BY <1>3, UpdateKeepsPlace, OwnedKept DEF Fields
  <1> QED BY <1>1, <1>2, <1>3, CallerOwned, OrchestratorOwned DEF Next

LEMMA OwnedAlways == Spec => []Owned
  BY OwnedBegins, OwnedStays, Typed, InUseAlways, PTL DEF Spec

\* The capture and the player a session was given exist until it is freed
\* (README.md:199): media_sys_teardown never comes before esp_webrtc_close has
\* returned, unless WiFi is lost while the stop task is at work.
THEOREM MediaOutlives == Spec => []MediaOutlivesSession
  <1>1. Owned => MediaOutlivesSession
    BY DEF Owned, NoOverlap, MediaOutlivesSession
  <1> QED BY <1>1, OwnedAlways, PTL

-----------------------------------------------------------------------------
(* Sessions that have not been started                                     *)

\* Nothing has happened in the session s.
Virgin(s) ==
  /\ ses[s].peer = "none" /\ ses[s].running = FALSE /\ ses[s].exitBit = FALSE /\ ses[s].todo = <<>>
  /\ ses[s].phase = "new" /\ ses[s].chan = "new" /\ ses[s].conf = "no"
  /\ ses[s].sender = FALSE /\ ses[s].sending = FALSE /\ ses[s].quitBit = FALSE

Untouched ==
  /\ \A s \in Attempts : s > att => Virgin(s)
  /\ Aim("orch") \in {"start", "fail"} =>
       /\ Virgin(att)
       /\ Now("orch") \in {"off", "waitSend"} => call["orch"].ses # att
       /\ Now("stop") \in {"off", "waitSend"} => call["stop"].ses # att

\* What a new session is does not depend on the fields F, nor on running when that is FALSE.
LEMMA VirginKept ==
  ASSUME NEW s \in Attempts, NEW F \in SUBSET {"life", "gen", "media", "closing", "running"}, Only(s, F), Virgin(s),
         "running" \notin F \/ ses'[s].running = FALSE
  PROVE  Virgin(s)'
  <1>1. \A f \in {"peer", "exitBit", "todo", "phase", "chan", "conf", "sender", "sending", "quitBit"} : ses'[s][f] = ses[s][f]
    BY DEF Only, Fields
  <1>2. ses'[s].peer = "none" /\ ses'[s].todo = <<>> /\ ses'[s].phase = "new" /\ ses'[s].chan = "new" /\ ses'[s].conf = "no"
    BY <1>1 DEF Virgin
  <1>3. ses'[s].running = FALSE
    <2>1. CASE "running" \in F
      BY <2>1
    <2>2. CASE "running" \notin F
      <3>1. ses'[s].running = ses[s].running
        BY <2>2 DEF Only, Fields
      <3> QED BY <3>1, Zenon DEF Virgin
    <2> QED BY <2>1, <2>2
  <1>4. /\ ses'[s].exitBit = ses[s].exitBit /\ ses'[s].sender = ses[s].sender
        /\ ses'[s].sending = ses[s].sending /\ ses'[s].quitBit = ses[s].quitBit
    BY <1>1, Zenon
  <1>5. /\ ses'[s].exitBit = FALSE /\ ses'[s].sender = FALSE
        /\ ses'[s].sending = FALSE /\ ses'[s].quitBit = FALSE
    BY <1>4, Zenon DEF Virgin
  <1> QED BY <1>2, <1>3, <1>5 DEF Virgin

\* pc_task and pc_send only work in sessions that have been started.
LEMMA PeerWorks ==
  ASSUME TypeInv, NEW s \in Attempts, PeerReports(s) \/ PeerStep(s) \/ SenderExits(s)
  PROVE  /\ ses[s].peer = "loop" \/ ses[s].sender
         /\ ses \in [Attempts -> Session] /\ ses' \in [Attempts -> Session]
         /\ \A x \in Attempts : x # s => ses'[x] = ses[x]
  <1>1. CASE PeerConnects(s)
    BY <1>1, PeerConnectsServes DEF TypeInv, Serves, PeersOK, PeerConnects, Loops
  <1>2. CASE PeerFails(s)
    BY <1>2, PeerFailsServes DEF TypeInv, Serves, PeersOK, PeerFails, Loops
  <1>3. CASE PeerOpensChannel(s)
    BY <1>3, PeerOpensChannelServes DEF TypeInv, Serves, PeersOK, PeerOpensChannel, Loops
  <1>4. CASE PeerLosesChannel(s)
    BY <1>4, PeerLosesChannelServes DEF TypeInv, Serves, PeersOK, PeerLosesChannel, Loops
  <1>5. CASE PeerDisconnects(s)
    BY <1>5, PeerDisconnectsServes DEF TypeInv, Serves, PeersOK, PeerDisconnects, Loops
  <1>6. CASE ServerAnswers(s)
    BY <1>6, ServerAnswersServes DEF TypeInv, Serves, PeersOK, ServerAnswers, Loops
  <1>7. CASE StreamStarts(s)
    BY <1>7, StreamStartsServes DEF TypeInv, Serves, PeersOK, StreamStarts
  <1>8. CASE StreamTested(s)
    BY <1>8, StreamTestedServes DEF TypeInv, Serves, PeersOK, StreamTested
  <1>9. CASE StreamStops(s)
    BY <1>9, StreamStopsServes DEF TypeInv, Serves, PeersOK, StreamStops
  <1>10. CASE PeerJoinsSender(s)
    BY <1>10, PeerJoinsSenderServes DEF TypeInv, Serves, PeersOK, PeerJoinsSender
  <1>11. CASE CallbackChecks(s)
    BY <1>11, CallbackChecksServes DEF TypeInv, Serves, PeersOK, CallbackChecks
  <1>12. CASE CallbackSchedules(s)
    BY <1>12, CallbackSchedulesServes DEF TypeInv, Serves, PeersOK, CallbackSchedules
  <1>13. CASE CallbackReportsDown(s)
    BY <1>13, CallbackReportsDownServes DEF TypeInv, Serves, PeersOK, CallbackReportsDown
  <1>14. CASE CallbackReportsReady(s)
    BY <1>14, CallbackReportsReadyServes DEF TypeInv, Serves, PeersOK, CallbackReportsReady
  <1>15. CASE PeerExits(s)
    BY <1>15, PeerExitsServes DEF TypeInv, Serves, PeersOK, PeerExits
  <1>16. CASE SenderExits(s)
    BY <1>16, SenderExitsServes DEF TypeInv, Serves, PeersOK, SenderExits
  <1>17. CASE SenderSpawns(s)
    BY <1>17, SenderSpawnsServes DEF TypeInv, Serves, PeersOK, SenderSpawns
  <1> QED BY <1>1, <1>2, <1>3, <1>4, <1>5, <1>6, <1>7, <1>8, <1>9, <1>10, <1>11, <1>12, <1>13, <1>14, <1>15, <1>16, <1>17 DEF PeerReports, PeerStep

LEMMA UntouchedElsewhere ==
  ASSUME TypeInv, Untouched, NEW s \in Attempts, ~Virgin(s), UNCHANGED att, NobodyCalls,
         \A x \in Attempts : x # s => ses'[x] = ses[x]
  PROVE  Untouched'
  <1>1. Aim("orch") \in {"start", "fail"} => att \in Attempts
    BY InRange DEF TypeInv, Anchored, Attempts
  <1> QED BY <1>1 DEF NobodyCalls, StopStays, OrchStays, Untouched, Virgin

LEMMA UntouchedFields ==
  ASSUME TypeInv, Untouched, UNCHANGED att, NobodyCalls, ses' = ses
  PROVE  Untouched'
  BY DEF NobodyCalls, StopStays, OrchStays, Untouched, Virgin

LEMMA UpdateUntouched ==
  ASSUME TypeInv, Untouched, NEW g \in Gens, UpdateChecks(g) \/ UpdateSends(g)
  PROVE  Untouched'
  <1>1. UNCHANGED att /\ NobodyCalls
    BY UpdateKeepsPlace
  <1>2. CASE ses' = ses
    BY <1>1, <1>2, UntouchedFields
  <1>3. CASE ses' # ses
    <2>1. UpdateSends(g)
      BY <1>3 DEF UpdateChecks
    <2>2. handle \in Attempts /\ Only(handle, {"conf"})
      BY <1>3, <2>1, UpdateSendsOnly
    <2>3. ses[handle].chan = "open"
      BY <1>3, <2>1 DEF UpdateSends, Sendable
    <2>4. ~Virgin(handle)
      BY <2>3 DEF Virgin
    <2> QED BY <1>1, <2>2, <2>4, UntouchedElsewhere DEF Only
  <1> QED BY <1>2, <1>3

\* A caller comes to the step f in the session s, or ends.
LEMMA CallerUntouched ==
  ASSUME TypeInv, UseInv, Untouched, NEW t \in Callers, CallStep(t)
  PROVE  Untouched'
  <1>r. /\ handle \in 0 .. MaxAttempts /\ att \in 0 .. MaxAttempts /\ MaxAttempts \in Nat
        /\ "orch" \in Callers /\ "stop" \in Callers
        /\ Aim("orch") \in {"start", "fail"} => att \in Attempts
        /\ Closing("orch") => call["orch"].ses \in Attempts
        /\ Closing("stop") => call["stop"].ses \in Attempts
        /\ call["orch"].ses <= att /\ call["stop"].ses <= att
    BY InRange, Anchors, BoundsAssumption DEF TypeInv, Anchored, Attempts, UseInv, InUse
  <1>n. CloseHeads \cap {"none", "begin", "open", "start", "fail", "take", "teardown", "post", "exit"} = {}
    BY DEF CloseHeads
  <1>b. Attempts \subseteq Nat
    BY DEF Attempts
  <1>f. /\ \A f \in {"closing", "gen"} : {f} \in SUBSET {"life", "gen", "media", "closing", "running"} /\ "running" \notin {f}
        /\ {"running"} \in SUBSET {"life", "gen", "media", "closing", "running"}
        /\ {"life", "media"} \in SUBSET {"life", "gen", "media", "closing", "running"}
        /\ "running" \notin {"life", "media"}
    OBVIOUS
  \* A caller turns to a step in which it does not stop a stream, with ses unchanged or
  \* the session of the orchestrator as new as before.
  <1>k. ASSUME UNCHANGED att, Aim("orch")' \in {Aim("orch"), "none", "fail", "teardown"},
               Aim("orch")' = "fail" => Aim("orch") \in {"start", "fail"},
               \A x \in Attempts : x > att => ses'[x] = ses[x],
               Aim("orch") \in {"start", "fail"} => Virgin(att)',
               Now("orch")' \in {"off", "waitSend"} =>
                 (Aim("orch") \in {"start", "fail"} => call'["orch"].ses # att),
               Now("stop")' \in {"off", "waitSend"} =>
                 (Aim("orch") \in {"start", "fail"} => call'["stop"].ses # att)
        PROVE  Untouched'
    BY <1>k, <1>r DEF Untouched, Virgin
  <1>1. CASE StopTakes("orch")
    BY <1>1, <1>k, OrchStopTakes, CallersAt DEF StopTakes, StopStays, Untouched, Virgin
  <1>2. CASE StopTakes("stop")
    BY <1>2, <1>k, StopStopTakes, CallersAt DEF StopTakes, OrchStays, Untouched, Virgin
  <1>3. CASE TearsDownMedia("orch")
    BY <1>3, <1>k, OrchTearsDownMedia, CallersAt DEF TearsDownMedia, StopStays, Untouched, Virgin
  <1>4. CASE TearsDownMedia("stop")
    BY <1>4, <1>k, StopTearsDownMedia, CallersAt DEF TearsDownMedia, OrchStays, Untouched, Virgin
  <1>5. CASE CloseMarks("orch")
    <2>2. UNCHANGED att /\ call["orch"].ses \in Attempts /\ \A x \in Attempts : x # call["orch"].ses => ses'[x] = ses[x]
      BY <1>r, <1>5, CloseMarksOnly DEF CloseMarks, Only
    <2>3. Aim("orch") \in {"start", "fail"} => Virgin(att)'
      <3>1. ASSUME call["orch"].ses = att, Aim("orch") \in {"start", "fail"} PROVE Virgin(att)'
        <4>1. Virgin(att) /\ att \in Attempts /\ att' = att
          BY <1>r, <2>2, <3>1 DEF Untouched
        <4>2. PICK x \in Attempts : x = att
          BY <4>1
        <4>3. Only(x, {"closing"}) /\ Virgin(x) /\ ("running" \in {"closing"} => ses'[x].running = FALSE)
          BY <1>r, <1>5, <3>1, <4>1, <4>2, CloseMarksOnly
        <4>4. Virgin(x)'
          BY <1>f, <4>3, VirginKept
        <4> QED BY <4>1, <4>2, <4>4, Zenon DEF Virgin
      <3>2. CASE call["orch"].ses # att
        BY <1>r, <2>2, <3>2 DEF Untouched, Virgin
      <3> QED BY <3>1, <3>2
    <2> QED BY <1>b, <1>r, <1>5, <1>k, <2>2, <2>3, OrchCloseMarks DEF StopStays, Untouched
  <1>6. CASE CloseMarks("stop")
    <2>2. UNCHANGED att /\ call["stop"].ses \in Attempts /\ \A x \in Attempts : x # call["stop"].ses => ses'[x] = ses[x]
      BY <1>r, <1>6, CloseMarksOnly DEF CloseMarks, Only
    <2>3. Aim("orch") \in {"start", "fail"} => Virgin(att)'
      <3>1. ASSUME call["stop"].ses = att, Aim("orch") \in {"start", "fail"} PROVE Virgin(att)'
        <4>1. Virgin(att) /\ att \in Attempts /\ att' = att
          BY <1>r, <2>2, <3>1 DEF Untouched
        <4>2. PICK x \in Attempts : x = att
          BY <4>1
        <4>3. Only(x, {"closing"}) /\ Virgin(x) /\ ("running" \in {"closing"} => ses'[x].running = FALSE)
          BY <1>r, <1>6, <3>1, <4>1, <4>2, CloseMarksOnly
        <4>4. Virgin(x)'
          BY <1>f, <4>3, VirginKept
        <4> QED BY <4>1, <4>2, <4>4, Zenon DEF Virgin
      <3>2. CASE call["stop"].ses # att
        BY <1>r, <2>2, <3>2 DEF Untouched, Virgin
      <3> QED BY <3>1, <3>2
    <2> QED BY <1>b, <1>r, <1>6, <1>k, <2>2, <2>3, StopCloseMarks DEF OrchStays, Untouched
  <1>7. CASE CloseTestsStream("orch")
    <2>1. UNCHANGED <<att, ses>>
      BY <1>7 DEF CloseTestsStream
    <2>2. Aim("orch") \in {"start", "fail"} /\ call'["orch"].ses = att => Now("orch")' \notin {"off", "waitSend"}
      <3>1. Aim("orch") \in {"start", "fail"} => ses[att].sending = FALSE
        BY DEF Untouched, Virgin
      <3>2. Way("orch") \in {"peer", "free"}
        BY <1>r, CallersAt
      <3> QED BY <1>7, <3>1, <3>2, OrchCloseTestsStream
    <2> QED BY <1>7, <1>k, <2>1, <2>2, OrchCloseTestsStream DEF StopStays, Untouched, Virgin
  <1>8. CASE CloseTestsStream("stop")
    <2>1. UNCHANGED <<att, ses>>
      BY <1>8 DEF CloseTestsStream
    <2>2. Aim("orch") \in {"start", "fail"} /\ call'["stop"].ses = att => Now("stop")' \notin {"off", "waitSend"}
      <3>1. Aim("orch") \in {"start", "fail"} => ses[att].sending = FALSE
        BY DEF Untouched, Virgin
      <3>2. Way("stop") \in {"peer", "free"}
        BY <1>r, CallersAt
      <3> QED BY <1>8, <3>1, <3>2, StopCloseTestsStream
    <2> QED BY <1>8, <1>k, <2>1, <2>2, StopCloseTestsStream DEF OrchStays, Untouched, Virgin
  <1>9. CASE CloseStopsStream("orch")
    <2>1. Aim("orch") \in {"start", "fail"} => call["orch"].ses # att
      BY <1>9, OrchCloseStopsStream DEF Untouched
    <2>2. UNCHANGED att /\ call["orch"].ses \in Attempts /\ \A x \in Attempts : x # call["orch"].ses => ses'[x] = ses[x]
      BY <1>r, <1>9, CloseStopsStreamOnly DEF CloseStopsStream, Only
    <2>3. Aim("orch") \in {"start", "fail"} => Virgin(att)'
      BY <1>r, <2>1, <2>2 DEF Untouched, Virgin
    <2> QED BY <1>b, <1>r, <1>9, <1>k, <2>1, <2>2, <2>3, OrchCloseStopsStream DEF StopStays, Untouched
  <1>10. CASE CloseStopsStream("stop")
    <2>1. Aim("orch") \in {"start", "fail"} => call["stop"].ses # att
      BY <1>10, StopCloseStopsStream DEF Untouched
    <2>2. UNCHANGED att /\ call["stop"].ses \in Attempts /\ \A x \in Attempts : x # call["stop"].ses => ses'[x] = ses[x]
      BY <1>r, <1>10, CloseStopsStreamOnly DEF CloseStopsStream, Only
    <2>3. Aim("orch") \in {"start", "fail"} => Virgin(att)'
      BY <1>r, <2>1, <2>2 DEF Untouched, Virgin
    <2> QED BY <1>b, <1>r, <1>10, <1>k, <2>1, <2>2, <2>3, StopCloseStopsStream DEF OrchStays, Untouched
  <1>11. CASE CloseJoinsSender("orch")
    <2>1. Aim("orch") \in {"start", "fail"} => call["orch"].ses # att
      BY <1>11, OrchCloseJoinsSender DEF Untouched
    <2>2. UNCHANGED att /\ call["orch"].ses \in Attempts /\ \A x \in Attempts : x # call["orch"].ses => ses'[x] = ses[x]
      BY <1>r, <1>11, CloseJoinsSenderOnly DEF CloseJoinsSender, Only
    <2>3. Aim("orch") \in {"start", "fail"} => Virgin(att)'
      BY <1>r, <2>1, <2>2 DEF Untouched, Virgin
    <2> QED BY <1>b, <1>r, <1>11, <1>k, <2>1, <2>2, <2>3, OrchCloseJoinsSender DEF StopStays, Untouched
  <1>12. CASE CloseJoinsSender("stop")
    <2>1. Aim("orch") \in {"start", "fail"} => call["stop"].ses # att
      BY <1>12, StopCloseJoinsSender DEF Untouched
    <2>2. UNCHANGED att /\ call["stop"].ses \in Attempts /\ \A x \in Attempts : x # call["stop"].ses => ses'[x] = ses[x]
      BY <1>r, <1>12, CloseJoinsSenderOnly DEF CloseJoinsSender, Only
    <2>3. Aim("orch") \in {"start", "fail"} => Virgin(att)'
      BY <1>r, <2>1, <2>2 DEF Untouched, Virgin
    <2> QED BY <1>b, <1>r, <1>12, <1>k, <2>1, <2>2, <2>3, StopCloseJoinsSender DEF OrchStays, Untouched
  <1>13. CASE ClosePeer("orch")
    <2>2. UNCHANGED att /\ call["orch"].ses \in Attempts /\ \A x \in Attempts : x # call["orch"].ses => ses'[x] = ses[x]
      BY <1>r, <1>13, ClosePeerOnly DEF ClosePeer, Only
    <2>3. Aim("orch") \in {"start", "fail"} => Virgin(att)'
      <3>1. ASSUME call["orch"].ses = att, Aim("orch") \in {"start", "fail"} PROVE Virgin(att)'
        <4>1. Virgin(att) /\ att \in Attempts /\ att' = att
          BY <1>r, <2>2, <3>1 DEF Untouched
        <4>2. PICK x \in Attempts : x = att
          BY <4>1
        <4>3. Only(x, {"running"}) /\ Virgin(x) /\ ("running" \in {"running"} => ses'[x].running = FALSE)
          BY <1>r, <1>13, <3>1, <4>1, <4>2, ClosePeerOnly
        <4>4. Virgin(x)'
          BY <1>f, <4>3, VirginKept
        <4> QED BY <4>1, <4>2, <4>4, Zenon DEF Virgin
      <3>2. CASE call["orch"].ses # att
        BY <1>r, <2>2, <3>2 DEF Untouched, Virgin
      <3> QED BY <3>1, <3>2
    <2> QED BY <1>b, <1>r, <1>13, <1>k, <2>2, <2>3, OrchClosePeer DEF StopStays, Untouched
  <1>14. CASE ClosePeer("stop")
    <2>2. UNCHANGED att /\ call["stop"].ses \in Attempts /\ \A x \in Attempts : x # call["stop"].ses => ses'[x] = ses[x]
      BY <1>r, <1>14, ClosePeerOnly DEF ClosePeer, Only
    <2>3. Aim("orch") \in {"start", "fail"} => Virgin(att)'
      <3>1. ASSUME call["stop"].ses = att, Aim("orch") \in {"start", "fail"} PROVE Virgin(att)'
        <4>1. Virgin(att) /\ att \in Attempts /\ att' = att
          BY <1>r, <2>2, <3>1 DEF Untouched
        <4>2. PICK x \in Attempts : x = att
          BY <4>1
        <4>3. Only(x, {"running"}) /\ Virgin(x) /\ ("running" \in {"running"} => ses'[x].running = FALSE)
          BY <1>r, <1>14, <3>1, <4>1, <4>2, ClosePeerOnly
        <4>4. Virgin(x)'
          BY <1>f, <4>3, VirginKept
        <4> QED BY <4>1, <4>2, <4>4, Zenon DEF Virgin
      <3>2. CASE call["stop"].ses # att
        BY <1>r, <2>2, <3>2 DEF Untouched, Virgin
      <3> QED BY <3>1, <3>2
    <2> QED BY <1>b, <1>r, <1>14, <1>k, <2>2, <2>3, StopClosePeer DEF OrchStays, Untouched
  <1>15. CASE CloseJoinsPeer("orch")
    <2>1. Aim("orch") \in {"start", "fail"} => call["orch"].ses # att
      <3>1. ses[call["orch"].ses].exitBit
        BY <1>15 DEF CloseJoinsPeer
      <3> QED BY <3>1 DEF Untouched, Virgin
    <2>2. UNCHANGED att /\ call["orch"].ses \in Attempts /\ \A x \in Attempts : x # call["orch"].ses => ses'[x] = ses[x]
      BY <1>r, <1>15, CloseJoinsPeerOnly DEF CloseJoinsPeer, Only
    <2>3. Aim("orch") \in {"start", "fail"} => Virgin(att)'
      BY <1>r, <2>1, <2>2 DEF Untouched, Virgin
    <2> QED BY <1>b, <1>r, <1>15, <1>k, <2>1, <2>2, <2>3, OrchCloseJoinsPeer DEF StopStays, Untouched
  <1>16. CASE CloseJoinsPeer("stop")
    <2>1. Aim("orch") \in {"start", "fail"} => call["stop"].ses # att
      <3>1. ses[call["stop"].ses].exitBit
        BY <1>16 DEF CloseJoinsPeer
      <3> QED BY <3>1 DEF Untouched, Virgin
    <2>2. UNCHANGED att /\ call["stop"].ses \in Attempts /\ \A x \in Attempts : x # call["stop"].ses => ses'[x] = ses[x]
      BY <1>r, <1>16, CloseJoinsPeerOnly DEF CloseJoinsPeer, Only
    <2>3. Aim("orch") \in {"start", "fail"} => Virgin(att)'
      BY <1>r, <2>1, <2>2 DEF Untouched, Virgin
    <2> QED BY <1>b, <1>r, <1>16, <1>k, <2>1, <2>2, <2>3, StopCloseJoinsPeer DEF OrchStays, Untouched
  <1>17. CASE CloseFrees("orch")
    <2>2. UNCHANGED att /\ call["orch"].ses \in Attempts /\ \A x \in Attempts : x # call["orch"].ses => ses'[x] = ses[x]
      BY <1>r, <1>17, CloseFreesOnly DEF CloseFrees, Only
    <2>3. Aim("orch") \in {"start", "fail"} => Virgin(att)'
      <3>1. ASSUME call["orch"].ses = att, Aim("orch") \in {"start", "fail"} PROVE Virgin(att)'
        <4>1. Virgin(att) /\ att \in Attempts /\ att' = att
          BY <1>r, <2>2, <3>1 DEF Untouched
        <4>2. /\ ses'[att].todo = <<>> /\ ses'[att].phase = "new"
              /\ ses'[att].chan = "new" /\ ses'[att].conf = "no"
          BY <1>r, <1>17, <3>1, CloseFreesOnly
        <4>3. ses'[att].exitBit = FALSE /\ ses'[att].running = FALSE /\ ses'[att].quitBit = FALSE
          BY <1>r, <1>17, <3>1, CloseFreesOnly
        <4>4. /\ ses'[att].peer = ses[att].peer /\ ses'[att].sender = ses[att].sender
              /\ ses'[att].sending = (ses[att].sender /\ ses[att].sending)
          BY <1>r, <1>17, <3>1, CloseFreesOnly DEF Only, Fields
        <4>5. ses'[att].sender = FALSE /\ ses'[att].sending = FALSE
          BY <4>1, <4>4, Zenon DEF Virgin
        <4>6. ses'[att].peer = "none"
          BY <4>1, <4>4 DEF Virgin
        <4> QED BY <4>1, <4>2, <4>3, <4>5, <4>6, Zenon DEF Virgin
      <3>2. CASE call["orch"].ses # att
        BY <1>r, <2>2, <3>2 DEF Untouched, Virgin
      <3> QED BY <3>1, <3>2
    <2> QED BY <1>b, <1>r, <1>17, <1>k, <2>2, <2>3, OrchCloseFrees DEF StopStays, Untouched, Onward
  <1>18. CASE CloseFrees("stop")
    <2>2. UNCHANGED att /\ call["stop"].ses \in Attempts /\ \A x \in Attempts : x # call["stop"].ses => ses'[x] = ses[x]
      BY <1>r, <1>18, CloseFreesOnly DEF CloseFrees, Only
    <2>3. Aim("orch") \in {"start", "fail"} => Virgin(att)'
      <3>1. ASSUME call["stop"].ses = att, Aim("orch") \in {"start", "fail"} PROVE Virgin(att)'
        <4>1. Virgin(att) /\ att \in Attempts /\ att' = att
          BY <1>r, <2>2, <3>1 DEF Untouched
        <4>2. /\ ses'[att].todo = <<>> /\ ses'[att].phase = "new"
              /\ ses'[att].chan = "new" /\ ses'[att].conf = "no"
          BY <1>r, <1>18, <3>1, CloseFreesOnly
        <4>3. ses'[att].exitBit = FALSE /\ ses'[att].running = FALSE /\ ses'[att].quitBit = FALSE
          BY <1>r, <1>18, <3>1, CloseFreesOnly
        <4>4. /\ ses'[att].peer = ses[att].peer /\ ses'[att].sender = ses[att].sender
              /\ ses'[att].sending = (ses[att].sender /\ ses[att].sending)
          BY <1>r, <1>18, <3>1, CloseFreesOnly DEF Only, Fields
        <4>5. ses'[att].sender = FALSE /\ ses'[att].sending = FALSE
          BY <4>1, <4>4, Zenon DEF Virgin
        <4>6. ses'[att].peer = "none"
          BY <4>1, <4>4 DEF Virgin
        <4> QED BY <4>1, <4>2, <4>3, <4>5, <4>6, Zenon DEF Virgin
      <3>2. CASE call["stop"].ses # att
        BY <1>r, <2>2, <3>2 DEF Untouched, Virgin
      <3> QED BY <3>1, <3>2
    <2>4. Now("stop")' = "teardown" /\ OrchStays
      BY <1>18, StopCloseFrees
    <2>5. \A x \in Attempts : x > att => ses'[x] = ses[x]
      <3>1. call["stop"].ses \in Nat /\ call["stop"].ses <= att
        BY <1>b, <1>r, <2>2, Zenon
      <3>a. att \in Nat
        BY <1>r
      <3>2. \A x \in Nat : x > att => x # call["stop"].ses
        BY <3>1, <3>a
      <3> QED BY <1>b, <2>2, <3>2, Zenon
    <2> QED BY <1>k, <2>2, <2>3, <2>4, <2>5 DEF OrchStays, Untouched
  <1>19. CASE StartFails
    BY <1>19, <1>k, OrchStartFails DEF StartFails, StopStays, Untouched, Virgin
  <1>20. CASE StopPosts
    BY <1>20, <1>k, StopPostsEnd DEF StopPosts, OrchStays, Untouched, Virgin
  <1>21. CASE StopExits
    BY <1>21, <1>k, StopExitsEnd DEF StopExits, OrchStays, Untouched, Virgin
  <1>22. CASE StartTakes
    <2>1. CASE gen' = gen
      <3>1. UNCHANGED <<att, ses>>
        BY <1>22, <2>1 DEF StartTakes, TakeSession, TypeInv, PlainOK
      <3> QED BY <1>22, <1>k, <3>1, OrchStartTakes DEF StopStays, Untouched, Virgin
    <2>2. CASE gen' # gen
      <3>1. UNCHANGED att /\ att \in Attempts /\ \A x \in Attempts : x # att => ses'[x] = ses[x]
        BY <1>22, <2>2, StartTakesOnly DEF Only, StartTakes
      <3>2. Virgin(att)'
        <4>1. PICK x \in Attempts : x = att
          BY <3>1
        <4>2. Only(x, {"gen"}) /\ Virgin(x)
          BY <1>22, <2>2, <4>1, StartTakesOnly, OrchStartTakes DEF Untouched
        <4>3. Virgin(x)'
          BY <1>f, <4>2, VirginKept
        <4> QED BY <3>1, <4>1, <4>3, Zenon DEF Virgin
      <3> QED BY <1>b, <1>22, <1>k, <3>1, <3>2, OrchStartTakes DEF StopStays, Untouched
    <2> QED BY <2>1, <2>2
  <1>23. CASE StartOpens
    <2>1. UNCHANGED att /\ att \in Attempts /\ \A x \in Attempts : x # att => ses'[x] = ses[x]
      BY <1>23, StartOpensOnly DEF Only, StartOpens
    <2>2. Virgin(att)'
      <3>1. PICK x \in Attempts : x = att
        BY <2>1
      <3>2. Only(x, {"life", "media"}) /\ Virgin(x)
        BY <1>23, <3>1, StartOpensOnly, OrchStartOpens DEF Untouched
      <3>3. Virgin(x)'
        BY <1>f, <3>2, VirginKept
      <3> QED BY <2>1, <3>1, <3>3, Zenon DEF Virgin
    <2> QED BY <1>b, <1>23, <1>k, <2>1, <2>2, OrchStartOpens DEF StopStays, Untouched
  <1>24. CASE StartStarts
    <2>1. UNCHANGED att /\ att \in Attempts /\ \A x \in Attempts : x # att => ses'[x] = ses[x]
      BY <1>24, StartStartsOnly DEF Only, StartStarts
    <2>2. CASE Aim("orch")' = "none"
      <3>1. \A x \in Attempts : x > att => ses'[x] = ses[x]
        <4>1. \A x \in Attempts : x > att => x # att
          BY <1>r, <1>b
        <4> QED BY <2>1, <4>1
      <3>2. \A x \in Attempts : x > att => Virgin(x)'
        BY <3>1 DEF Untouched, Virgin
      <3> QED BY <2>1, <2>2, <3>2 DEF Untouched
    <2>3. CASE /\ Now("orch")' = "mark" /\ Aim("orch")' = "fail" /\ ses' = [ses EXCEPT ![att].closing = FALSE]
      <3>1. ses \in [Attempts -> Session]
        BY DEF TypeInv, PeersOK
      <3>2. Virgin(att)'
        <4>1. PICK x \in Attempts : x = att
          BY <2>1
        <4>2. Virgin(x) /\ ses[x] \in Session
          BY <1>24, <4>1, <3>1, OrchStartStarts DEF Untouched
        <4>3. ses'[x] = [ses[x] EXCEPT !.closing = FALSE]
          BY <2>3, <3>1, <4>1
        <4>4. Only(x, {"closing"})
          <5>1. \A f \in Fields : f # "closing" => ses'[x][f] = ses[x][f]
            BY <4>2, <4>3 DEF Session, Fields
          <5> QED BY <5>1, <1>24, <4>1, StartStartsOnly DEF Only
        <4>5. Virgin(x)'
          BY <1>f, <4>2, <4>4, VirginKept
        <4> QED BY <2>1, <4>1, <4>5, Zenon DEF Virgin
      <3> QED BY <1>b, <1>24, <1>k, <2>1, <2>3, <3>2, OrchStartStarts DEF StopStays, Untouched
    <2> QED BY <1>24, <2>2, <2>3, OrchStartStarts
  <1> QED BY <1>1, <1>2, <1>3, <1>4, <1>5, <1>6, <1>7, <1>8, <1>9, <1>10, <1>11, <1>12, <1>13, <1>14, <1>15, <1>16, <1>17, <1>18, <1>19, <1>20, <1>21, <1>22, <1>23, <1>24 DEF CallStep, Callers

LEMMA OrchestratorUntouched ==
  ASSUME TypeInv, UseInv, Untouched, Ignites \/ LosesWifi \/ SessionEnds \/ OrchestratorStep
  PROVE  Untouched'
  <1>r. /\ att \in 0 .. MaxAttempts /\ MaxAttempts \in Nat /\ Attempts \subseteq Nat
        /\ call["orch"].ses <= att /\ call["stop"].ses <= att
        /\ call["orch"].ses \in Nat /\ call["stop"].ses \in Nat
    BY InRange DEF Attempts, UseInv, InUse
  <1>1. CASE Ignites
    <2>1. att' = att + 1 /\ att + 1 \in Attempts /\ ses' = ses /\ StopStays /\ Aim("orch") = "none"
      BY <1>1, OrchIgnites DEF Ignites
    <2>2. \A x \in Attempts : x > att => Virgin(x)'
      BY <2>1 DEF Untouched, Virgin
    <2>3. \A x \in Attempts : x > att + 1 => x > att
      BY <1>r
    <2>4. Virgin(att)' /\ call["stop"].ses # att + 1
      BY <1>r, <2>1 DEF Untouched, Virgin
    <2>5. CASE Now("orch")' = "begin"
      BY <1>r, <2>1, <2>2, <2>3, <2>4, <2>5 DEF Untouched, StopStays
    <2>6. CASE OrchStays
      BY <2>1, <2>2, <2>3, <2>6 DEF Untouched, OrchStays
    <2> QED BY <1>1, <2>5, <2>6, OrchIgnites
  <1>2. CASE LosesWifi
    BY <1>2, OrchLosesWifi DEF LosesWifi, StopStays, Untouched, Virgin
  <1>3. ASSUME NEW q, EnterStopping(q), Aim("orch") = "none", UNCHANGED <<att, ses>>
        PROVE  Untouched'
    BY <1>3, StopBegins DEF OrchStays, Untouched, Virgin
  <1>4. ASSUME UNCHANGED <<att, call, ses>>
        PROVE  Untouched'
    BY <1>4, Nobody, UntouchedFields
  <1>5. Free("orch") => Aim("orch") = "none"
    BY DEF Free, Aim, Last
  <1>6. CASE SessionEnds
    BY <1>3, <1>5, <1>6 DEF SessionEnds
  <1>7. CASE OrchestratorStep
    BY <1>3, <1>4, <1>5, <1>7 DEF OrchestratorStep, OnReady, OnDown, OnStopped, Takes
  <1> QED BY <1>1, <1>2, <1>6, <1>7

LEMMA UntouchedBegins == Init => Untouched
  <1> SUFFICES ASSUME Init PROVE Untouched
    OBVIOUS
  <1>1. \A s \in Attempts : Virgin(s)
    BY DEF Init, Closed, Virgin
  <1>2. Aim("orch") = "none"
    BY DEF Init, Callers, Aim, Last
  <1> QED BY <1>1, <1>2 DEF Untouched

LEMMA UntouchedStays == TypeInv /\ UseInv /\ Untouched /\ [Next]_vars => Untouched'
  <1> SUFFICES ASSUME TypeInv, UseInv, Untouched, [Next]_vars PROVE Untouched'
    OBVIOUS
  <1>1. CASE UNCHANGED vars
    BY <1>1, Nobody, UntouchedFields
  <1>2. ASSUME NEW s \in Attempts, PeerReports(s) \/ PeerStep(s) \/ SenderExits(s)
        PROVE  Untouched'
    <2>1. ~Virgin(s) /\ \A x \in Attempts : x # s => ses'[x] = ses[x]
      BY <1>2, PeerWorks DEF Virgin
    <2> QED BY <1>2, <2>1, PeerKeepsPlace, UntouchedElsewhere
  <1> QED BY <1>1, <1>2, CallerUntouched, OrchestratorUntouched, UpdateUntouched DEF Next

LEMMA UntouchedAlways == Spec => []Untouched
  BY UntouchedBegins, UntouchedStays, Typed, InUseAlways, PTL DEF Spec

-----------------------------------------------------------------------------
(* The end of pc_task                                                      *)

\* Waiting for pc_task to leave makes sense: it runs, or its exit is reported, or it
\* could not be created.
Answered(s) == ses[s].peer \in {"loop", "none"} \/ ses[s].exitBit

\* Unless WiFi is lost while the stop task is at work, pc_task only runs while its
\* session is in use or somebody is still going to wait for it.
Joined ==
  /\ \A s \in Attempts : /\ ses[s].exitBit => ses[s].peer = "gone"
                         /\ ses[s].running => ses[s].peer # "gone"
  /\ \A t \in Callers : Now(t) = "waitPeer" => Answered(call[t].ses)
  /\ NoOverlap => \A s \in Attempts : ses[s].peer = "loop" =>
       /\ s = handle \/ \E t \in Callers : Way(t) = "peer" /\ call[t].ses = s
       /\ ses[s].running \/ \E t \in Callers : Now(t) = "waitPeer" /\ call[t].ses = s

\* Two callers only ever close the same session when it has not been started.
LEMMA Apart ==
  ASSUME TypeInv, UseInv, Untouched, NEW t \in Callers, NEW u \in Callers, t # u,
         Closing(t), Closing(u), call[t].ses = call[u].ses
  PROVE  /\ call[t].ses \in Attempts /\ Virgin(call[t].ses)
         /\ Now(t) \notin {"off", "waitSend"} /\ Now(u) \notin {"off", "waitSend"}
  <1>1. Closing("orch") /\ Closing("stop") /\ call["orch"].ses = call["stop"].ses
    BY DEF Callers
  <1>2. Aim("orch") = "fail" /\ call["orch"].ses = att
    BY <1>1 DEF UseInv, InUse
  <1>3. call["orch"].ses \in Attempts
    BY <1>1, InRange, Anchors, BoundsAssumption DEF TypeInv
  <1>4. /\ Virgin(att) /\ Now("orch") \notin {"off", "waitSend"}
        /\ Now("stop") \notin {"off", "waitSend"}
    BY <1>1, <1>2 DEF Untouched
  <1> QED BY <1>1, <1>2, <1>3, <1>4 DEF Callers, Virgin

\* A step that neither starts nor ends a pc_task.
LEMMA JoinedTurn ==
  ASSUME TypeInv, Joined, NEW t \in Callers, OnlyTurns(t), mishaps \subseteq mishaps',
         \A x \in Attempts : /\ ses'[x].peer = ses[x].peer /\ ses'[x].running = ses[x].running
                             /\ ses'[x].exitBit = ses[x].exitBit,
         Now(t) # "waitPeer", Now(t)' # "waitPeer",
         Way(t) = "peer" => Way(t)' = "peer" /\ call'[t].ses = call[t].ses,
         NoOverlap => \A x \in Attempts : x = handle /\ ses[x].peer = "loop" =>
                        x = handle' \/ (Way(t)' = "peer" /\ call'[t].ses = x)
  PROVE  Joined'
  <1>c. \A u \in Callers : Now(u) = "waitPeer" => call[u].ses \in Attempts
    BY InRange, Anchors, BoundsAssumption DEF TypeInv, Closing, CloseHeads
  <1>1. \A u \in Callers : Now(u)' = "waitPeer" =>
          Now(u) = "waitPeer" /\ call'[u].ses = call[u].ses
    BY DEF OnlyTurns
  <1>2. \A u \in Callers : Now(u)' = "waitPeer" => Answered(call[u].ses)'
    BY <1>1, <1>c DEF Joined, Answered
  <1>3. ASSUME NoOverlap, NEW x \in Attempts, ses'[x].peer = "loop"
        PROVE  /\ x = handle' \/ \E u \in Callers : Way(u)' = "peer" /\ call'[u].ses = x
               /\ ses'[x].running \/ \E u \in Callers : Now(u)' = "waitPeer" /\ call'[u].ses = x
    <2>1. ses[x].peer = "loop"
      BY <1>3
    <2>2. x = handle' \/ \E u \in Callers : Way(u)' = "peer" /\ call'[u].ses = x
      <3>1. CASE x = handle
        BY <1>3, <2>1, <3>1
      <3>2. CASE \E u \in Callers : Way(u) = "peer" /\ call[u].ses = x
        BY <3>2 DEF OnlyTurns
      <3> QED BY <1>3, <2>1, <3>1, <3>2 DEF Joined
    <2>3. ses'[x].running \/ \E u \in Callers : Now(u)' = "waitPeer" /\ call'[u].ses = x
      <3>1. CASE ses[x].running
        BY <3>1
      <3>2. CASE \E u \in Callers : Now(u) = "waitPeer" /\ call[u].ses = x
        BY <3>2 DEF OnlyTurns
      <3> QED BY <1>3, <2>1, <3>1, <3>2 DEF Joined
    <2> QED BY <2>2, <2>3
  <1>4. \A x \in Attempts : /\ ses'[x].exitBit => ses'[x].peer = "gone"
                            /\ ses'[x].running => ses'[x].peer # "gone"
    BY DEF Joined
  <1> QED BY <1>2, <1>3, <1>4 DEF Joined, NoOverlap, Answered

LEMMA JoinedStill ==
  ASSUME TypeInv, Joined, NobodyCalls, UNCHANGED handle, mishaps \subseteq mishaps',
         \A x \in Attempts : /\ ses'[x].peer = ses[x].peer /\ ses'[x].running = ses[x].running
                             /\ ses'[x].exitBit = ses[x].exitBit
  PROVE  Joined'
  <1>c. \A u \in Callers : Now(u) = "waitPeer" => call[u].ses \in Attempts
    BY InRange, Anchors, BoundsAssumption DEF TypeInv, Closing, CloseHeads
  <1>1. \A u \in Callers : Now(u)' = Now(u) /\ Way(u)' = Way(u) /\ call'[u] = call[u]
    BY DEF NobodyCalls, StopStays, OrchStays, Callers
  <1>2. NoOverlap' => NoOverlap
    BY DEF NoOverlap
  <1> QED BY <1>c, <1>1, <1>2 DEF Joined, Answered

LEMMA CallerJoined ==
  ASSUME TypeInv, UseInv, Untouched, Joined, NEW t \in Callers, CallStep(t)
  PROVE  Joined'
  <1> DEFINE Same == \A x \in Attempts : /\ ses'[x].peer = ses[x].peer /\ ses'[x].running = ses[x].running
                                         /\ ses'[x].exitBit = ses[x].exitBit
  <1>m. NoOverlap' => NoOverlap
    <2>2. CASE CloseTestsStream(t)
      BY <2>2 DEF CloseTestsStream, NoOverlap
    <2>3. CASE UNCHANGED mishaps
      BY <2>3 DEF NoOverlap
    <2>4. CASE StopTakes(t) \/ CloseMarks(t) \/ CloseStopsStream(t) \/ CloseJoinsSender(t) \/ ClosePeer(t)
      BY <2>3, <2>4 DEF StopTakes, CloseMarks, CloseStopsStream, CloseJoinsSender, ClosePeer
    <2>5. CASE CloseJoinsPeer(t) \/ CloseFrees(t) \/ TearsDownMedia(t)
      BY <2>3, <2>5 DEF CloseJoinsPeer, CloseFrees, TearsDownMedia
    <2>6. CASE StartTakes \/ StartOpens \/ StartStarts \/ StartFails \/ StopPosts \/ StopExits
      BY <2>3, <2>6 DEF StartTakes, StartOpens, StartStarts, StartFails, StopPosts, StopExits
    <2> QED BY <2>2, <2>4, <2>5, <2>6 DEF CallStep
  <1>r. /\ handle \in 0 .. MaxAttempts /\ att \in 0 .. MaxAttempts /\ 0 \notin Attempts
        /\ Closing(t) => call[t].ses \in Attempts
        /\ NoOverlap' => NoOverlap
    BY <1>m, InRange, Anchors, BoundsAssumption DEF TypeInv, Attempts
  <1>h. Closing(t) => \A x \in Attempts : x = call[t].ses => x # handle
    BY <1>r DEF UseInv, InUse, Closing, CloseHeads
  <1>a. \A u \in Callers : u # t /\ Closing(t) /\ Closing(u) /\ call[u].ses = call[t].ses => ses[call[t].ses].peer = "none" /\ ~ses[call[t].ses].exitBit /\ ~ses[call[t].ses].running
    BY Apart DEF Virgin
  <1>1. CASE CloseMarks(t)
    <2>1. Same /\ UNCHANGED <<handle, mishaps>>
      BY <1>1, CloseMarksOnly DEF Only, Fields, CloseMarks
    <2> QED BY <1>1, <2>1, MarksTurn, JoinedTurn
  <1>2. CASE CloseStopsStream(t)
    <2>1. Same /\ UNCHANGED <<handle, mishaps>>
      BY <1>2, CloseStopsStreamOnly DEF Only, Fields, CloseStopsStream
    <2> QED BY <1>2, <2>1, StopsTurn, JoinedTurn
  <1>3. CASE CloseJoinsSender(t)
    <2>1. Same /\ UNCHANGED <<handle, mishaps>>
      BY <1>3, CloseJoinsSenderOnly DEF Only, Fields, CloseJoinsSender
    <2> QED BY <1>3, <2>1, JoinsSenderTurn, JoinedTurn
  <1>4. CASE CloseTestsStream(t)
    <2>1. Same /\ UNCHANGED handle /\ mishaps \subseteq mishaps'
      BY <1>4 DEF CloseTestsStream
    <2> QED BY <1>4, <2>1, TestsTurn, JoinedTurn
  <1>5. CASE StopTakes(t)
    <2>1. Same /\ UNCHANGED mishaps
      BY <1>5 DEF StopTakes
    <2>2. \A x \in Attempts : x = handle => Way(t)' = "peer" /\ call'[t].ses = x
      BY <1>5, <1>r, TakesTurn
    <2>3. Way(t) # "peer"
      BY <1>5, TakesTurn, CallersAt DEF CloseHeads
    <2> QED BY <1>5, <2>1, <2>2, <2>3, TakesTurn, JoinedTurn
  <1>6. CASE TearsDownMedia(t)
    <2>1. Same /\ UNCHANGED <<handle, mishaps>>
      BY <1>6 DEF TearsDownMedia
    <2>3. Way(t) # "peer"
      BY <1>6, TeardownTurn, CallersAt DEF CloseHeads
    <2> QED BY <1>6, <2>1, <2>3, TeardownTurn, JoinedTurn
  <1>7. CASE ClosePeer(t)
    <2>1. /\ call[t].ses \in Attempts /\ ses'[call[t].ses].running = FALSE
          /\ \A x \in Attempts : /\ ses'[x].peer = ses[x].peer /\ ses'[x].exitBit = ses[x].exitBit
                                 /\ x # call[t].ses => ses'[x] = ses[x]
          /\ handle' = handle
      BY <1>7, ClosePeerOnly DEF Only, Fields, ClosePeer
    <2>2. OnlyTurns(t) /\ call'[t].ses = call[t].ses /\ Now(t) = "peer"
      BY <1>7, ClosePeerTurn
    <2>3. Closing(t)
      BY <2>2 DEF Closing, CloseHeads
    <2>4. \A x \in Attempts : /\ ses'[x].exitBit => ses'[x].peer = "gone"
                              /\ ses'[x].running => ses'[x].peer # "gone"
      BY <2>1 DEF Joined
    <2>5. ASSUME NEW u \in Callers, Now(u)' = "waitPeer" PROVE Answered(call[u].ses)'
      <3>1. CASE u = t
        <4>1. ses[call[t].ses].running
          BY <1>7, <2>5, <3>1, ClosePeerTurn
        <4>2. ses[call[t].ses].peer # "gone" /\ ses[call[t].ses].peer \in {"none", "loop", "gone"}
          BY <2>1, <4>1 DEF Joined, TypeInv, PeersOK, Session
        <4> QED BY <2>1, <2>2, <3>1, <4>2 DEF Answered
      <3>2. CASE u # t
        <4>1. Now(u) = "waitPeer" /\ call'[u] = call[u] /\ Answered(call[u].ses)
          BY <2>2, <2>5, <3>2 DEF OnlyTurns, Joined
        <4>2. call[u].ses \in Attempts
          BY <4>1, InRange, Anchors, BoundsAssumption DEF TypeInv, Closing, CloseHeads
        <4> QED BY <2>1, <4>1, <4>2 DEF Answered
      <3> QED BY <3>1, <3>2
    <2>6. ASSUME NoOverlap, NEW x \in Attempts, ses'[x].peer = "loop"
          PROVE  /\ x = handle' \/ \E u \in Callers : Way(u)' = "peer" /\ call'[u].ses = x
                 /\ ses'[x].running \/ \E u \in Callers : Now(u)' = "waitPeer" /\ call'[u].ses = x
      <3>1. /\ x = handle \/ \E u \in Callers : Way(u) = "peer" /\ call[u].ses = x
            /\ ses[x].running \/ \E u \in Callers : Now(u) = "waitPeer" /\ call[u].ses = x
        BY <2>1, <2>6 DEF Joined
      <3>2. CASE x = call[t].ses
        <4>1. \A u \in Callers : u # t /\ Closing(u) => call[u].ses # x
          BY <1>a, <2>1, <2>3, <2>6, <3>2
        <4>2. \A u \in Callers : Now(u) = "waitPeer" => Closing(u) /\ u # t
          BY <2>2 DEF Closing, CloseHeads
        <4>3. ses[x].running
          BY <3>1, <4>1, <4>2
        <4>4. Now(t)' = "waitPeer" /\ Way(t)' = "peer"
          BY <1>7, <3>2, <4>3, ClosePeerTurn
        <4> QED BY <2>2, <3>2, <4>4
      <3>3. CASE x # call[t].ses
        BY <2>1, <2>2, <3>1, <3>3 DEF OnlyTurns
      <3> QED BY <3>2, <3>3
    <2> QED BY <1>r, <2>4, <2>5, <2>6 DEF Joined
  <1>8. CASE CloseJoinsPeer(t)
    <2>1. /\ call[t].ses \in Attempts /\ ses'[call[t].ses].exitBit = FALSE
          /\ \A x \in Attempts : /\ ses'[x].peer = ses[x].peer /\ ses'[x].running = ses[x].running
                                 /\ x # call[t].ses => ses'[x] = ses[x]
          /\ handle' = handle
      BY <1>8, CloseJoinsPeerOnly DEF Only, Fields, CloseJoinsPeer
    <2>2. /\ OnlyTurns(t) /\ call'[t].ses = call[t].ses /\ Now(t) = "waitPeer"
          /\ ses[call[t].ses].exitBit /\ Now(t)' \in {"free", "streams"}
      BY <1>8, JoinsPeerTurn
    <2>3. Closing(t)
      BY <2>2 DEF Closing, CloseHeads
    <2>4. \A x \in Attempts : /\ ses'[x].exitBit => ses'[x].peer = "gone"
                              /\ ses'[x].running => ses'[x].peer # "gone"
      BY <2>1 DEF Joined
    <2>5. ASSUME NEW u \in Callers, Now(u)' = "waitPeer" PROVE Answered(call[u].ses)'
      <3>2. u # t
        BY <2>2, <2>5
      <3>3. Now(u) = "waitPeer" /\ call'[u] = call[u] /\ Answered(call[u].ses)
        BY <2>2, <2>5, <3>2 DEF OnlyTurns, Joined
      <3>4. Closing(u) /\ call[u].ses \in Attempts
        BY <3>3, InRange, Anchors, BoundsAssumption DEF TypeInv, Closing, CloseHeads
      <3>5. call[u].ses # call[t].ses
        BY <1>a, <2>2, <2>3, <3>2, <3>4
      <3> QED BY <2>1, <3>3, <3>4, <3>5 DEF Answered
    <2>6. ASSUME NoOverlap, NEW x \in Attempts, ses'[x].peer = "loop"
          PROVE  /\ x = handle' \/ \E u \in Callers : Way(u)' = "peer" /\ call'[u].ses = x
                 /\ ses'[x].running \/ \E u \in Callers : Now(u)' = "waitPeer" /\ call'[u].ses = x
      <3>1. /\ x = handle \/ \E u \in Callers : Way(u) = "peer" /\ call[u].ses = x
            /\ ses[x].running \/ \E u \in Callers : Now(u) = "waitPeer" /\ call[u].ses = x
        BY <2>1, <2>6 DEF Joined
      <3>2. x # call[t].ses
        BY <2>1, <2>2, <2>6 DEF Joined
      <3> QED BY <2>1, <2>2, <3>1, <3>2 DEF OnlyTurns
    <2> QED BY <1>r, <2>4, <2>5, <2>6 DEF Joined
  <1>9. CASE CloseFrees(t)
    <2>1. /\ call[t].ses \in Attempts /\ ses'[call[t].ses].exitBit = FALSE
          /\ ses'[call[t].ses].running = FALSE
          /\ \A x \in Attempts : /\ ses'[x].peer = ses[x].peer
                                 /\ x # call[t].ses => ses'[x] = ses[x]
          /\ handle' = handle
      <3>1. /\ call[t].ses \in Attempts /\ ses'[call[t].ses].exitBit = FALSE
            /\ ses'[call[t].ses].running = FALSE /\ handle' = handle
        BY <1>9, CloseFreesOnly DEF CloseFrees
      <3>2. /\ ses'[call[t].ses].peer = ses[call[t].ses].peer
            /\ \A x \in Attempts : x # call[t].ses => ses'[x] = ses[x]
        BY <1>9, CloseFreesOnly DEF Only, Fields
      <3> QED BY <3>1, <3>2
    <2>2. /\ OnlyTurns(t) /\ call'[t].ses = call[t].ses /\ Now(t) = "free" /\ Way(t) = "free"
          /\ Now(t)' \in {"open", "fail", "teardown"}
      BY <1>9, FreesTurn
    <2>3. Closing(t)
      BY <2>2 DEF Closing, CloseHeads
    <2>4. \A x \in Attempts : /\ ses'[x].exitBit => ses'[x].peer = "gone"
                              /\ ses'[x].running => ses'[x].peer # "gone"
      BY <2>1 DEF Joined
    <2>5. ASSUME NEW u \in Callers, Now(u)' = "waitPeer" PROVE Answered(call[u].ses)'
      <3>2. u # t
        BY <2>2, <2>5
      <3>3. Now(u) = "waitPeer" /\ call'[u] = call[u] /\ Answered(call[u].ses)
        BY <2>2, <2>5, <3>2 DEF OnlyTurns, Joined
      <3>4. Closing(u) /\ call[u].ses \in Attempts
        BY <3>3, InRange, Anchors, BoundsAssumption DEF TypeInv, Closing, CloseHeads
      <3>5. CASE call[u].ses # call[t].ses
        BY <2>1, <3>3, <3>4, <3>5 DEF Answered
      <3>6. CASE call[u].ses = call[t].ses
        <4>1. ses[call[u].ses].peer = "none"
          BY <1>a, <2>3, <3>2, <3>4, <3>6
        <4> QED BY <2>1, <3>3, <3>4, <4>1 DEF Answered
      <3> QED BY <3>5, <3>6
    <2>6. ASSUME NoOverlap, NEW x \in Attempts, ses'[x].peer = "loop"
          PROVE  /\ x = handle' \/ \E u \in Callers : Way(u)' = "peer" /\ call'[u].ses = x
                 /\ ses'[x].running \/ \E u \in Callers : Now(u)' = "waitPeer" /\ call'[u].ses = x
      <3>1. /\ x = handle \/ \E u \in Callers : Way(u) = "peer" /\ call[u].ses = x
            /\ ses[x].running \/ \E u \in Callers : Now(u) = "waitPeer" /\ call[u].ses = x
        BY <2>1, <2>6 DEF Joined
      <3>2. x # call[t].ses
        <4>1. x = call[t].ses => \E u \in Callers : u # t /\ Way(u) = "peer" /\ call[u].ses = x
          BY <1>h, <2>2, <2>3, <3>1
        <4>2. \A u \in Callers : Way(u) = "peer" => Closing(u)
          BY CallersAt DEF Closing
        <4> QED BY <1>a, <2>1, <2>3, <2>6, <4>1, <4>2
      <3> QED BY <2>1, <2>2, <3>1, <3>2 DEF OnlyTurns
    <2> QED BY <1>r, <2>4, <2>5, <2>6 DEF Joined
  <1>t. ASSUME \/ t = "orch" /\ (StartTakes \/ StartOpens \/ StartStarts \/ StartFails)
               \/ t = "stop" /\ (StopPosts \/ StopExits)
        PROVE  /\ OnlyTurns(t) /\ Now(t) # "waitPeer" /\ Now(t)' # "waitPeer" /\ Way(t) # "peer"
    BY <1>t, OtherTurns, CallersAt DEF CloseHeads
  <1>10. CASE t = "orch" /\ StartTakes
    <2>1. Same
      <3>1. CASE gen' = gen
        BY <1>10, <3>1 DEF StartTakes, TakeSession, TypeInv, PlainOK
      <3>2. CASE gen' # gen
        BY <1>10, <3>2, StartTakesOnly DEF Only, Fields
      <3> QED BY <3>1, <3>2
    <2>2. UNCHANGED mishaps
      BY <1>10 DEF StartTakes
    <2>3. \A x \in Attempts : x = handle => x = handle' \/ (Way(t)' = "peer" /\ call'[t].ses = x)
      BY <1>10, <1>r, OrchStartTakes
    <2> QED BY <1>10, <1>t, <2>1, <2>2, <2>3, JoinedTurn
  <1>11. CASE t = "orch" /\ StartOpens
    <2>1. Same /\ UNCHANGED mishaps
      BY <1>11, StartOpensOnly DEF Only, Fields, StartOpens
    <2>2. handle = 0
      BY <1>11, OrchStartOpens DEF UseInv, InUse
    <2> QED BY <1>11, <1>r, <1>t, <2>1, <2>2, JoinedTurn
  <1>12. CASE t = "orch" /\ StartStarts
    <2>1. /\ att \in Attempts /\ att' = att /\ UNCHANGED mishaps
          /\ \A x \in Attempts : /\ x # att => ses'[x] = ses[x]
                                 /\ ses'[x].exitBit = ses[x].exitBit
          /\ \/ ses'[att].running = TRUE /\ ses'[att].peer = "loop"
             \/ ses'[att].peer = ses[att].peer
      BY <1>12, StartStartsOnly DEF Only, Fields, StartStarts
    <2>2. /\ Now("orch") = "start" /\ Aim("orch") = "start"
          /\ \/ Now("orch")' = "none" /\ handle' = handle
             \/ Now("orch")' = "mark" /\ ses' = [ses EXCEPT ![att].closing = FALSE]
      BY <1>12, OrchStartStarts DEF TakeSession
    <2>3. ses[att].peer = "none" /\ ~ses[att].exitBit
      BY <2>2 DEF Untouched, Virgin
    <2>4. \A x \in Attempts : /\ ses'[x].exitBit => ses'[x].peer = "gone"
                              /\ ses'[x].running => ses'[x].peer # "gone"
      BY <2>1, <2>3 DEF Joined
    <2>5. ASSUME NEW u \in Callers, Now(u)' = "waitPeer" PROVE Answered(call[u].ses)'
      <3>1. u # t /\ Now(u) = "waitPeer" /\ call'[u] = call[u] /\ Answered(call[u].ses)
        BY <1>12, <1>t, <2>5 DEF OnlyTurns, Joined
      <3>2. call[u].ses \in Attempts
        BY <3>1, InRange, Anchors, BoundsAssumption DEF TypeInv, Closing, CloseHeads
      <3>3. CASE call[u].ses = att
        BY <2>1, <2>3, <3>1, <3>2, <3>3 DEF Answered
      <3>4. CASE call[u].ses # att
        BY <2>1, <3>1, <3>2, <3>4 DEF Answered
      <3> QED BY <3>3, <3>4
    <2>6. ASSUME NoOverlap, NEW x \in Attempts, ses'[x].peer = "loop"
          PROVE  /\ x = handle' \/ \E u \in Callers : Way(u)' = "peer" /\ call'[u].ses = x
                 /\ ses'[x].running \/ \E u \in Callers : Now(u)' = "waitPeer" /\ call'[u].ses = x
      <3>1. handle = att
        BY <2>2, <2>6 DEF UseInv, Order
      <3>2. CASE x = att
        <4>1. ses'[att].running = TRUE /\ ses'[att].peer = "loop"
          BY <2>1, <2>3, <2>6, <3>2
        <4>2. handle' = handle
          <5>1. ses \in [Attempts -> Session]
            BY DEF TypeInv, PeersOK
          <5>2. ses' = [ses EXCEPT ![att].closing = FALSE] => ses'[att].peer = ses[att].peer
            BY <2>1, <5>1 DEF Session
          <5> QED BY <2>2, <2>3, <4>1, <5>2
        <4> QED BY <3>1, <3>2, <4>1, <4>2
      <3>3. CASE x # att
        <4>1. /\ ses[x].peer = "loop" /\ ses'[x] = ses[x]
          BY <2>1, <2>6, <3>3
        <4>2. /\ \E u \in Callers : Way(u) = "peer" /\ call[u].ses = x
              /\ ses[x].running \/ \E u \in Callers : Now(u) = "waitPeer" /\ call[u].ses = x
          BY <2>6, <3>1, <3>3, <4>1 DEF Joined
        <4> QED BY <1>12, <1>t, <4>1, <4>2 DEF OnlyTurns
      <3> QED BY <3>2, <3>3
    <2> QED BY <1>r, <2>4, <2>5, <2>6 DEF Joined
  <1>13. CASE t = "orch" /\ StartFails
    <2>1. Same /\ UNCHANGED <<handle, mishaps>>
      BY <1>13 DEF StartFails
    <2> QED BY <1>13, <1>t, <2>1, JoinedTurn
  <1>14. CASE t = "stop" /\ StopPosts
    <2>1. Same /\ UNCHANGED <<handle, mishaps>>
      BY <1>14 DEF StopPosts
    <2> QED BY <1>14, <1>t, <2>1, JoinedTurn
  <1>15. CASE t = "stop" /\ StopExits
    <2>1. Same /\ UNCHANGED <<handle, mishaps>>
      BY <1>15 DEF StopExits
    <2> QED BY <1>15, <1>t, <2>1, JoinedTurn
  <1> QED BY <1>1, <1>2, <1>3, <1>4, <1>5, <1>6, <1>7, <1>8, <1>9, <1>10, <1>11, <1>12, <1>13, <1>14, <1>15 DEF CallStep

LEMMA OrchestratorJoined ==
  ASSUME TypeInv, Joined, Ignites \/ LosesWifi \/ SessionEnds \/ OrchestratorStep
  PROVE  Joined'
  <1>o. /\ OnlyTurns("orch") <=> StopStays
        /\ OnlyTurns("stop") <=> OrchStays
        /\ "orch" \in Callers /\ "stop" \in Callers
    BY DEF OnlyTurns, StopStays, OrchStays, Callers
  <1>w. \A u \in Callers : Now(u) = "none" => Way(u) # "peer"
    BY CallersAt DEF CloseHeads
  <1>1. CASE Ignites
    <2>1. UNCHANGED <<ses, handle, mishaps>>
      BY <1>1 DEF Ignites
    <2>2. CASE OrchStays
      BY <1>1, <2>1, <2>2, OrchIgnites, JoinedStill DEF NobodyCalls
    <2>3. CASE Now("orch")' = "begin"
      BY <1>1, <1>o, <1>w, <2>1, <2>3, OrchIgnites, JoinedTurn
    <2> QED BY <1>1, <2>2, <2>3, OrchIgnites
  <1>2. CASE LosesWifi
    <2>1. UNCHANGED <<ses, handle>>
      BY <1>2 DEF LosesWifi
    <2> QED BY <1>2, <1>o, <1>w, <2>1, OrchLosesWifi, JoinedTurn
  <1>3. ASSUME NEW q, EnterStopping(q), UNCHANGED <<ses, handle>>
        PROVE  Joined'
    <2>1. CASE StopStays
      BY <1>3, <2>1, StopBegins, JoinedStill DEF NobodyCalls
    <2>2. CASE Now("stop") = "none" /\ Now("stop")' = "take" /\ UNCHANGED mishaps
      BY <1>3, <1>o, <1>w, <2>2, StopBegins, JoinedTurn
    <2> QED BY <1>3, <2>1, <2>2, StopBegins
  <1>4. ASSUME UNCHANGED <<call, handle, ses, mishaps>>
        PROVE  Joined'
    BY <1>4, Nobody, JoinedStill
  <1>5. CASE SessionEnds
    BY <1>3, <1>5 DEF SessionEnds
  <1>6. CASE OrchestratorStep
    BY <1>3, <1>4, <1>6 DEF OrchestratorStep, OnReady, OnDown, OnStopped
  <1> QED BY <1>1, <1>2, <1>5, <1>6

\* pc_task and pc_send, but for the end of pc_task, leave these fields alone.
LEMMA PeerKeepsJoins ==
  ASSUME TypeInv, NEW s \in Attempts, PeerReports(s) \/ PeerStep(s) \/ SenderExits(s), ~PeerExits(s)
  PROVE  \A x \in Attempts : /\ ses'[x].peer = ses[x].peer /\ ses'[x].running = ses[x].running
                             /\ ses'[x].exitBit = ses[x].exitBit
  <1>1. CASE PeerConnects(s)
    BY <1>1, PeerConnectsOnly DEF Only, Fields
  <1>2. CASE PeerFails(s)
    BY <1>2, PeerFailsOnly DEF Only, Fields
  <1>3. CASE PeerOpensChannel(s)
    BY <1>3, PeerOpensChannelOnly DEF Only, Fields
  <1>4. CASE PeerLosesChannel(s)
    BY <1>4, PeerLosesChannelOnly DEF Only, Fields
  <1>5. CASE PeerDisconnects(s)
    BY <1>5, PeerDisconnectsOnly DEF Only, Fields
  <1>6. CASE ServerAnswers(s)
    BY <1>6, ServerAnswersOnly DEF Only, Fields
  <1>7. CASE StreamStarts(s)
    BY <1>7, StreamStartsOnly DEF Only, Fields
  <1>8. CASE StreamTested(s)
    BY <1>8, StreamTestedOnly DEF Only, Fields
  <1>9. CASE StreamStops(s)
    BY <1>9, StreamStopsOnly DEF Only, Fields
  <1>10. CASE PeerJoinsSender(s)
    BY <1>10, PeerJoinsSenderOnly DEF Only, Fields
  <1>11. CASE CallbackChecks(s)
    BY <1>11, CallbackChecksOnly DEF Only, Fields
  <1>12. CASE CallbackSchedules(s)
    BY <1>12, CallbackSchedulesOnly DEF Only, Fields
  <1>13. CASE CallbackReportsDown(s)
    BY <1>13, CallbackReportsDownOnly DEF Only, Fields
  <1>14. CASE CallbackReportsReady(s)
    BY <1>14, CallbackReportsReadyOnly DEF Only, Fields
  <1>15. CASE SenderExits(s)
    BY <1>15, SenderExitsOnly DEF Only, Fields
  <1>17. CASE SenderSpawns(s)
    BY <1>17, SenderSpawnsOnly DEF Only, Fields
  <1> QED BY <1>1, <1>2, <1>3, <1>4, <1>5, <1>6, <1>7, <1>8, <1>9, <1>10, <1>11, <1>12, <1>13, <1>14, <1>15, <1>17 DEF PeerReports, PeerStep

LEMMA PeerJoined ==
  ASSUME TypeInv, Joined, NEW s \in Attempts, PeerReports(s) \/ PeerStep(s) \/ SenderExits(s)
  PROVE  Joined'
  <1>1. CASE ~PeerExits(s)
    BY <1>1, PeerKeepsJoins, PeerKeepsPlace, JoinedStill
  <1>2. CASE PeerExits(s)
    <2>1. /\ ses'[s].peer = "gone" /\ ses'[s].exitBit = TRUE /\ ses'[s].running = ses[s].running
          /\ ~ses[s].running
          /\ \A x \in Attempts : x # s => ses'[x] = ses[x]
      BY <1>2, PeerExitsOnly DEF Only, Fields, PeerExits
    <2>2. UNCHANGED <<call, handle, mishaps>>
      BY <1>2 DEF PeerExits
    <2>3. \A u \in Callers : Now(u)' = Now(u) /\ Way(u)' = Way(u) /\ call'[u] = call[u]
      BY <2>2 DEF Now, Way
    <2>4. \A u \in Callers : Now(u) = "waitPeer" => call[u].ses \in Attempts
      BY InRange, Anchors, BoundsAssumption DEF TypeInv, Closing, CloseHeads
    <2>5. \A u \in Callers : Now(u) = "waitPeer" => Answered(call[u].ses)'
      BY <2>1, <2>2, <2>4 DEF Joined, Answered
    <2>6. \A x \in Attempts : /\ ses'[x].exitBit => ses'[x].peer = "gone"
                              /\ ses'[x].running => ses'[x].peer # "gone"
      BY <2>1 DEF Joined
    <2>7. \A x \in Attempts : ses'[x].peer = "loop" => x # s /\ ses'[x] = ses[x]
      BY <2>1
    <2> QED BY <2>2, <2>3, <2>5, <2>6, <2>7 DEF Joined, NoOverlap
  <1> QED BY <1>1, <1>2

LEMMA JoinedBegins == Init => Joined
  <1> SUFFICES ASSUME Init PROVE Joined
    OBVIOUS
  <1>1. \A s \in Attempts : ses[s].peer = "none" /\ ~ses[s].exitBit /\ ~ses[s].running
    BY DEF Init, Closed
  <1>2. \A t \in Callers : Now(t) = "none"
    BY NewLists DEF Init, Now
  <1> QED BY <1>1, <1>2 DEF Joined

LEMMA JoinedStays == TypeInv /\ UseInv /\ Untouched /\ Joined /\ [Next]_vars => Joined'
  <1> SUFFICES ASSUME TypeInv, UseInv, Untouched, Joined, [Next]_vars PROVE Joined'
    OBVIOUS
  <1>1. CASE UNCHANGED vars
    BY <1>1, Nobody, JoinedStill
  <1>2. ASSUME NEW g \in Gens, UpdateChecks(g) \/ UpdateSends(g)
        PROVE  Joined'
    BY <1>2, UpdateKeepsPlace, JoinedStill DEF Fields
  <1> QED BY <1>1, <1>2, CallerJoined, OrchestratorJoined, PeerJoined DEF Next

LEMMA JoinedAlways == Spec => []Joined
  BY JoinedBegins, JoinedStays, Typed, InUseAlways, UntouchedAlways, PTL DEF Spec

LEMMA OneTurns ==
  ASSUME TypeInv, NEW t \in Callers, CallStep(t)
  PROVE  OnlyTurns(t) /\ UNCHANGED <<orch, att>> /\ mishaps \subseteq mishaps'
  <1>1. OnlyTurns(t)
    BY TakesTurn, MarksTurn, TestsTurn, StopsTurn, JoinsSenderTurn, ClosePeerTurn, JoinsPeerTurn,
       FreesTurn, TeardownTurn, OtherTurns DEF CallStep
  <1>2. UNCHANGED <<orch, att>> /\ mishaps \subseteq mishaps'
    BY DEF CallStep, StopTakes, CloseMarks, CloseTestsStream, CloseStopsStream, CloseJoinsSender,
       ClosePeer, CloseJoinsPeer, CloseFrees, TearsDownMedia, StartTakes, StartOpens, StartStarts,
       StartFails, StopPosts, StopExits
  <1> QED BY <1>1, <1>2

-----------------------------------------------------------------------------
(* What the orchestrator hears                                             *)

\* Whatever the events in q say of a session, they say of the attempt a.
Speaks(q, a) == \A i \in DOMAIN q : q[i].ev \in {"ready", "down"} => q[i].from = a

\* Nothing is left to be closed when an attempt begins, so while it lasts only
\* its own pc_task is heard.
Heard ==
  Calm => /\ Now("orch") = "begin" => handle = 0
          /\ ~(Closing("orch") /\ Aim("orch") = "start")
          /\ orch \in {"igniting", "active"} => Speaks(inbox, att)

LEMMA SpeaksAppend ==
  ASSUME NEW q \in Seq(Events), NEW a, NEW e \in Events, Speaks(q, a), e.ev = "stopped" \/ e.from = a
  PROVE  Speaks(Append(q, e), a)
  <1>1. /\ Len(Append(q, e)) = Len(q) + 1 /\ Len(q) \in Nat
        /\ \A i \in 1 .. Len(q) : Append(q, e)[i] = q[i]
        /\ Append(q, e)[Len(q) + 1] = e
        /\ DOMAIN q = 1 .. Len(q) /\ DOMAIN Append(q, e) = 1 .. Len(q) + 1
    OBVIOUS
  <1>2. \A i \in 1 .. Len(q) + 1 : i \in 1 .. Len(q) \/ i = Len(q) + 1
    BY <1>1
  <1> QED BY <1>1, <1>2 DEF Speaks

LEMMA SpeaksTail ==
  ASSUME NEW q \in Seq(Events), q # <<>>, NEW a, Speaks(q, a)
  PROVE  Speaks(Tail(q), a)
  <1>1. /\ Len(Tail(q)) = Len(q) - 1 /\ Len(q) \in Nat /\ Len(q) >= 1
        /\ \A i \in 1 .. Len(q) - 1 : Tail(q)[i] = q[i + 1] /\ i + 1 \in 1 .. Len(q)
        /\ DOMAIN q = 1 .. Len(q) /\ DOMAIN Tail(q) = 1 .. Len(q) - 1
    OBVIOUS
  <1> QED BY <1>1 DEF Speaks

LEMMA SpeaksNothing == \A a : Speaks(<<>>, a)
  BY DEF Speaks

LEMMA CallerHeard ==
  ASSUME TypeInv, UseInv, Heard, NEW t \in Callers, CallStep(t)
  PROVE  Heard'
  <1>1. UNCHANGED <<orch, att>> /\ OnlyTurns(t) /\ (Calm' => Calm)
    BY OneTurns DEF Calm
  <1>2. ASSUME Calm, orch \in {"igniting", "active"} PROVE Speaks(inbox', att)
    <2>0. inbox \in Seq(Events) /\ Speaks(inbox, att) /\ att \in 0 .. MaxAttempts
      BY <1>2 DEF TypeInv, PlainOK, Heard
    <2>1. CASE UNCHANGED inbox
      BY <2>0, <2>1
    <2>2. CASE StartFails
      <3>1. inbox' = Append(inbox, Event("down", att))
        BY <2>2 DEF StartFails, Post
      <3>2. Event("down", att) \in Events /\ Event("down", att).from = att
        BY <2>0 DEF Events, Event
      <3> QED BY <2>0, <3>1, <3>2, SpeaksAppend
    <2>3. CASE StopPosts
      <3>1. inbox' = Append(inbox, Event("stopped", att))
        BY <2>3 DEF StopPosts, Post
      <3>2. Event("stopped", att) \in Events /\ Event("stopped", att).ev = "stopped"
        BY <2>0 DEF Events, Event
      <3> QED BY <2>0, <3>1, <3>2, SpeaksAppend
    <2> QED BY <2>1, <2>2, <2>3 DEF CallStep, StopTakes, CloseMarks, CloseTestsStream, CloseStopsStream, CloseJoinsSender,
       ClosePeer, CloseJoinsPeer, CloseFrees, TearsDownMedia, StartTakes, StartOpens, StartStarts, StopExits
  <1>3. CASE t = "stop"
    <2>1. handle' \in {handle, 0}
      BY <1>3 DEF CallStep, StopTakes, CloseMarks, CloseTestsStream, CloseStopsStream, CloseJoinsSender,
       ClosePeer, CloseJoinsPeer, CloseFrees, TearsDownMedia, StopPosts, StopExits, TakeSession
    <2>2. OrchStays
      BY <1>1, <1>3 DEF OnlyTurns, OrchStays, Callers
    <2> QED BY <1>1, <1>2, <2>1, <2>2 DEF Heard, OrchStays, Closing
  <1>4. CASE t = "orch"
    <2>n. /\ \A x \in {"none", "begin", "open", "start", "fail", "take", "teardown"} : x \notin CloseHeads
          /\ "begin" \notin CloseHeads \cup {"open", "fail", "teardown"}
      BY DEF CloseHeads
    <2>1. CASE CloseWorks(t)
      <3>1. Closing("orch") /\ Closing("orch")' /\ Aim("orch")' = Aim("orch")
        BY <1>4, <2>1, CloseKeepsPlace
      <3>2. Now("orch")' # "begin"
        BY <2>n, <3>1 DEF Closing
      <3> QED BY <1>1, <1>2, <3>1, <3>2 DEF Heard
    <2>2. CASE StopTakes("orch")
      BY <1>1, <1>2, <2>2, <2>n, OrchStopTakes DEF Heard
    <2>3. CASE CloseFrees("orch")
      <3>1. Closing("orch") /\ Now("orch")' \in {"open", "fail", "teardown"}
        BY <1>4, <2>3, FreesTurn DEF Closing, CloseHeads
      <3> QED BY <1>1, <1>2, <2>n, <3>1 DEF Heard, Closing
    <2>4. CASE TearsDownMedia("orch")
      BY <1>1, <1>2, <2>4, <2>n, OrchTearsDownMedia DEF Heard, Closing
    <2>5. CASE StartTakes
      BY <1>1, <1>2, <2>5, <2>n, OrchStartTakes DEF Heard, Closing
    <2>6. CASE StartOpens
      BY <1>1, <1>2, <2>6, <2>n, OrchStartOpens DEF Heard, Closing
    <2>7. CASE StartStarts
      BY <1>1, <1>2, <2>7, <2>n, OrchStartStarts DEF Heard, Closing
    <2>8. CASE StartFails
      BY <1>1, <1>2, <2>8, <2>n, OrchStartFails DEF Heard, Closing
    <2> QED BY <1>4, <2>1, <2>2, <2>3, <2>4, <2>5, <2>6, <2>7, <2>8 DEF CallStep, CloseWorks
  <1> QED BY <1>3, <1>4 DEF Callers

LEMMA OrchestratorHeard ==
  ASSUME TypeInv, UseInv, Heard, Ignites \/ LosesWifi \/ SessionEnds \/ OrchestratorStep
  PROVE  Heard'
  <1>n. \A x \in {"none", "begin", "take"} : x \notin CloseHeads
    BY DEF CloseHeads
  <1>c. /\ inbox \in Seq(Events) /\ att \in 0 .. MaxAttempts
        /\ mishaps \subseteq mishaps' => (Calm' => Calm)
    BY DEF TypeInv, PlainOK, Calm
  <1>1. CASE Ignites
    <2>1. /\ orch = "idle" /\ Now("orch") = "none" /\ inbox = <<>> /\ att' = att + 1 /\ att + 1 \in Attempts
          /\ UNCHANGED <<handle, mishaps>>
      BY <1>1, OrchIgnites DEF Ignites
    <2>2. Calm => handle = 0
      BY <2>1 DEF UseInv, Order
    <2>3. Speaks(inbox', att')
      <3>1. CASE UNCHANGED inbox
        BY <2>1, <3>1, SpeaksNothing
      <3>2. CASE inbox' = Append(inbox, Event("down", att + 1))
        <4>1. Event("down", att + 1) \in Events /\ Event("down", att + 1).from = att + 1
          BY <2>1 DEF Events, Event, Attempts
        <4>2. <<>> \in Seq(Events)
          OBVIOUS
        <4> QED BY <2>1, <3>2, <4>1, <4>2, SpeaksNothing, SpeaksAppend
      <3> QED BY <1>1, <3>1, <3>2, OrchIgnites
    <2>4. Now("orch")' \in {"begin", "none"}
      BY <1>1, <2>1, OrchIgnites DEF OrchStays
    <2> QED BY <1>n, <1>c, <2>1, <2>2, <2>3, <2>4 DEF Heard, Closing
  <1>2. CASE LosesWifi
    BY <1>2, <1>n, <1>c, OrchLosesWifi DEF LosesWifi, Heard, Closing
  <1>3. ASSUME NEW q, EnterStopping(q), UNCHANGED <<att, handle>>
        PROVE  Heard'
    BY <1>3, <1>c, StopBegins DEF OrchStays, Heard, Closing
  <1>4. ASSUME inbox # <<>>, inbox' = Tail(inbox), UNCHANGED <<att, call, handle, mishaps>>,
               orch' \in {"igniting", "active"} => orch \in {"igniting", "active"}
        PROVE  Heard'
    <2>1. orch' \in {"igniting", "active"} /\ Calm => Speaks(inbox', att)
      BY <1>c, <1>4, SpeaksTail DEF Heard
    <2> QED BY <1>c, <1>4, <2>1, Nobody DEF NobodyCalls, OrchStays, Heard, Closing
  <1>5. CASE SessionEnds
    BY <1>3, <1>5 DEF SessionEnds
  <1>6. CASE OrchestratorStep
    BY <1>3, <1>4, <1>6 DEF OrchestratorStep, OnReady, OnDown, OnStopped, Takes
  <1> QED BY <1>1, <1>2, <1>5, <1>6

LEMMA HeardFields ==
  ASSUME TypeInv, Heard, NobodyCalls, UNCHANGED <<orch, att, handle>>, mishaps \subseteq mishaps',
         Calm /\ orch \in {"igniting", "active"} /\ Speaks(inbox, att) => Speaks(inbox', att)
  PROVE  Heard'
  BY DEF NobodyCalls, OrchStays, Heard, Closing, Calm

\* A pc_task that reports to the orchestrator of an attempt is that of the attempt.
LEMMA PeerHeard ==
  ASSUME TypeInv, UseInv, Joined, Heard, NEW s \in Attempts, PeerReports(s) \/ PeerStep(s) \/ SenderExits(s)
  PROVE  Heard'
  <1>1. NobodyCalls /\ UNCHANGED <<orch, att, handle>> /\ mishaps \subseteq mishaps'
    BY PeerKeepsPlace
  <1>2. ASSUME ses[s].peer = "loop", Calm, orch \in {"igniting", "active"} PROVE s = att
    <2>1. NoOverlap
      BY <1>2 DEF Calm, NoOverlap
    <2>2. CASE s = handle
      BY <1>2, <2>2, InRange DEF UseInv, Order, Attempts
    <2>3. CASE \E t \in Callers : Way(t) = "peer" /\ call[t].ses = s
      <3>1. PICK t \in Callers : Way(t) = "peer" /\ call[t].ses = s
        BY <2>3
      <3>2. Closing(t)
        BY <3>1, CallersAt DEF Closing
      <3>3. t # "stop"
        BY <1>2, <2>1, <3>2 DEF UseInv, Order, Works, Closing
      <3>4. t = "orch" /\ Aim("orch") # "teardown" /\ Aim("orch") # "start"
        BY <1>2, <3>2, <3>3 DEF UseInv, Stages, Heard, Callers
      <3>5. Aim("orch") = "fail"
        BY <3>2, <3>4, CallersAt DEF Closing, CloseHeads
      <3> QED BY <3>1, <3>4, <3>5 DEF UseInv, InUse
    <2> QED BY <1>2, <2>1, <2>2, <2>3 DEF Joined
  <1>3. CASE UNCHANGED inbox
    BY <1>1, <1>3, HeardFields
  <1>4. ASSUME NEW e \in Events, e.from = s, inbox' = Append(inbox, e), ses[s].peer = "loop" PROVE Heard'
    <2>1. inbox \in Seq(Events)
      BY DEF TypeInv, PlainOK
    <2> QED BY <1>1, <1>2, <1>4, <2>1, SpeaksAppend, HeardFields
  <1>5. PeerAt(s, "down") \/ PeerAt(s, "ready") => ses[s].peer = "loop"
    BY DEF PeerAt, TypeInv, PeersOK
  <1>6. CASE CallbackReportsDown(s)
    <2>1. Event("down", s) \in Events /\ Event("down", s).from = s
      BY DEF Event, Events, Attempts
    <2> QED BY <1>4, <1>5, <1>6, <2>1 DEF CallbackReportsDown, Post
  <1>7. CASE CallbackReportsReady(s)
    <2>1. Event("ready", s) \in Events /\ Event("ready", s).from = s
      BY DEF Event, Events, Attempts
    <2> QED BY <1>3, <1>4, <1>5, <1>7, <2>1 DEF CallbackReportsReady
  <1>8. CASE PeerReports(s) \/ SenderExits(s)
    BY <1>3, <1>8 DEF PeerReports, PeerConnects, PeerFails, PeerOpensChannel, PeerLosesChannel,
       PeerDisconnects, ServerAnswers, SenderExits
  <1>9. CASE PeerStep(s) /\ ~CallbackReportsDown(s) /\ ~CallbackReportsReady(s)
    BY <1>3, <1>9 DEF PeerStep, StreamStarts, SenderSpawns, StreamTested, StreamStops, PeerJoinsSender,
       CallbackChecks, CallbackSchedules, PeerExits
  <1> QED BY <1>6, <1>7, <1>8, <1>9

LEMMA HeardBegins == Init => Heard
  <1> SUFFICES ASSUME Init PROVE Heard
    OBVIOUS
  <1>1. Now("orch") = "none" /\ inbox = <<>>
    BY NewLists DEF Init, Now, Callers
  <1>2. "none" \notin CloseHeads
    BY DEF CloseHeads
  <1> QED BY <1>1, <1>2, SpeaksNothing DEF Heard, Closing

LEMMA HeardStays == TypeInv /\ UseInv /\ Joined /\ Heard /\ [Next]_vars => Heard'
  <1> SUFFICES ASSUME TypeInv, UseInv, Joined, Heard, [Next]_vars PROVE Heard'
    OBVIOUS
  <1>1. CASE UNCHANGED vars
    BY <1>1, Nobody, HeardFields
  <1>2. ASSUME NEW g \in Gens, UpdateChecks(g) \/ UpdateSends(g)
        PROVE  Heard'
    BY <1>2, UpdateKeepsPlace, HeardFields
  <1> QED BY <1>1, <1>2, CallerHeard, OrchestratorHeard, PeerHeard DEF Next

LEMMA HeardAlways == Spec => []Heard
  BY HeardBegins, HeardStays, Typed, InUseAlways, JoinedAlways, PTL DEF Spec

\* An event of an earlier session never ends or confirms a later one, and a WEBRTC_STOPPED
\* of the stop task finds no session in use (orchestrator_fsm.c:620-709), unless WiFi
\* was lost while the stop task was at work or the task could not be created.
THEOREM EventsOrdered == Spec => []EventsInOrder
  <1>1. TypeInv /\ UseInv /\ Heard => EventsInOrder
    <2> SUFFICES ASSUME TypeInv, UseInv, Heard, Calm, inbox # <<>>
                 PROVE  LET e == Head(inbox) IN
                        /\ e.ev \in {"ready", "down"} /\ orch \in {"igniting", "active"} => e.from = att
                        /\ e.ev = "stopped" /\ e.from # 0 /\ orch = "stopping" => handle = 0
      BY DEF EventsInOrder, Calm
    <2>1. inbox \in Seq(Events)
      BY DEF TypeInv, PlainOK
    <2>2. 1 \in DOMAIN inbox /\ Head(inbox) = inbox[1]
      BY <2>1
    <2>3. Head(inbox).ev \in {"ready", "down"} /\ orch \in {"igniting", "active"} => Head(inbox).from = att
      BY <2>2 DEF Heard, Speaks
    <2>4. Head(inbox).ev = "stopped" => handle = 0
      BY <2>2 DEF UseInv, Order, Queued
    <2> QED BY <2>3, <2>4
  <1> QED BY <1>1, Typed, InUseAlways, HeardAlways, PTL

-----------------------------------------------------------------------------
(* What the steps mean for the streams                                     *)

\* Some caller has found the stream of the session s running and waits for its end.
Stopping(s) == \E t \in Callers : Now(t) \in {"off", "waitSend"} /\ call[t].ses = s

\* pc_send and the bits it is watched by.
SameSender(s) ==
  /\ ses'[s].sending <=> ses[s].sending
  /\ ses'[s].sender <=> ses[s].sender
  /\ ses'[s].quitBit <=> ses[s].quitBit

\* What pc_task and pc_send do of session s, as far as the stream goes: nothing, send
\* next, send, create pc_send or fail to, stop next, stop, come back from waiting; and
\* pc_send leaves.
DoesNothing(s) ==
  /\ SameSender(s) /\ (ses'[s].phase = "new" => ses[s].phase = "new")
  /\ PNow(s) \notin {"spawn", "off", "waitSend"} /\ PNow(s)' \notin {"send", "spawn", "off", "waitSend"}
SendsNext(s) ==
  /\ SameSender(s) /\ ses[s].phase = "new" /\ ses'[s].phase # "new" /\ ses[s].running
  /\ PNow(s) = "none" /\ PNow(s)' \in {"none", "send"}
Sends(s) ==
  /\ ses'[s].sending /\ (ses'[s].sender <=> ses[s].sender) /\ (ses'[s].quitBit <=> ses[s].quitBit)
  /\ ses'[s].phase = ses[s].phase
  /\ PNow(s) = "send" /\ PNow(s)' = "spawn"
  /\ ses[s].closing => "late" \in mishaps'
Spawns(s) ==
  /\ (ses'[s].quitBit <=> ses[s].quitBit) /\ ses'[s].phase = ses[s].phase
  /\ PNow(s) = "spawn" /\ PNow(s)' \notin {"send", "spawn", "off", "waitSend"}
  /\ \/ ses'[s].sender /\ (ses'[s].sending <=> ses[s].sending)
     \/ /\ ~ses'[s].sending /\ (ses'[s].sender <=> ses[s].sender)
        /\ Stopping(s) => "stillborn" \in mishaps'
StopsNext(s) ==
  /\ SameSender(s) /\ ses[s].sending /\ ses'[s].phase = ses[s].phase
  /\ PNow(s) = "streams" /\ PNow(s)' = "off"
  /\ \A t \in Callers : Now(t) = "off" /\ call[t].ses = s => "race" \in mishaps'
Stops(s) ==
  /\ ~ses'[s].sending /\ (ses'[s].sender <=> ses[s].sender)
  /\ (ses'[s].quitBit <=> ses[s].quitBit) /\ ses'[s].phase = ses[s].phase
  /\ PNow(s) = "off" /\ PNow(s)' = "waitSend"
ComesBack(s) ==
  /\ (ses'[s].sending <=> ses[s].sending) /\ (ses'[s].sender <=> ses[s].sender)
  /\ ses[s].quitBit /\ ~ses'[s].quitBit /\ ses'[s].phase = ses[s].phase
  /\ PNow(s) = "waitSend" /\ PNow(s)' \notin {"send", "spawn", "off", "waitSend"}
Leaves(s) ==
  /\ (ses'[s].sending <=> ses[s].sending) /\ ~ses[s].sending
  /\ ses[s].sender /\ ~ses'[s].sender /\ ses'[s].quitBit
  /\ ses'[s].phase = ses[s].phase /\ PNow(s)' = PNow(s)

LEMMA PeerStreams ==
  ASSUME TypeInv, NEW s \in Attempts, PeerReports(s) \/ PeerStep(s) \/ SenderExits(s)
  PROVE  /\ \A x \in Attempts : x # s => ses'[x] = ses[x]
         /\ \/ DoesNothing(s) \/ SendsNext(s) \/ Sends(s) \/ Spawns(s) \/ StopsNext(s)
            \/ Stops(s) \/ ComesBack(s) \/ Leaves(s)
  <1>0. PeersOK /\ \A t \in Callers : call[t].todo \in Shapes(t)
    BY DEF TypeInv, CallsOK
  <1>p. \A F : Serves(s, F) => PNow(s)' \in F /\ \A x \in Attempts : x # s => ses'[x] = ses[x]
    BY DEF Serves, PNow
  <1>s. \A F : Only(s, F) /\ F \cap {"sending", "sender", "quitBit"} = {} => SameSender(s)
    BY DEF Only, Fields, SameSender
  <1>f. \A F : Only(s, F) /\ "phase" \notin F => ses'[s].phase = ses[s].phase
    BY DEF Only, Fields
  <1>1. CASE PeerConnects(s)
    <2>1. ses[s].phase = "new" /\ ses[s].running
      BY <1>1 DEF PeerConnects, Loops
    <2> QED BY <1>1, <2>1, <1>0, <1>p, <1>s, PeerConnectsServes, PeerConnectsOnly DEF SendsNext
  <1>2. CASE PeerFails(s)
    BY <1>2, <1>0, <1>p, <1>s, <1>f, PeerFailsServes, PeerFailsOnly DEF DoesNothing, AfterStep
  <1>3. CASE PeerOpensChannel(s)
    BY <1>3, <1>0, <1>p, <1>s, <1>f, PeerOpensChannelServes, PeerOpensChannelOnly DEF DoesNothing, AfterStep
  <1>4. CASE PeerLosesChannel(s)
    BY <1>4, <1>0, <1>p, <1>s, <1>f, PeerLosesChannelServes, PeerLosesChannelOnly DEF DoesNothing, AfterStep
  <1>5. CASE PeerDisconnects(s)
    BY <1>5, <1>0, <1>p, <1>s, <1>f, PeerDisconnectsServes, PeerDisconnectsOnly DEF DoesNothing, AfterStep
  <1>6. CASE ServerAnswers(s)
    BY <1>6, <1>0, <1>p, <1>s, <1>f, ServerAnswersServes, ServerAnswersOnly DEF DoesNothing, AfterStep
  <1>7. CASE StreamStarts(s)
    <2>0. ses[s] \in Session
      BY <1>0 DEF PeersOK
    <2>1. PNow(s) = "send" /\ \A x \in Attempts : x # s => ses'[x] = ses[x]
      BY <1>7, <1>0, <1>p, StreamStartsServes
    <2>2. CASE /\ Serves(s, {"spawn"})
               /\ ses'[s] = [ses[s] EXCEPT !.sending = TRUE, !.todo = ses'[s].todo]
               /\ ses[s].closing => "late" \in mishaps'
      <3>1. /\ ses'[s].sending /\ ses'[s].sender = ses[s].sender /\ ses'[s].quitBit = ses[s].quitBit
            /\ ses'[s].phase = ses[s].phase
        BY <2>0, <2>2 DEF Session
      <3>2. PNow(s)' = "spawn"
        BY <1>p, <2>2
      <3> QED BY <2>1, <2>2, <3>1, <3>2 DEF Sends
    <2>3. CASE Serves(s, AfterStep) /\ ses'[s] = [ses[s] EXCEPT !.todo = ses'[s].todo]
      <3>1. /\ ses'[s].sending = ses[s].sending /\ ses'[s].sender = ses[s].sender
            /\ ses'[s].quitBit = ses[s].quitBit /\ ses'[s].phase = ses[s].phase
        BY <2>0, <2>3 DEF Session
      <3>2. PNow(s)' \in AfterStep
        BY <1>p, <2>3
      <3> QED BY <2>1, <3>1, <3>2 DEF DoesNothing, SameSender, AfterStep
    <2> QED BY <1>7, <1>0, <2>2, <2>3, StreamStartsServes
  <1>8. CASE StreamTested(s)
    <2>1. SameSender(s) /\ ses'[s].phase = ses[s].phase
      BY <1>8, <1>s, <1>f, StreamTestedOnly
    <2>2. CASE ses[s].sending
      <3>1. \A t \in Callers : Now(t) = "off" => At(t, "off")
        BY <1>0, Stage DEF Now, At, First
      <3>2. \A t \in Callers : Now(t) = "off" /\ call[t].ses = s => "race" \in mishaps'
        BY <1>8, <2>2, <3>1 DEF StreamTested
      <3>3. PNow(s) = "streams" /\ PNow(s)' = "off"  /\ \A x \in Attempts : x # s => ses'[x] = ses[x]
        BY <1>8, <1>0, <1>p, <2>2, StreamTestedServes
      <3> QED BY <2>1, <2>2, <3>2, <3>3 DEF StopsNext
    <2>3. CASE ~ses[s].sending
      BY <1>8, <1>0, <1>p, <2>1, <2>3, StreamTestedServes DEF DoesNothing, AfterStep
    <2> QED BY <2>2, <2>3
  <1>9. CASE StreamStops(s)
    <2>1. /\ ses[s] \in Session /\ ses'[s].phase = ses[s].phase
      BY <1>9, <1>0, <1>f, StreamStopsOnly DEF PeersOK
    <2>2. (ses'[s].sender <=> ses[s].sender) /\ (ses'[s].quitBit <=> ses[s].quitBit) /\ ~ses'[s].sending
      BY <1>9, StreamStopsOnly DEF Only, Fields
    <2> QED BY <1>9, <1>0, <1>p, <2>1, <2>2, StreamStopsServes DEF Stops, AfterStep
  <1>10. CASE PeerJoinsSender(s)
    <2>1. /\ ses[s] \in Session /\ ses'[s].phase = ses[s].phase
      BY <1>10, <1>0, <1>f, PeerJoinsSenderOnly DEF PeersOK
    <2>2. /\ (ses'[s].sender <=> ses[s].sender) /\ (ses'[s].sending <=> ses[s].sending)
          /\ ~ses'[s].quitBit /\ ses[s].quitBit
      BY <1>10, PeerJoinsSenderOnly DEF Only, Fields, PeerJoinsSender
    <2> QED BY <1>10, <1>0, <1>p, <2>1, <2>2, PeerJoinsSenderServes DEF ComesBack, AfterStep
  <1>11. CASE CallbackChecks(s)
    <2>1. SameSender(s) /\ ses'[s].phase = ses[s].phase
      BY <1>11, <1>s, <1>f, CallbackChecksOnly
    <2>2. PNow(s) \in {"check_up", "check_down", "check_ready"}
      BY <1>11, <1>0, CallbackChecksServes
    <2>3. Serves(s, {Checked(PNow(s))}) \/ Serves(s, AfterStep)
      BY <1>11, <1>0, CallbackChecksServes
    <2>4. Checked(PNow(s)) \in {"up", "down", "ready"}
      BY <2>2 DEF Checked
    <2>5. /\ PNow(s)' \in {"up", "down", "ready"} \cup AfterStep
          /\ \A x \in Attempts : x # s => ses'[x] = ses[x]
      BY <2>3, <2>4, <1>p
    <2> QED BY <2>1, <2>2, <2>5 DEF DoesNothing, AfterStep
  <1>12. CASE CallbackSchedules(s)
    BY <1>12, <1>0, <1>p, <1>s, <1>f, CallbackSchedulesServes, CallbackSchedulesOnly DEF DoesNothing, AfterStep
  <1>13. CASE CallbackReportsDown(s)
    BY <1>13, <1>0, <1>p, <1>s, <1>f, CallbackReportsDownServes, CallbackReportsDownOnly DEF DoesNothing, AfterStep
  <1>14. CASE CallbackReportsReady(s)
    BY <1>14, <1>0, <1>p, <1>s, <1>f, CallbackReportsReadyServes, CallbackReportsReadyOnly DEF DoesNothing, AfterStep
  <1>15. CASE PeerExits(s)
    <2>1. SameSender(s) /\ ses'[s].phase = ses[s].phase
      BY <1>15, <1>s, <1>f, PeerExitsOnly
    <2>2. PNow(s) = "none" /\ PNow(s)' = "none" /\ \A x \in Attempts : x # s => ses'[x] = ses[x]
      BY <1>15, <1>0, <1>p, PeerExitsServes
    <2> QED BY <2>1, <2>2 DEF DoesNothing
  <1>16. CASE SenderExits(s)
    <2>1. /\ ses[s] \in Session /\ ses'[s].phase = ses[s].phase
      BY <1>16, <1>0, <1>f, SenderExitsOnly DEF PeersOK
    <2>2. /\ (ses'[s].sending <=> ses[s].sending) /\ ses'[s].quitBit /\ ~ses'[s].sender
          /\ ses[s].sender /\ ~ses[s].sending
      BY <1>16, SenderExitsOnly DEF Only, Fields, SenderExits
    <2>3. PICK now : now = PNow(s)
      OBVIOUS
    <2>4. Serves(s, {now})
      BY <1>16, <1>0, <2>3, SenderExitsServes
    <2>5. PNow(s)' = PNow(s) /\ \A x \in Attempts : x # s => ses'[x] = ses[x]
      BY <2>3, <2>4, <1>p
    <2> QED BY <2>1, <2>2, <2>5 DEF Leaves
  <1>17. CASE SenderSpawns(s)
    <2>0. ses[s] \in Session
      BY <1>0 DEF PeersOK
    <2>1. /\ PNow(s) = "spawn" /\ PNow(s)' \in AfterStep
          /\ \A x \in Attempts : x # s => ses'[x] = ses[x]
      BY <1>17, <1>0, <1>p, SenderSpawnsServes
    <2>2. CASE ses'[s] = [ses[s] EXCEPT !.sender = TRUE, !.todo = ses'[s].todo]
      <3>1. /\ ses'[s].sender /\ ses'[s].sending = ses[s].sending
            /\ ses'[s].quitBit = ses[s].quitBit /\ ses'[s].phase = ses[s].phase
        BY <2>0, <2>2 DEF Session
      <3> QED BY <2>1, <3>1 DEF Spawns, AfterStep
    <2>3. CASE /\ ses'[s] = [ses[s] EXCEPT !.sending = FALSE, !.todo = ses'[s].todo]
               /\ FoundRunning(s) => "stillborn" \in mishaps'
      <3>1. /\ ~ses'[s].sending /\ ses'[s].sender = ses[s].sender
            /\ ses'[s].quitBit = ses[s].quitBit /\ ses'[s].phase = ses[s].phase
        BY <2>0, <2>3 DEF Session
      <3>2. \A t \in Callers : /\ Now(t) = "off" => At(t, "off")
                               /\ Now(t) = "waitSend" => At(t, "waitSend")
        BY <1>0, Stage DEF Now, At, First
      <3>3. Stopping(s) => "stillborn" \in mishaps'
        BY <2>3, <3>2 DEF Stopping, FoundRunning
      <3> QED BY <2>1, <3>1, <3>3 DEF Spawns, AfterStep
    <2> QED BY <1>17, <1>0, <2>2, <2>3, SenderSpawnsServes
  <1> QED BY <1>1, <1>2, <1>3, <1>4, <1>5, <1>6, <1>7, <1>8, <1>9, <1>10, <1>11, <1>12, <1>13, <1>14, <1>15, <1>16, <1>17 DEF PeerReports, PeerStep

\* Of session x nothing changes that has to do with its stream.
QuietIn(x) == SameSender(x) /\ ses'[x].phase = ses[x].phase /\ PNow(x)' = PNow(x)
Quiet == \A x \in Attempts : QuietIn(x)
NoneStarted == \A x \in Attempts : ses'[x].running => ses[x].running

\* What a caller does, as far as streams go: nothing; start the session of the
\* orchestrator; find the stream of s running, stop it, come back from waiting for
\* pc_send; free s.
CallerIdles(t) ==
  /\ Quiet /\ NoneStarted
  /\ Now(t) \notin {"off", "waitSend"} /\ Now(t)' \notin {"off", "waitSend"}
CallerStarts(t) ==
  /\ Quiet /\ (\A x \in Attempts : x # att => ses'[x] = ses[x])
  /\ Now(t) = "start" /\ t = "orch" /\ Now(t)' \notin {"off", "waitSend"}
CallerFinds(t, s) ==
  /\ Quiet /\ NoneStarted
  /\ Now(t) = "streams" /\ Now(t)' = "off"
  /\ ses[s].sending /\ (PNow(s) = "off" => "race" \in mishaps')
CallerStops(t, s) ==
  /\ (\A x \in Attempts : x # s => QuietIn(x)) /\ NoneStarted
  /\ Now(t) = "off" /\ Now(t)' = "waitSend"
  /\ ~ses'[s].sending /\ (ses'[s].sender <=> ses[s].sender) /\ (ses'[s].quitBit <=> ses[s].quitBit)
  /\ ses'[s].phase = ses[s].phase /\ PNow(s)' = PNow(s)
CallerJoins(t, s) ==
  /\ (\A x \in Attempts : x # s => QuietIn(x)) /\ NoneStarted
  /\ Now(t) = "waitSend" /\ Now(t)' \in {"peer", "free"}
  /\ (ses'[s].sending <=> ses[s].sending) /\ (ses'[s].sender <=> ses[s].sender)
  /\ ses[s].quitBit /\ ~ses'[s].quitBit
  /\ ses'[s].phase = ses[s].phase /\ PNow(s)' = PNow(s)
CallerFrees(t, s) ==
  /\ (\A x \in Attempts : x # s => QuietIn(x)) /\ NoneStarted
  /\ Now(t) = "free" /\ Now(t)' \in {"open", "fail", "teardown"}
  /\ (ses'[s].sending <=> ses[s].sender /\ ses[s].sending) /\ (ses'[s].sender <=> ses[s].sender)
  /\ ~ses'[s].quitBit /\ ~ses'[s].running /\ PNow(s)' = "none"

LEMMA CallerStreams ==
  ASSUME TypeInv, NEW t \in Callers, CallStep(t)
  PROVE  /\ OnlyTurns(t) /\ mishaps \subseteq mishaps' /\ UNCHANGED att
         /\ \/ CallerIdles(t) \/ CallerStarts(t)
            \/ \E s \in Attempts :
                 /\ s = call[t].ses /\ call'[t].ses = s
                 /\ CallerFinds(t, s) \/ CallerStops(t, s) \/ CallerJoins(t, s) \/ CallerFrees(t, s)
  <1>r. /\ ses \in [Attempts -> Session] /\ (Closing(t) => call[t].ses \in Attempts)
    BY Anchors, InRange, BoundsAssumption DEF TypeInv, PeersOK
  <1>h. CloseHeads \cap {"none", "begin", "open", "start", "fail", "take", "teardown", "post", "exit"} = {}
    BY DEF CloseHeads
  <1>1. ASSUME UNCHANGED ses PROVE Quiet /\ NoneStarted
    BY <1>1 DEF Quiet, QuietIn, NoneStarted, SameSender, PNow
  <1>2. ASSUME NEW s \in Attempts, NEW F, Only(s, F)
        PROVE  /\ \A x \in Attempts : x # s => QuietIn(x)
               /\ \A f \in Fields \ F : ses'[s][f] = ses[s][f]
    BY <1>2 DEF Only, QuietIn, SameSender, PNow
  <1>3. ASSUME NEW s \in Attempts, NEW F, Only(s, F),
               F \cap {"sending", "sender", "quitBit", "phase", "todo"} = {}
        PROVE  Quiet
    <2>1. \A f \in {"sending", "sender", "quitBit", "phase", "todo"} : ses'[s][f] = ses[s][f]
      BY <1>2, <1>3 DEF Fields
    <2>2. QuietIn(s)
      BY <2>1 DEF QuietIn, SameSender, PNow
    <2> QED BY <1>2, <1>3, <2>2 DEF Quiet
  <1>4. ASSUME NEW s \in Attempts, NEW F, Only(s, F), "running" \notin F \/ ~ses'[s].running
        PROVE  NoneStarted
    <2>1. \A x \in Attempts : x # s => ses'[x] = ses[x]
      BY <1>4 DEF Only
    <2>2. ses'[s].running => ses[s].running
      BY <1>4, <1>2 DEF Fields
    <2> QED BY <2>1, <2>2 DEF NoneStarted
  <1>5. CASE StopTakes(t)
    <2>1. UNCHANGED <<ses, mishaps, att>>
      BY <1>5 DEF StopTakes
    <2> QED BY <1>5, <1>1, <2>1, TakesTurn DEF CallerIdles
  <1>6. CASE CloseMarks(t)
    <2>1. UNCHANGED <<mishaps, att>>
      BY <1>6 DEF CloseMarks
    <2>2. Quiet /\ NoneStarted
      BY <1>6, <1>3, <1>4, CloseMarksOnly
    <2> QED BY <1>6, <2>1, <2>2, MarksTurn DEF CallerIdles
  <1>7. CASE CloseTestsStream(t)
    <2>1. UNCHANGED <<ses, att>> /\ mishaps \subseteq mishaps'
      BY <1>7 DEF CloseTestsStream
    <2>2. CASE ~ses[call[t].ses].sending
      BY <1>7, <1>1, <2>1, <2>2, TestsTurn DEF CallerIdles
    <2>3. CASE ses[call[t].ses].sending
      <3>1. PICK s \in Attempts : s = call[t].ses
        BY <1>7, <1>r, TestsTurn DEF Closing, CloseHeads
      <3>2. PNow(s) = "off" => PeerAt(s, "off")
        BY ShortLists DEF PNow, First, PeerAt
      <3>3. PNow(s) = "off" => "race" \in mishaps'
        BY <1>7, <2>3, <3>1, <3>2 DEF CloseTestsStream
      <3>4. Now(t) = "streams" /\ Now(t)' = "off" /\ call'[t].ses = call[t].ses /\ OnlyTurns(t)
        BY <1>7, <1>h, <2>3, TestsTurn
      <3>5. CallerFinds(t, s)
        BY <1>1, <2>1, <2>3, <3>1, <3>3, <3>4 DEF CallerFinds
      <3> QED BY <2>1, <3>1, <3>4, <3>5
    <2> QED BY <2>2, <2>3
  <1>8. CASE CloseStopsStream(t)
    <2>1. UNCHANGED <<mishaps, att>>
      BY <1>8 DEF CloseStopsStream
    <2>2. PICK s \in Attempts : s = call[t].ses
      BY <1>8, CloseStopsStreamOnly
    <2>3. Only(s, {"sending"}) /\ ses'[s].sending = FALSE
      BY <1>8, <2>2, CloseStopsStreamOnly
    <2>4. (\A x \in Attempts : x # s => QuietIn(x)) /\ NoneStarted
      BY <1>2, <1>4, <2>3
    <2>5. \A f \in {"sender", "quitBit", "phase", "todo"} : ses'[s][f] = ses[s][f]
      BY <1>2, <2>3 DEF Fields
    <2>6. Now(t) = "off" /\ Now(t)' = "waitSend" /\ call'[t].ses = call[t].ses /\ OnlyTurns(t)
      BY <1>8, StopsTurn
    <2>7. CallerStops(t, s)
      BY <2>3, <2>4, <2>5, <2>6 DEF CallerStops, PNow
    <2> QED BY <2>1, <2>2, <2>6, <2>7
  <1>9. CASE CloseJoinsSender(t)
    <2>1. UNCHANGED <<mishaps, att>> /\ ses[call[t].ses].quitBit
      BY <1>9 DEF CloseJoinsSender
    <2>2. PICK s \in Attempts : s = call[t].ses
      BY <1>9, CloseJoinsSenderOnly
    <2>3. Only(s, {"quitBit"}) /\ ses'[s].quitBit = FALSE
      BY <1>9, <2>2, CloseJoinsSenderOnly
    <2>4. (\A x \in Attempts : x # s => QuietIn(x)) /\ NoneStarted
      BY <1>2, <1>4, <2>3
    <2>5. \A f \in {"sender", "sending", "phase", "todo"} : ses'[s][f] = ses[s][f]
      BY <1>2, <2>3 DEF Fields
    <2>6. Now(t) = "waitSend" /\ Now(t)' \in {"peer", "free"} /\ call'[t].ses = call[t].ses /\ OnlyTurns(t)
      BY <1>9, JoinsSenderTurn
    <2>7. CallerJoins(t, s)
      BY <2>1, <2>2, <2>3, <2>4, <2>5, <2>6 DEF CallerJoins, PNow
    <2> QED BY <2>1, <2>2, <2>6, <2>7
  <1>10. CASE ClosePeer(t)
    <2>1. UNCHANGED <<mishaps, att>>
      BY <1>10 DEF ClosePeer
    <2>2. Quiet /\ NoneStarted
      BY <1>10, <1>3, <1>4, ClosePeerOnly
    <2> QED BY <1>10, <2>1, <2>2, ClosePeerTurn DEF CallerIdles
  <1>11. CASE CloseJoinsPeer(t)
    <2>1. UNCHANGED <<mishaps, att>>
      BY <1>11 DEF CloseJoinsPeer
    <2>2. Quiet /\ NoneStarted
      BY <1>11, <1>3, <1>4, CloseJoinsPeerOnly
    <2> QED BY <1>11, <2>1, <2>2, JoinsPeerTurn DEF CallerIdles
  <1>12. CASE CloseFrees(t)
    <2>1. UNCHANGED <<mishaps, att>>
      BY <1>12 DEF CloseFrees
    <2>2. PICK s \in Attempts : s = call[t].ses
      BY <1>12, CloseFreesOnly
    <2>3. /\ Only(s, Fields \ {"peer", "sender"})
          /\ ses'[s].sending = (ses[s].sender /\ ses[s].sending)
          /\ ses'[s].quitBit = FALSE /\ ses'[s].running = FALSE /\ ses'[s].todo = <<>>
      BY <1>12, <2>2, CloseFreesOnly
    <2>4. (\A x \in Attempts : x # s => QuietIn(x)) /\ NoneStarted
      BY <1>2, <1>4, <2>3
    <2>5. ses'[s].sender = ses[s].sender
      BY <1>2, <2>3 DEF Fields
    <2>6. /\ Now(t) = "free" /\ Now(t)' \in {"open", "fail", "teardown"}
          /\ call'[t].ses = call[t].ses /\ OnlyTurns(t)
      BY <1>12, FreesTurn
    <2>7. PNow(s)' = "none"
      BY <2>3 DEF PNow, First
    <2>8. CallerFrees(t, s)
      BY <2>3, <2>4, <2>5, <2>6, <2>7 DEF CallerFrees
    <2> QED BY <2>1, <2>2, <2>6, <2>8
  <1>13. CASE TearsDownMedia(t)
    <2>1. UNCHANGED <<ses, mishaps, att>>
      BY <1>13 DEF TearsDownMedia
    <2> QED BY <1>13, <1>1, <2>1, TeardownTurn DEF CallerIdles
  <1>14. CASE t = "orch" /\ StartTakes
    <2>1. UNCHANGED <<mishaps, att>>
      BY <1>14 DEF StartTakes
    <2>2. CASE gen' # gen
      <3>1. Quiet /\ NoneStarted
        BY <1>14, <1>3, <1>4, <2>2, StartTakesOnly
      <3> QED BY <1>14, <2>1, <3>1, OtherTurns DEF CallerIdles
    <2>3. CASE gen' = gen
      <3>0. gen \in Nat
        BY DEF TypeInv, PlainOK
      <3>1. UNCHANGED ses
        BY <1>14, <2>3, <3>0 DEF StartTakes, TakeSession
      <3> QED BY <1>14, <1>1, <2>1, <3>1, OtherTurns DEF CallerIdles
    <2> QED BY <2>2, <2>3
  <1>15. CASE t = "orch" /\ StartOpens
    <2>1. UNCHANGED <<mishaps, att>>
      BY <1>15 DEF StartOpens
    <2>2. Quiet /\ NoneStarted
      BY <1>15, <1>3, <1>4, StartOpensOnly
    <2> QED BY <1>15, <2>1, <2>2, OtherTurns DEF CallerIdles
  <1>16. CASE t = "orch" /\ StartStarts
    <2>1. UNCHANGED <<mishaps, att>>
      BY <1>16 DEF StartStarts
    <2>2. Quiet /\ \A x \in Attempts : x # att => ses'[x] = ses[x]
      <3>1. att \in Attempts /\ Only(att, {"closing", "running", "peer"})
        BY <1>16, StartStartsOnly
      <3>2. PICK s \in Attempts : s = att
        BY <3>1
      <3>3. \A x \in Attempts : x # att => ses'[x] = ses[x]
        BY <3>1 DEF Only
      <3>4. Only(s, {"closing", "running", "peer"})
        BY <3>1, <3>2
      <3> QED BY <1>3, <3>3, <3>4
    <2>3. Now("orch") = "start"
      BY <1>16, OrchStartStarts
    <2> QED BY <1>16, <2>1, <2>2, <2>3, OtherTurns DEF CallerStarts
  <1>17. CASE t = "orch" /\ StartFails
    <2>1. UNCHANGED <<ses, mishaps, att>>
      BY <1>17 DEF StartFails
    <2> QED BY <1>17, <1>1, <2>1, OtherTurns DEF CallerIdles
  <1>18. CASE t = "stop" /\ StopPosts
    <2>1. UNCHANGED <<ses, mishaps, att>>
      BY <1>18 DEF StopPosts
    <2> QED BY <1>18, <1>1, <2>1, OtherTurns DEF CallerIdles
  <1>19. CASE t = "stop" /\ StopExits
    <2>1. UNCHANGED <<ses, mishaps, att>>
      BY <1>19 DEF StopExits
    <2> QED BY <1>19, <1>1, <2>1, OtherTurns DEF CallerIdles
  <1> QED BY <1>5, <1>6, <1>7, <1>8, <1>9, <1>10, <1>11, <1>12, <1>13, <1>14, <1>15, <1>16, <1>17, <1>18, <1>19 DEF CallStep

-----------------------------------------------------------------------------
(* One stream per session                                                  *)

\* The stream of the session s has been started and is not yet forgotten.
Streamed(s) ==
  \/ ses[s].sending \/ ses[s].sender \/ ses[s].quitBit
  \/ PNow(s) \in {"spawn", "off", "waitSend"} \/ Stopping(s)

\* A session has pc_send started at most once, after the peer has connected, and
\* pc_send reports its exit when it leaves.
BegunAt(s) ==
  /\ ses[s].sending => ses[s].sender \/ PNow(s) = "spawn"
  /\ PNow(s) = "spawn" => ~ses[s].sender /\ ~ses[s].quitBit
  /\ ses[s].quitBit => ~ses[s].sender
  /\ PNow(s) = "send" => ~Streamed(s) /\ ses[s].phase # "new"
  /\ ses[s].phase = "new" /\ ses[s].running => ~Streamed(s)
Begun == \A s \in Attempts : BegunAt(s)

\* What the orchestrator does of its own accord: it gives a caller a list, or none.
LEMMA OrchestratorGives ==
  ASSUME TypeInv, Ignites \/ LosesWifi \/ SessionEnds \/ OrchestratorStep
  PROVE  /\ UNCHANGED <<ses, handle>> /\ mishaps \subseteq mishaps'
         /\ \/ NobodyCalls
            \/ \E t \in Callers : OnlyTurns(t) /\ Now(t) = "none" /\ Now(t)' \in {"begin", "take"}
  <1>o. /\ OnlyTurns("orch") <=> StopStays
        /\ OnlyTurns("stop") <=> OrchStays
        /\ "orch" \in Callers /\ "stop" \in Callers
    BY DEF OnlyTurns, StopStays, OrchStays, Callers
  <1>1. CASE Ignites
    BY <1>1, <1>o, OrchIgnites DEF Ignites, NobodyCalls
  <1>2. CASE LosesWifi
    BY <1>2, <1>o, OrchLosesWifi DEF LosesWifi
  <1>3. ASSUME NEW q, EnterStopping(q), UNCHANGED <<ses, handle>>
        PROVE  /\ mishaps \subseteq mishaps'
               /\ \/ NobodyCalls
                  \/ \E t \in Callers : OnlyTurns(t) /\ Now(t) = "none" /\ Now(t)' \in {"begin", "take"}
    BY <1>3, <1>o, StopBegins DEF EnterStopping, NobodyCalls
  <1>5. CASE SessionEnds
    BY <1>3, <1>5 DEF SessionEnds
  <1>6. CASE OrchestratorStep
    BY <1>3, <1>6, Nobody DEF OrchestratorStep, OnReady, OnDown, OnStopped
  <1> QED BY <1>1, <1>2, <1>5, <1>6

LEMMA BegunStill ==
  ASSUME NEW x \in Attempts, BegunAt(x), QuietIn(x), ses'[x].running => ses[x].running,
         Stopping(x)' => Streamed(x)
  PROVE  BegunAt(x)'
  <1>1. Streamed(x)' => Streamed(x)
    BY DEF QuietIn, SameSender, Streamed
  <1> QED BY <1>1 DEF QuietIn, SameSender, BegunAt

LEMMA StoppingTurns ==
  ASSUME NEW t \in Callers, OnlyTurns(t), NEW x, Stopping(x)'
  PROVE  Stopping(x) \/ (Now(t)' \in {"off", "waitSend"} /\ call'[t].ses = x)
  BY DEF OnlyTurns, Stopping

LEMMA StoppingStays ==
  ASSUME NobodyCalls, NEW x
  PROVE  Stopping(x)' <=> Stopping(x)
  BY DEF NobodyCalls, StopStays, OrchStays, Stopping, Callers

LEMMA CallerBegun ==
  ASSUME TypeInv, Untouched, Begun, NEW t \in Callers, CallStep(t)
  PROVE  Begun'
  <1> SUFFICES ASSUME NEW x \in Attempts PROVE BegunAt(x)'
    BY DEF Begun
  <1>0. BegunAt(x) /\ OnlyTurns(t)
    BY CallerStreams DEF Begun
  <1>1. CASE CallerIdles(t)
    BY <1>0, <1>1, StoppingTurns, BegunStill DEF CallerIdles, Quiet, NoneStarted, Streamed
  <1>2. CASE CallerStarts(t)
    <2>1. CASE x # att
      BY <1>0, <1>2, <2>1, StoppingTurns, BegunStill DEF CallerStarts, Quiet, Streamed
    <2>2. CASE x = att
      <3>1. Aim("orch") = "start"
        BY <1>2, CallersAt DEF CallerStarts
      <3>2. Virgin(x) /\ ~Stopping(x)
        BY <1>2, <2>2, <3>1, InRange DEF Untouched, Stopping, CallerStarts, Callers
      <3>3. ~Stopping(x)'
        BY <1>0, <1>2, <3>2, StoppingTurns DEF CallerStarts
      <3>4. PNow(x) = "none"
        BY <3>2 DEF Virgin, PNow, First
      <3>5. ~Streamed(x)' /\ PNow(x)' = "none"
        BY <1>2, <3>2, <3>3, <3>4 DEF CallerStarts, Quiet, QuietIn, SameSender, Virgin, Streamed
      <3> QED BY <3>5 DEF BegunAt, Streamed
    <2> QED BY <2>1, <2>2
  <1>3. ASSUME NEW s \in Attempts, s = call[t].ses, call'[t].ses = s, CallerFinds(t, s)
        PROVE  BegunAt(x)'
    BY <1>0, <1>3, StoppingTurns, BegunStill DEF CallerFinds, Quiet, NoneStarted, Streamed
  <1>4. ASSUME NEW s \in Attempts, s = call[t].ses, call'[t].ses = s, CallerStops(t, s)
        PROVE  BegunAt(x)'
    <2>1. CASE x # s
      BY <1>0, <1>4, <2>1, StoppingTurns, BegunStill DEF CallerStops, NoneStarted, Streamed
    <2>2. CASE x = s
      <3>1. Stopping(x)
        BY <1>4, <2>2 DEF CallerStops, Stopping
      <3>2. Streamed(x)
        BY <3>1 DEF Streamed
      <3> QED BY <1>0, <1>4, <2>2, <3>2 DEF CallerStops, BegunAt, NoneStarted
    <2> QED BY <2>1, <2>2
  <1>5. ASSUME NEW s \in Attempts, s = call[t].ses, call'[t].ses = s, CallerJoins(t, s)
        PROVE  BegunAt(x)'
    <2>1. CASE x # s
      BY <1>0, <1>5, <2>1, StoppingTurns, BegunStill DEF CallerJoins, NoneStarted, Streamed
    <2>2. CASE x = s
      <3>2. Streamed(x)
        BY <1>5, <2>2 DEF Streamed, CallerJoins
      <3> QED BY <1>0, <1>5, <2>2, <3>2 DEF CallerJoins, BegunAt, NoneStarted
    <2> QED BY <2>1, <2>2
  <1>6. ASSUME NEW s \in Attempts, s = call[t].ses, call'[t].ses = s, CallerFrees(t, s)
        PROVE  BegunAt(x)'
    <2>1. CASE x # s
      BY <1>0, <1>6, <2>1, StoppingTurns, BegunStill DEF CallerFrees, NoneStarted, Streamed
    <2>2. CASE x = s
      BY <1>0, <1>6, <2>2 DEF CallerFrees, BegunAt
    <2> QED BY <2>1, <2>2
  <1> QED BY <1>1, <1>2, <1>3, <1>4, <1>5, <1>6, CallerStreams

LEMMA PeerBegun ==
  ASSUME TypeInv, Begun, NEW s \in Attempts, PeerReports(s) \/ PeerStep(s) \/ SenderExits(s)
  PROVE  Begun'
  <1> SUFFICES ASSUME NEW x \in Attempts PROVE BegunAt(x)'
    BY DEF Begun
  <1>0. BegunAt(x) /\ (Stopping(x)' <=> Stopping(x)) /\ (ses'[x].running <=> ses[x].running)
    BY PeerKeepsPlace, StoppingStays DEF Begun
  <1>1. CASE x # s
    <2>1. ses'[x] = ses[x]
      BY <1>1, PeerStreams
    <2> QED BY <1>0, <2>1, BegunStill DEF QuietIn, SameSender, PNow, Streamed
  <1>2. CASE x = s
    <2>1. CASE DoesNothing(s)
      <3>1. Streamed(x)' => Streamed(x)
        BY <1>0, <1>2, <2>1 DEF DoesNothing, SameSender, Streamed
      <3> QED BY <1>0, <1>2, <2>1, <3>1 DEF DoesNothing, SameSender, BegunAt
    <2>2. CASE SendsNext(s)
      <3>1. ~Streamed(x)
        BY <1>0, <1>2, <2>2 DEF SendsNext, BegunAt
      <3>2. ~Streamed(x)'
        BY <1>0, <1>2, <2>2, <3>1 DEF SendsNext, SameSender, Streamed
      <3> QED BY <1>0, <1>2, <2>2, <3>1, <3>2 DEF SendsNext, SameSender, BegunAt
    <2>3. CASE Sends(s)
      <3>1. ~Streamed(x)
        BY <1>0, <1>2, <2>3 DEF Sends, BegunAt
      <3> QED BY <1>0, <1>2, <2>3, <3>1 DEF Sends, BegunAt, Streamed
    <2>8. CASE Spawns(s)
      <3>1. Streamed(x) /\ ~ses[x].sender /\ ~ses[x].quitBit
        BY <1>0, <1>2, <2>8 DEF Spawns, Streamed, BegunAt
      <3> QED BY <1>0, <1>2, <2>8, <3>1 DEF Spawns, BegunAt
    <2>4. CASE StopsNext(s)
      <3>1. Streamed(x)
        BY <1>2, <2>4 DEF StopsNext, Streamed
      <3> QED BY <1>0, <1>2, <2>4, <3>1 DEF StopsNext, SameSender, BegunAt
    <2>5. CASE Stops(s)
      <3>1. Streamed(x)
        BY <1>2, <2>5 DEF Stops, Streamed
      <3> QED BY <1>0, <1>2, <2>5, <3>1 DEF Stops, BegunAt
    <2>6. CASE ComesBack(s)
      <3>1. Streamed(x)
        BY <1>2, <2>6 DEF ComesBack, Streamed
      <3> QED BY <1>0, <1>2, <2>6, <3>1 DEF ComesBack, BegunAt
    <2>7. CASE Leaves(s)
      <3>1. Streamed(x)
        BY <1>2, <2>7 DEF Leaves, Streamed
      <3> QED BY <1>0, <1>2, <2>7, <3>1 DEF Leaves, BegunAt
    <2> QED BY <2>1, <2>2, <2>3, <2>4, <2>5, <2>6, <2>7, <2>8, PeerStreams
  <1> QED BY <1>1, <1>2

LEMMA BegunBegins == Init => Begun
  <1> SUFFICES ASSUME Init PROVE Begun
    OBVIOUS
  <1>1. \A s \in Attempts : ~ses[s].sending /\ ~ses[s].sender /\ ~ses[s].quitBit /\ ~ses[s].running /\ PNow(s) = "none"
    BY DEF Init, Closed, PNow, First
  <1> QED BY <1>1 DEF Begun, BegunAt

LEMMA BegunStays == TypeInv /\ Untouched /\ Begun /\ [Next]_vars => Begun'
  <1> SUFFICES ASSUME TypeInv, Untouched, Begun, [Next]_vars PROVE Begun'
    OBVIOUS
  <1>0. ASSUME NEW x \in Attempts, QuietIn(x), ses'[x].running <=> ses[x].running,
               Stopping(x)' => Stopping(x)
        PROVE  BegunAt(x)'
    BY <1>0, BegunStill DEF Begun, Streamed
  <1>1. CASE UNCHANGED vars
    BY <1>0, <1>1, Nobody, StoppingStays DEF Begun, QuietIn, SameSender, PNow
  <1>2. ASSUME NEW g \in Gens, UpdateChecks(g) \/ UpdateSends(g)
        PROVE  Begun'
    <2>1. NobodyCalls /\ \A x \in Attempts : PNow(x)' = PNow(x) /\ \A f \in Fields \ {"conf"} : ses'[x][f] = ses[x][f]
      BY <1>2, UpdateKeepsPlace
    <2>2. \A x \in Attempts : QuietIn(x) /\ (ses'[x].running <=> ses[x].running)
      BY <2>1 DEF Fields, QuietIn, SameSender
    <2> QED BY <1>0, <2>1, <2>2, StoppingStays DEF Begun
  <1>3. CASE Ignites \/ LosesWifi \/ SessionEnds \/ OrchestratorStep
    <2>1. ses' = ses /\ \A x \in Attempts : Stopping(x)' => Stopping(x)
      BY <1>3, OrchestratorGives, StoppingTurns, StoppingStays
    <2> QED BY <1>0, <2>1 DEF Begun, QuietIn, SameSender, PNow
  <1> QED BY <1>1, <1>2, <1>3, CallerBegun, PeerBegun DEF Next

LEMMA BegunAlways == Spec => []Begun
  BY BegunBegins, BegunStays, Typed, UntouchedAlways, PTL DEF Spec

-----------------------------------------------------------------------------
(* Waiting for pc_send                                                     *)

\* Whoever has found the stream of the session s running and is at the step now, clears
\* a flag that is set, and then waits for pc_send to leave, which is at work or about to
\* be created, or finds that it has left.
Ending(now, s) ==
  /\ now = "off" => ses[s].sending
  /\ now = "waitSend" => ~ses[s].sending /\ (ses[s].sender \/ ses[s].quitBit \/ PNow(s) = "spawn")

\* Unless two threads have both found it running, or pc_send could not be created
\* after one has, one thread ends a stream.
WaitsAt(s) ==
  /\ Ending(PNow(s), s)
  /\ \A t \in Callers : call[t].ses = s =>
       /\ Ending(Now(t), s)
       /\ Now(t) \in {"off", "waitSend"} => PNow(s) \notin {"off", "waitSend"}
Unharmed == mishaps \cap {"race", "stillborn"} = {}
Waiting == Unharmed => \A s \in Attempts : WaitsAt(s)

LEMMA WaitsTurn ==
  ASSUME NEW x \in Attempts, WaitsAt(x), QuietIn(x), NEW t \in Callers, OnlyTurns(t),
         call'[t].ses = x => Now(t)' \notin {"off", "waitSend"}
  PROVE  WaitsAt(x)'
  <1>1. Ending(PNow(x), x)'
    BY DEF QuietIn, SameSender, WaitsAt, Ending
  <1>2. ASSUME NEW u \in Callers, u # t, call'[u].ses = x
        PROVE  Ending(Now(u), x)' /\ (Now(u)' \in {"off", "waitSend"} => PNow(x)' \notin {"off", "waitSend"})
    <2>1. call[u].ses = x /\ Now(u)' = Now(u)
      BY <1>2 DEF OnlyTurns
    <2> QED BY <2>1 DEF QuietIn, SameSender, WaitsAt, Ending
  <1>3. call'[t].ses = x => Ending(Now(t), x)'
    BY DEF Ending
  <1> QED BY <1>1, <1>2, <1>3 DEF WaitsAt

LEMMA WaitsStill ==
  ASSUME NEW x \in Attempts, WaitsAt(x), QuietIn(x), NobodyCalls
  PROVE  WaitsAt(x)'
  <1>1. \A u \in Callers : call'[u].ses = call[u].ses /\ Now(u)' = Now(u)
    BY DEF NobodyCalls, StopStays, OrchStays, Callers
  <1> QED BY <1>1 DEF QuietIn, SameSender, WaitsAt, Ending

LEMMA CallerWaits ==
  ASSUME TypeInv, UseInv, Untouched, Begun, Waiting, NEW t \in Callers, CallStep(t)
  PROVE  Waiting'
  <1> SUFFICES ASSUME Unharmed', NEW x \in Attempts PROVE WaitsAt(x)'
    BY DEF Waiting
  <1>0. WaitsAt(x) /\ OnlyTurns(t) /\ "race" \notin mishaps'
    BY CallerStreams DEF Waiting, Unharmed
  <1>1. CASE CallerIdles(t) \/ CallerStarts(t)
    BY <1>0, <1>1, WaitsTurn DEF CallerIdles, CallerStarts, Quiet
  <1>c. {"streams", "off", "waitSend", "free"} \subseteq CloseHeads
    BY DEF CloseHeads
  <1>2. ASSUME NEW s \in Attempts, s = call[t].ses, Now(t) \in {"streams", "off", "waitSend", "free"},
               NEW u \in Callers, u # t, call[u].ses = s
        PROVE  Now(u) \notin {"off", "waitSend"}
    <2> SUFFICES ASSUME Now(u) \in {"off", "waitSend"} PROVE FALSE
      OBVIOUS
    <2>1. Closing(t) /\ Closing(u)
      BY <1>2, <1>c DEF Closing
    <2> QED BY <1>2, <2>1, Apart
  \* Another session than the one the caller works at.
  <1>3. ASSUME NEW s \in Attempts, call'[t].ses = s, x # s, QuietIn(x) PROVE WaitsAt(x)'
    BY <1>0, <1>3, WaitsTurn
  \* The session itself, of which nobody else is at the stream.
  <1>4. ASSUME NEW s \in Attempts, s = call[t].ses, call'[t].ses = s, x = s,
               Now(t) \in {"streams", "off", "waitSend", "free"}, Ending(PNow(x), x)',
               Ending(Now(t), x)', Now(t)' \in {"off", "waitSend"} => PNow(x)' \notin {"off", "waitSend"}
        PROVE  WaitsAt(x)'
    <2>1. \A u \in Callers : u # t /\ call'[u].ses = x => Now(u)' \notin {"off", "waitSend"}
      BY <1>0, <1>2, <1>4 DEF OnlyTurns
    <2> QED BY <1>4, <2>1 DEF WaitsAt, Ending
  <1>5. ASSUME NEW s \in Attempts, s = call[t].ses, call'[t].ses = s, CallerFinds(t, s)
        PROVE  WaitsAt(x)'
    <2>1. CASE x # s
      BY <1>3, <1>5, <2>1 DEF CallerFinds, Quiet
    <2>2. CASE x = s
      <3>1. ses[x].sending /\ PNow(x) \notin {"off", "waitSend"}
        BY <1>0, <1>5, <2>2 DEF CallerFinds, WaitsAt, Ending
      <3>2. ses'[x].sending /\ PNow(x)' \notin {"off", "waitSend"}
        BY <1>5, <3>1 DEF CallerFinds, Quiet, QuietIn, SameSender
      <3> QED BY <1>4, <1>5, <2>2, <3>2 DEF CallerFinds, Ending
    <2> QED BY <2>1, <2>2
  <1>6. ASSUME NEW s \in Attempts, s = call[t].ses, call'[t].ses = s, CallerStops(t, s)
        PROVE  WaitsAt(x)'
    <2>1. CASE x # s
      BY <1>3, <1>6, <2>1 DEF CallerStops
    <2>2. CASE x = s
      <3>1. (ses[x].sender \/ PNow(x) = "spawn") /\ PNow(x) \notin {"off", "waitSend"}
        BY <1>0, <1>6, <2>2 DEF CallerStops, WaitsAt, Ending, Begun, BegunAt
      <3>2. /\ ~ses'[x].sending /\ (ses'[x].sender \/ PNow(x)' = "spawn")
            /\ PNow(x)' \notin {"off", "waitSend"}
        BY <1>6, <2>2, <3>1 DEF CallerStops
      <3> QED BY <1>4, <1>6, <2>2, <3>2 DEF CallerStops, Ending
    <2> QED BY <2>1, <2>2
  <1>7. ASSUME NEW s \in Attempts, s = call[t].ses, call'[t].ses = s, CallerJoins(t, s)
        PROVE  WaitsAt(x)'
    <2>1. CASE x # s
      BY <1>3, <1>7, <2>1 DEF CallerJoins
    <2>2. CASE x = s
      <3>1. PNow(x) \notin {"off", "waitSend"}
        BY <1>0, <1>7, <2>2 DEF CallerJoins, WaitsAt
      <3>2. PNow(x)' \notin {"off", "waitSend"}
        BY <1>7, <2>2, <3>1 DEF CallerJoins
      <3> QED BY <1>4, <1>7, <2>2, <3>2 DEF CallerJoins, Ending
    <2> QED BY <2>1, <2>2
  <1>8. ASSUME NEW s \in Attempts, s = call[t].ses, call'[t].ses = s, CallerFrees(t, s)
        PROVE  WaitsAt(x)'
    <2>1. CASE x # s
      BY <1>3, <1>8, <2>1 DEF CallerFrees
    <2>2. CASE x = s
      BY <1>4, <1>8, <2>2 DEF CallerFrees, Ending
    <2> QED BY <2>1, <2>2
  <1> QED BY <1>1, <1>5, <1>6, <1>7, <1>8, CallerStreams

LEMMA PeerWaits ==
  ASSUME TypeInv, Begun, Waiting, NEW s \in Attempts, PeerReports(s) \/ PeerStep(s) \/ SenderExits(s)
  PROVE  Waiting'
  <1> SUFFICES ASSUME Unharmed', NEW x \in Attempts PROVE WaitsAt(x)'
    BY DEF Waiting
  <1>0. /\ WaitsAt(x) /\ NobodyCalls /\ BegunAt(x)
        /\ "race" \notin mishaps' /\ "stillborn" \notin mishaps'
    BY PeerKeepsPlace DEF Waiting, Begun, Unharmed
  <1>u. \A u \in Callers : call'[u].ses = call[u].ses /\ Now(u)' = Now(u)
    BY <1>0 DEF NobodyCalls, StopStays, OrchStays, Callers
  <1>1. CASE x # s
    <2>1. ses'[x] = ses[x]
      BY <1>1, PeerStreams
    <2> QED BY <1>0, <2>1, WaitsStill DEF QuietIn, SameSender, PNow
  <1>2. CASE x = s
    <2>0. ASSUME ~Stopping(x), Ending(PNow(x), x)' PROVE WaitsAt(x)'
      BY <1>u, <2>0 DEF Stopping, WaitsAt, Ending
    <2>1. CASE DoesNothing(s)
      BY <1>0, <1>u, <1>2, <2>1 DEF DoesNothing, SameSender, WaitsAt, Ending
    <2>2. CASE SendsNext(s)
      BY <1>0, <1>u, <1>2, <2>2 DEF SendsNext, SameSender, WaitsAt, Ending
    <2>3. CASE Sends(s)
      <3>1. ~Stopping(x)
        BY <1>0, <1>2, <2>3 DEF Sends, BegunAt, Streamed
      <3> QED BY <1>2, <2>0, <2>3, <3>1 DEF Sends, Ending
    <2>8. CASE Spawns(s)
      <3>1. CASE ses'[s].sender /\ (ses'[s].sending <=> ses[s].sending)
        BY <1>0, <1>u, <1>2, <2>8, <3>1 DEF Spawns, WaitsAt, Ending
      <3>2. CASE ~Stopping(x)
        BY <1>2, <2>0, <2>8, <3>2 DEF Spawns, Ending
      <3> QED BY <1>0, <1>2, <2>8, <3>1, <3>2 DEF Spawns
    <2>4. CASE StopsNext(s)
      <3>1. ~Stopping(x)
        BY <1>0, <1>2, <2>4 DEF StopsNext, Stopping, WaitsAt, Ending
      <3> QED BY <1>2, <2>0, <2>4, <3>1 DEF StopsNext, SameSender, Ending
    <2>5. CASE Stops(s)
      <3>1. ~Stopping(x) /\ ses[x].sender
        BY <1>0, <1>2, <2>5 DEF Stops, Stopping, WaitsAt, Ending, BegunAt
      <3> QED BY <1>2, <2>0, <2>5, <3>1 DEF Stops, Ending
    <2>6. CASE ComesBack(s)
      <3>1. ~Stopping(x)
        BY <1>0, <1>2, <2>6 DEF ComesBack, Stopping, WaitsAt
      <3> QED BY <1>2, <2>0, <2>6, <3>1 DEF ComesBack, Ending
    <2>7. CASE Leaves(s)
      BY <1>0, <1>u, <1>2, <2>7 DEF Leaves, WaitsAt, Ending
    <2> QED BY <2>1, <2>2, <2>3, <2>4, <2>5, <2>6, <2>7, <2>8, PeerStreams
  <1> QED BY <1>1, <1>2

LEMMA WaitingBegins == Init => Waiting
  <1> SUFFICES ASSUME Init PROVE Waiting
    OBVIOUS
  <1>1. \A s \in Attempts : PNow(s) = "none"
    BY DEF Init, Closed, PNow, First
  <1>2. \A t \in Callers : Now(t) = "none"
    BY NewLists DEF Init, Now
  <1> QED BY <1>1, <1>2 DEF Waiting, WaitsAt, Ending

LEMMA WaitingStays == TypeInv /\ UseInv /\ Untouched /\ Begun /\ Waiting /\ [Next]_vars => Waiting'
  <1> SUFFICES ASSUME TypeInv, UseInv, Untouched, Begun, Waiting, [Next]_vars PROVE Waiting'
    OBVIOUS
  <1>0. ASSUME Quiet, NobodyCalls, mishaps \subseteq mishaps' PROVE Waiting'
    BY <1>0, WaitsStill DEF Waiting, Quiet, Unharmed
  <1>1. CASE UNCHANGED vars
    BY <1>0, <1>1, Nobody DEF Quiet, QuietIn, SameSender, PNow
  <1>2. ASSUME NEW g \in Gens, UpdateChecks(g) \/ UpdateSends(g)
        PROVE  Waiting'
    <2>1. /\ NobodyCalls /\ mishaps' = mishaps
          /\ \A x \in Attempts : PNow(x)' = PNow(x) /\ \A f \in Fields \ {"conf"} : ses'[x][f] = ses[x][f]
      BY <1>2, UpdateKeepsPlace
    <2>2. Quiet
      BY <2>1 DEF Fields, Quiet, QuietIn, SameSender
    <2> QED BY <1>0, <2>1, <2>2
  <1>3. CASE Ignites \/ LosesWifi \/ SessionEnds \/ OrchestratorStep
    <2>1. Quiet /\ mishaps \subseteq mishaps'
      BY <1>3, OrchestratorGives DEF Quiet, QuietIn, SameSender, PNow
    <2>2. CASE NobodyCalls
      BY <1>0, <2>1, <2>2
    <2>3. ASSUME NEW t \in Callers, OnlyTurns(t), Now(t)' \in {"begin", "take"} PROVE Waiting'
      BY <2>1, <2>3, WaitsTurn DEF Waiting, Quiet, Unharmed
    <2> QED BY <1>3, <2>2, <2>3, OrchestratorGives
  <1> QED BY <1>1, <1>2, <1>3, CallerWaits, PeerWaits DEF Next

LEMMA WaitingAlways == Spec => []Waiting
  BY WaitingBegins, WaitingStays, Typed, InUseAlways, UntouchedAlways, BegunAlways, PTL DEF Spec

\* Whoever waits in stop_stream or pc_close finds the thread it waits for at work, about
\* to be created, or its exit reported (esp_webrtc.c:140-190, 617-640), so that closing a
\* session comes to an end; except after the named failures: two threads stop the stream
\* at once, pc_send cannot be created when its start has been seen already, pc_task was
\* never created.
THEOREM WaitsAnswered == Spec => []WaitsAreAnswered
  <1>1. TypeInv /\ Joined /\ Waiting => WaitsAreAnswered
    <2> SUFFICES ASSUME TypeInv, Joined, Waiting, Unharmed PROVE WaitsAreAnswered
      BY DEF WaitsAreAnswered, Unharmed
    <2>1. ASSUME NEW s \in Attempts, PeerAt(s, "waitSend") PROVE ses[s].sender \/ ses[s].quitBit
      <3>1. PNow(s) = "waitSend"
        BY <2>1 DEF PeerAt, PNow, First
      <3> QED BY <3>1 DEF Waiting, WaitsAt, Ending
    <2>2. ASSUME NEW t \in Callers, NEW x, At(t, x) PROVE Now(t) = x
      BY <2>2 DEF At, Now, First
    <2>3. ASSUME NEW t \in Callers, At(t, "waitSend")
          PROVE  LET s == call[t].ses IN ses[s].sender \/ ses[s].quitBit \/ PeerAt(s, "spawn")
      <3>1. Now(t) = "waitSend" /\ call[t].ses \in Attempts
        BY <2>2, <2>3, Anchors, InRange, BoundsAssumption DEF TypeInv, Closing, CloseHeads
      <3>2. PNow(call[t].ses) = "spawn" => PeerAt(call[t].ses, "spawn")
        BY DEF PNow, First, PeerAt
      <3> QED BY <3>1, <3>2 DEF Waiting, WaitsAt, Ending
    <2>4. ASSUME NEW t \in Callers, At(t, "waitPeer")
          PROVE  ses[call[t].ses].peer \in {"loop", "none"} \/ ses[call[t].ses].exitBit
      BY <2>2, <2>4 DEF Joined, Answered
    <2> QED BY <2>1, <2>3, <2>4 DEF WaitsAreAnswered
  <1> QED BY <1>1, Typed, JoinedAlways, WaitingAlways, PTL

-----------------------------------------------------------------------------
(* What is left of a session that is freed                                 *)

\* The caller t has told the session it closes so.
Told(t) == Closing(t) /\ Now(t) # "mark"

\* The caller t has found the stream stopped.
Halted(t) ==
  \/ Now(t) \in {"waitSend", "peer", "waitPeer", "free"}
  \/ Now(t) \in {"streams", "off"} /\ Way(t) = "free"

\* Unless WiFi was lost while the stop task was at work, somebody waits for a pc_send
\* that has been told to leave, be it before its creation, and a session that is being closed knows it; so none
\* is started in it, except too late, and none is left when the session is freed.
Watched(s) ==
  (ses[s].sender \/ PNow(s) = "spawn") /\ ~ses[s].sending =>
    PNow(s) = "waitSend" \/ \E t \in Callers : Now(t) = "waitSend" /\ call[t].ses = s
Attended ==
  NoOverlap =>
    /\ \A s \in Attempts : Watched(s)
    /\ \A t \in Callers : Told(t) => ses[call[t].ses].closing
    /\ "late" \notin mishaps =>
         /\ \A t \in Callers : Halted(t) => ~ses[call[t].ses].sending
         /\ \A s \in Attempts : ses[s].life = "freed" => ses[s].peer # "loop" /\ ~ses[s].sender

\* A caller says so before it closes, and finds the stream stopped before it goes on.
LEMMA ClosingGoesOn ==
  ASSUME TypeInv, NEW t \in Callers, CallStep(t)
  PROVE  /\ Told(t)' => call'[t].ses = call[t].ses /\ (Told(t) \/ CloseMarks(t))
         /\ Halted(t)' => /\ call'[t].ses = call[t].ses
                          /\ Halted(t) \/ ~ses'[call[t].ses].sending
  <1>h. /\ CloseHeads \cap {"none", "begin", "open", "start", "fail", "take", "teardown", "post", "exit"} = {}
        /\ {"streams", "off", "waitSend", "peer", "waitPeer", "free"} \subseteq CloseHeads
    BY DEF CloseHeads
  <1>1. CASE StopTakes(t)
    BY <1>h, <1>1, TakesTurn DEF Told, Halted, Closing
  <1>2. CASE CloseMarks(t)
    BY <1>2, MarksTurn DEF Told, Halted
  <1>3. CASE CloseTestsStream(t)
    <2>1. Told(t)
      BY <1>h, <1>3, TestsTurn DEF Told, Closing
    <2>2. UNCHANGED ses
      BY <1>3 DEF CloseTestsStream
    <2> QED BY <1>3, <2>1, <2>2, TestsTurn DEF Halted
  <1>4. CASE CloseStopsStream(t)
    BY <1>h, <1>4, StopsTurn, CloseStopsStreamOnly DEF Told, Halted, Closing
  <1>5. CASE CloseJoinsSender(t)
    BY <1>h, <1>5, JoinsSenderTurn DEF Told, Halted, Closing
  <1>6. CASE ClosePeer(t)
    BY <1>h, <1>6, ClosePeerTurn DEF Told, Halted, Closing
  <1>7. CASE CloseJoinsPeer(t)
    BY <1>h, <1>7, JoinsPeerTurn DEF Told, Halted, Closing
  <1>8. CASE CloseFrees(t)
    BY <1>h, <1>8, FreesTurn DEF Told, Halted, Closing
  <1>9. CASE TearsDownMedia(t)
    BY <1>h, <1>9, TeardownTurn DEF Told, Halted, Closing
  <1>10. CASE \/ t = "orch" /\ (StartTakes \/ StartOpens \/ StartStarts \/ StartFails)
              \/ t = "stop" /\ (StopPosts \/ StopExits)
    BY <1>h, <1>10, OtherTurns DEF Told, Halted, Closing
  <1> QED BY <1>1, <1>2, <1>3, <1>4, <1>5, <1>6, <1>7, <1>8, <1>9, <1>10 DEF CallStep

\* What the steps of a caller do to a session: it is marked, started, or freed.
LEMMA SessionsGoOn ==
  ASSUME TypeInv, NEW t \in Callers, CallStep(t), NEW x \in Attempts
  PROVE  /\ ses'[x].sending => ses[x].sending
         /\ ses'[x].sender <=> ses[x].sender
         /\ ses[x].closing => \/ ses'[x].closing
                              \/ t = "orch" /\ StartStarts /\ x = att
                              \/ CloseFrees(t) /\ x = call[t].ses
         /\ CloseMarks(t) /\ x = call[t].ses => ses'[x].closing
         /\ ses'[x].life = "freed" => ses[x].life = "freed" \/ (CloseFrees(t) /\ x = call[t].ses)
         /\ ses'[x].peer = "loop" => ses[x].peer = "loop" \/ (t = "orch" /\ StartStarts /\ x = att)
  <1> DEFINE Same(F) == \A f \in F : ses'[x][f] = ses[x][f]
  <1>2. ASSUME NEW s, NEW F, Only(s, F) PROVE IF x = s THEN Same(Fields \ F) ELSE Same(Fields)
    BY <1>2 DEF Only
  <1>5. CASE StopTakes(t) \/ TearsDownMedia(t) \/ (t = "orch" /\ StartFails) \/ (t = "stop" /\ (StopPosts \/ StopExits)) \/ CloseTestsStream(t)
    <2>1. ses' = ses
      BY <1>5 DEF StopTakes, TearsDownMedia, StartFails, StopPosts, StopExits, CloseTestsStream
    <2>2. ~CloseMarks(t)
      <3>1. CloseMarks(t) => Now(t) = "mark"
        BY MarksTurn
      <3>2. Now(t) # "mark"
        BY <1>5, TakesTurn, TeardownTurn, OtherTurns, TestsTurn
      <3> QED BY <3>1, <3>2
    <2> QED BY <2>1, <2>2
  <1>6. CASE CloseMarks(t)
    <2>1. PICK s \in Attempts : s = call[t].ses
      BY <1>6, CloseMarksOnly
    <2>2. Only(s, {"closing"}) /\ ses'[s].closing = TRUE
      BY <1>6, <2>1, CloseMarksOnly
    <2>3. \A f \in {"sending", "sender", "life", "peer"} : ses'[s][f] = ses[s][f]
      BY <2>2 DEF Only, Fields
    <2>4. x # s => ses'[x] = ses[x]
      BY <2>2 DEF Only
    <2> QED BY <1>6, <2>1, <2>2, <2>3, <2>4
  <1>m. ~CloseMarks(t) \/ Now(t) = "mark"
    BY MarksTurn
  <1>7. CASE CloseStopsStream(t)
    <2>1. PICK s \in Attempts : s = call[t].ses
      BY <1>7, CloseStopsStreamOnly
    <2>2. Only(s, {"sending"}) /\ ses'[s].sending = FALSE
      BY <1>7, <2>1, CloseStopsStreamOnly
    <2>3. \A f \in {"sender", "closing", "life", "peer"} : ses'[s][f] = ses[s][f]
      BY <2>2 DEF Only, Fields
    <2>4. x # s => ses'[x] = ses[x]
      BY <2>2 DEF Only
    <2>5. ~CloseMarks(t)
      BY <1>m, <1>7, StopsTurn
    <2> QED BY <1>7, <2>1, <2>2, <2>3, <2>4, <2>5
  <1>8. CASE CloseJoinsSender(t)
    <2>1. PICK s \in Attempts : s = call[t].ses
      BY <1>8, CloseJoinsSenderOnly
    <2>2. Only(s, {"quitBit"}) /\ ses'[s].quitBit = FALSE
      BY <1>8, <2>1, CloseJoinsSenderOnly
    <2>3. \A f \in {"sending", "sender", "closing", "life", "peer"} : ses'[s][f] = ses[s][f]
      BY <2>2 DEF Only, Fields
    <2>4. x # s => ses'[x] = ses[x]
      BY <2>2 DEF Only
    <2>5. ~CloseMarks(t)
      BY <1>m, <1>8, JoinsSenderTurn
    <2> QED BY <1>8, <2>1, <2>2, <2>3, <2>4, <2>5
  <1>9. CASE ClosePeer(t)
    <2>1. PICK s \in Attempts : s = call[t].ses
      BY <1>9, ClosePeerOnly
    <2>2. Only(s, {"running"}) /\ ses'[s].running = FALSE
      BY <1>9, <2>1, ClosePeerOnly
    <2>3. \A f \in {"sending", "sender", "closing", "life", "peer"} : ses'[s][f] = ses[s][f]
      BY <2>2 DEF Only, Fields
    <2>4. x # s => ses'[x] = ses[x]
      BY <2>2 DEF Only
    <2>5. ~CloseMarks(t)
      BY <1>m, <1>9, ClosePeerTurn
    <2> QED BY <1>9, <2>1, <2>2, <2>3, <2>4, <2>5
  <1>10. CASE CloseJoinsPeer(t)
    <2>1. PICK s \in Attempts : s = call[t].ses
      BY <1>10, CloseJoinsPeerOnly
    <2>2. Only(s, {"exitBit", "chan"}) /\ ses'[s].exitBit = FALSE
      BY <1>10, <2>1, CloseJoinsPeerOnly
    <2>3. \A f \in {"sending", "sender", "closing", "life", "peer"} : ses'[s][f] = ses[s][f]
      BY <2>2 DEF Only, Fields
    <2>4. x # s => ses'[x] = ses[x]
      BY <2>2 DEF Only
    <2>5. ~CloseMarks(t)
      BY <1>m, <1>10, JoinsPeerTurn
    <2> QED BY <1>10, <2>1, <2>2, <2>3, <2>4, <2>5
  <1>11. CASE CloseFrees(t)
    <2>1. PICK s \in Attempts : s = call[t].ses
      BY <1>11, CloseFreesOnly
    <2>2. /\ Only(s, Fields \ {"peer", "sender"}) /\ ses'[s].life = "freed"
          /\ ses'[s].sending = (ses[s].sender /\ ses[s].sending)
      BY <1>11, <2>1, CloseFreesOnly
    <2>3. ses'[s].sender = ses[s].sender /\ ses'[s].peer = ses[s].peer
      BY <2>2 DEF Only, Fields
    <2>4. x # s => ses'[x] = ses[x]
      BY <2>2 DEF Only
    <2>5. ~CloseMarks(t)
      BY <1>m, <1>11, FreesTurn
    <2> QED BY <1>11, <2>1, <2>2, <2>3, <2>4, <2>5
  <1>12. CASE t = "orch" /\ StartTakes
    <2>1. CASE gen' # gen
      BY <1>m, <1>2, <1>12, <2>1, StartTakesOnly, OtherTurns DEF Fields
    <2>2. CASE gen' = gen
      <3>0. gen \in Nat
        BY DEF TypeInv, PlainOK
      <3>1. UNCHANGED ses
        BY <1>12, <2>2, <3>0 DEF StartTakes, TakeSession
      <3> QED BY <1>m, <1>12, <3>1, OtherTurns
    <2> QED BY <2>1, <2>2
  <1>13. CASE t = "orch" /\ StartOpens
    BY <1>m, <1>2, <1>13, StartOpensOnly, OtherTurns DEF Fields
  <1>14. CASE t = "orch" /\ StartStarts
    BY <1>m, <1>2, <1>14, StartStartsOnly, OtherTurns DEF Fields
  <1> QED BY <1>5, <1>6, <1>7, <1>8, <1>9, <1>10, <1>11, <1>12, <1>13, <1>14 DEF CallStep

LEMMA AttendedStill ==
  ASSUME TypeInv, Attended, mishaps \subseteq mishaps',
         NobodyCalls \/ \E t \in Callers : OnlyTurns(t) /\ Now(t) = "none" /\ Now(t)' \in {"begin", "take"},
         \A x \in Attempts : /\ QuietIn(x) /\ ses'[x].closing = ses[x].closing
                             /\ ses'[x].life = ses[x].life /\ ses'[x].peer = ses[x].peer
  PROVE  Attended'
  <1>h. CloseHeads \cap {"none", "begin", "take"} = {}
    BY DEF CloseHeads
  <1>1. ASSUME NEW u \in Callers, Told(u)' \/ Halted(u)'
        PROVE  Now(u)' = Now(u) /\ Way(u)' = Way(u) /\ call'[u].ses = call[u].ses
    BY <1>1, <1>h DEF NobodyCalls, StopStays, OrchStays, OnlyTurns, Callers, Told, Halted, Closing
  <1>2. \A u \in Callers : Now(u) = "waitSend" => Now(u)' = "waitSend" /\ call'[u].ses = call[u].ses
    BY DEF NobodyCalls, StopStays, OrchStays, OnlyTurns, Callers
  <1>3. ASSUME NEW x \in Attempts, Watched(x) PROVE Watched(x)'
    BY <1>2, <1>3 DEF Watched, QuietIn, SameSender
  <1>c. \A u \in Callers : Told(u) \/ Halted(u) => call[u].ses \in Attempts
    BY Anchors, InRange, BoundsAssumption DEF TypeInv, Told, Halted, Closing, CloseHeads
  <1>4. ASSUME NoOverlap, NEW u \in Callers, Told(u)' PROVE ses'[call'[u].ses].closing
    <2>1. Told(u)
      BY <1>1, <1>4 DEF Told, Closing
    <2> QED BY <1>1, <1>4, <1>c, <2>1 DEF Attended
  <1>5. ASSUME NoOverlap, "late" \notin mishaps, NEW u \in Callers, Halted(u)'
        PROVE  ~ses'[call'[u].ses].sending
    <2>1. Halted(u)
      BY <1>1, <1>5 DEF Halted
    <2> QED BY <1>1, <1>5, <1>c, <2>1 DEF Attended, QuietIn, SameSender
  <1>6. ASSUME NoOverlap, "late" \notin mishaps, NEW x \in Attempts, ses'[x].life = "freed"
        PROVE  ses'[x].peer # "loop" /\ ~ses'[x].sender
    BY <1>6 DEF Attended, QuietIn, SameSender
  <1>7. NoOverlap' => NoOverlap
    BY DEF NoOverlap
  <1> QED BY <1>3, <1>4, <1>5, <1>6, <1>7 DEF Attended

LEMMA CallerAttended ==
  ASSUME TypeInv, UseInv, Joined, Begun, Attended, NEW t \in Callers, CallStep(t)
  PROVE  Attended'
  <1> SUFFICES ASSUME NoOverlap' PROVE Attended'
    BY DEF Attended
  <1>0. OnlyTurns(t) /\ mishaps \subseteq mishaps' /\ UNCHANGED att /\ NoOverlap
    BY CallerStreams DEF NoOverlap
  <1>h. /\ CloseHeads \cap {"none", "begin", "open", "start", "fail", "take", "teardown", "post", "exit"} = {}
        /\ {"streams", "off", "waitSend", "peer", "waitPeer", "free"} \subseteq CloseHeads
    BY DEF CloseHeads
  <1>r. /\ \A u \in Callers : Closing(u) => call[u].ses \in Attempts
        /\ \A u \in Callers : Told(u) \/ Halted(u) => Closing(u)
        /\ att \in 0 .. MaxAttempts /\ MaxAttempts \in Nat
    BY <1>h, Anchors, InRange, BoundsAssumption DEF TypeInv, Told, Halted, Closing
  <1>1. ASSUME NEW u \in Callers, NEW v \in Callers, Closing(u), Closing(v) PROVE u = v
    <2> SUFFICES ASSUME u # v PROVE FALSE
      OBVIOUS
    <2>1. Closing("orch") /\ Works
      BY <1>1 DEF Callers, Works, Closing
    <2> QED BY <1>0, <1>h, <2>1, OneAtWork DEF Closing
  \* A caller that frees a session has joined its pc_task and its pc_send.
  <1>2. ASSUME CloseFrees(t), NEW s, s = call[t].ses
        PROVE  /\ s \in Attempts /\ ses[s].peer # "loop" /\ PNow(s) # "waitSend"
               /\ ses[s].sender => ses[s].sending
    <2>1. Now(t) = "free" /\ Way(t) = "free" /\ Closing(t) /\ s \in Attempts
      BY <1>2, <1>h, <1>r, FreesTurn DEF Closing
    <2>2. s # handle
      <3>1. handle # 0 => call[t].ses # handle
        BY <2>1 DEF UseInv, InUse
      <3> QED BY <1>2, <2>1, <3>1 DEF Attempts
    <2>3. \A u \in Callers : Way(u) = "peer" => Closing(u)
      BY CallersAt DEF Closing
    <2>4. \A u \in Callers : Closing(u) => u = t
      BY <1>1, <2>1
    <2>5. ses[s].peer # "loop"
      BY <1>0, <2>1, <2>2, <2>3, <2>4 DEF Joined
    <2>6. PNow(s) # "waitSend"
      BY <2>1, <2>5 DEF TypeInv, PeersOK, PNow, First
    <2>7. \A u \in Callers : Now(u) # "waitSend"
      BY <1>h, <2>1, <2>4 DEF Closing
    <2> QED BY <1>0, <2>1, <2>5, <2>6, <2>7 DEF Attended, Watched
  \* Nobody closes the session that is being started, and it has not been freed.
  <1>3. ASSUME t = "orch", StartStarts
        PROVE  /\ ses[att].life # "freed"
               /\ \A u \in Callers : ~Closing(u)
    <2>1. Now("orch") = "start" /\ ~Closing("orch")
      BY <1>3, <1>h, OrchStartStarts DEF Closing
    <2>2. handle = att /\ att # 0
      BY <1>0, <1>3, <2>1, StartStartsOnly DEF UseInv, Order, Attempts
    <2>3. ses[att].life = "open"
      BY <2>2 DEF UseInv, InUse
    <2>4. ~Works
      BY <1>0, <2>1, OneAtWork
    <2> QED BY <2>1, <2>3, <2>4 DEF Callers, Closing, Works
  <1>4. ASSUME NEW x \in Attempts PROVE Watched(x)'
    <2>0. Watched(x)
      BY <1>0 DEF Attended
    <2>1. ASSUME NEW u \in Callers, u # t, Now(u) = "waitSend", call[u].ses = x
          PROVE  Now(u)' = "waitSend" /\ call'[u].ses = x
      BY <1>0, <2>1 DEF OnlyTurns
    <2>2. ASSUME QuietIn(x), Now(t) # "waitSend" \/ call[t].ses # x PROVE Watched(x)'
      BY <2>0, <2>1, <2>2 DEF Watched, QuietIn, SameSender
    <2>3. CASE CallerIdles(t) \/ CallerStarts(t)
      BY <2>2, <2>3 DEF CallerIdles, CallerStarts, Quiet
    <2>4. ASSUME NEW s \in Attempts, s = call[t].ses, call'[t].ses = s, CallerFinds(t, s)
          PROVE  Watched(x)'
      BY <2>2, <2>4 DEF CallerFinds, Quiet
    <2>5. ASSUME NEW s \in Attempts, s = call[t].ses, call'[t].ses = s, CallerStops(t, s)
          PROVE  Watched(x)'
      BY <2>2, <2>5 DEF CallerStops, Watched
    <2>6. ASSUME NEW s \in Attempts, s = call[t].ses, call'[t].ses = s, CallerJoins(t, s)
          PROVE  Watched(x)'
      <3>1. CASE x = s
        BY <2>6, <3>1 DEF CallerJoins, Watched, Begun, BegunAt
      <3>2. CASE x # s
        BY <2>2, <2>6, <3>2 DEF CallerJoins
      <3> QED BY <3>1, <3>2
    <2>7. ASSUME NEW s \in Attempts, s = call[t].ses, call'[t].ses = s, CallerFrees(t, s)
          PROVE  Watched(x)'
      <3>1. CASE x = s
        <4>1. CloseFrees(t)
          BY <2>7, TakesTurn, MarksTurn, TestsTurn, StopsTurn, JoinsSenderTurn, ClosePeerTurn,
             JoinsPeerTurn, TeardownTurn, OtherTurns DEF CallerFrees, CallStep
        <4> QED BY <1>2, <2>7, <3>1, <4>1 DEF CallerFrees, Watched
      <3>2. CASE x # s
        BY <2>2, <2>7, <3>2 DEF CallerFrees
      <3> QED BY <3>1, <3>2
    <2> QED BY <2>3, <2>4, <2>5, <2>6, <2>7, CallerStreams
  <1>5. ASSUME NEW u \in Callers, Told(u)' PROVE ses'[call'[u].ses].closing
    <2>1. call'[u].ses = call[u].ses /\ (Told(u) \/ (u = t /\ CloseMarks(t)))
      <3>1. CASE u = t
        BY <1>5, <3>1, ClosingGoesOn
      <3>2. CASE u # t
        BY <1>0, <1>5, <3>2 DEF OnlyTurns, Told, Closing
      <3> QED BY <3>1, <3>2
    <2>2. CASE u = t /\ CloseMarks(t)
      <3>1. call[t].ses \in Attempts
        BY <2>2, CloseMarksOnly
      <3> QED BY <2>1, <2>2, <3>1, SessionsGoOn
    <2>3. CASE Told(u)
      <3>1. PICK x \in Attempts : x = call[u].ses
        BY <1>r, <2>3
      <3>2. ses[x].closing
        BY <1>0, <2>3, <3>1 DEF Attended
      <3>3. ~(t = "orch" /\ StartStarts)
        BY <1>3, <1>r, <2>3
      <3>4. ~CloseFrees(t)
        <4> SUFFICES ASSUME CloseFrees(t) PROVE FALSE
          OBVIOUS
        <4>1. Closing(t) /\ Now(t)' \notin CloseHeads
          BY <1>h, FreesTurn DEF Closing
        <4>2. u = t
          BY <1>1, <1>r, <2>3, <4>1
        <4> QED BY <1>5, <4>1, <4>2 DEF Told, Closing
      <3> QED BY <2>1, <3>1, <3>2, <3>3, <3>4, SessionsGoOn
    <2> QED BY <2>1, <2>2, <2>3
  <1>6. ASSUME "late" \notin mishaps, NEW u \in Callers, Halted(u)'
        PROVE  ~ses'[call'[u].ses].sending
    <2>1. call'[u].ses = call[u].ses /\ (Halted(u) \/ ~ses'[call[u].ses].sending)
      <3>1. CASE u = t
        BY <1>6, <3>1, ClosingGoesOn
      <3>2. CASE u # t
        BY <1>0, <1>6, <3>2 DEF OnlyTurns, Halted
      <3> QED BY <3>1, <3>2
    <2>2. CASE Halted(u)
      <3>1. PICK x \in Attempts : x = call[u].ses
        BY <1>r, <2>2
      <3>2. ~ses[x].sending
        BY <1>0, <1>6, <2>2, <3>1 DEF Attended
      <3> QED BY <2>1, <3>1, <3>2, SessionsGoOn
    <2> QED BY <2>1, <2>2
  <1>7. ASSUME "late" \notin mishaps, NEW x \in Attempts, ses'[x].life = "freed"
        PROVE  ses'[x].peer # "loop" /\ ~ses'[x].sender
    <2>1. CASE ses[x].life = "freed"
      <3>1. ses[x].peer # "loop" /\ ~ses[x].sender
        BY <1>0, <1>7, <2>1 DEF Attended
      <3>2. ~(t = "orch" /\ StartStarts /\ x = att)
        BY <1>3, <2>1
      <3> QED BY <3>1, <3>2, SessionsGoOn
    <2>2. CASE CloseFrees(t) /\ x = call[t].ses
      <3>1. Halted(t)
        BY <2>2, FreesTurn DEF Halted
      <3>2. ~ses[x].sending
        BY <1>0, <1>7, <2>2, <3>1 DEF Attended
      <3>3. ses[x].peer # "loop" /\ ~ses[x].sender
        BY <1>2, <2>2, <3>2
      <3>4. ~(t = "orch" /\ StartStarts)
        BY <2>2, FreesTurn, OtherTurns
      <3> QED BY <3>3, <3>4, SessionsGoOn
    <2> QED BY <1>7, <2>1, <2>2, SessionsGoOn
  <1> QED BY <1>0, <1>4, <1>5, <1>6, <1>7 DEF Attended

LEMMA PeerAttended ==
  ASSUME TypeInv, Begun, Attended, NEW s \in Attempts, PeerReports(s) \/ PeerStep(s) \/ SenderExits(s)
  PROVE  Attended'
  <1> SUFFICES ASSUME NoOverlap' PROVE Attended'
    BY DEF Attended
  <1>0. /\ NobodyCalls /\ mishaps \subseteq mishaps' /\ NoOverlap /\ UNCHANGED call
        /\ \A x \in Attempts : ses'[x].closing = ses[x].closing /\ ses'[x].life = ses[x].life
    BY PeerKeepsPlace DEF NoOverlap
  <1>u. \A u \in Callers : /\ Now(u)' = Now(u) /\ Way(u)' = Way(u) /\ call'[u].ses = call[u].ses
                           /\ Told(u)' <=> Told(u)
                           /\ Halted(u)' <=> Halted(u)
    BY <1>0 DEF NobodyCalls, StopStays, OrchStays, Callers, Told, Halted, Closing
  <1>r. \A u \in Callers : /\ Told(u) \/ Halted(u) => call[u].ses \in Attempts
                           /\ Halted(u) => Told(u)
    BY Anchors, InRange, BoundsAssumption DEF TypeInv, Told, Halted, Closing, CloseHeads
  <1>1. ASSUME NEW x \in Attempts PROVE Watched(x)'
    <2>0. Watched(x)
      BY <1>0 DEF Attended
    <2>1. CASE x # s
      <3>1. ses'[x] = ses[x]
        BY <2>1, PeerStreams
      <3> QED BY <1>u, <2>0, <3>1 DEF Watched, PNow
    <2>2. CASE x = s
      <3>1. CASE DoesNothing(s) \/ SendsNext(s) \/ StopsNext(s)
        BY <1>u, <2>0, <2>2, <3>1 DEF DoesNothing, SendsNext, StopsNext, SameSender, Watched
      <3>2. CASE Sends(s) \/ Stops(s) \/ Leaves(s)
        BY <2>2, <3>2 DEF Sends, Stops, Leaves, Watched, Begun, BegunAt
      <3>3. CASE ComesBack(s)
        BY <2>2, <3>3 DEF ComesBack, Watched, Begun, BegunAt
      <3>4. CASE Spawns(s)
        BY <1>u, <2>0, <2>2, <3>4 DEF Spawns, Watched, Begun, BegunAt
      <3> QED BY <3>1, <3>2, <3>3, <3>4, PeerStreams
    <2> QED BY <2>1, <2>2
  <1>2. ASSUME NEW u \in Callers, Told(u)' PROVE ses'[call'[u].ses].closing
    BY <1>0, <1>u, <1>r, <1>2 DEF Attended
  <1>3. ASSUME "late" \notin mishaps', NEW u \in Callers, Halted(u)' PROVE ~ses'[call'[u].ses].sending
    <2>1. PICK x \in Attempts : x = call[u].ses
      BY <1>u, <1>r, <1>3
    <2>2. ~ses[x].sending /\ ses[x].closing
      BY <1>0, <1>u, <1>r, <1>3, <2>1 DEF Attended
    <2>3. ~ses'[x].sending
      <3>1. CASE x # s
        BY <2>2, <3>1, PeerStreams
      <3>2. CASE x = s
        BY <1>3, <2>2, <3>2, PeerStreams
           DEF DoesNothing, SendsNext, Sends, Spawns, StopsNext, Stops, ComesBack, Leaves, SameSender
      <3> QED BY <3>1, <3>2
    <2> QED BY <1>u, <2>1, <2>3
  <1>4. ASSUME "late" \notin mishaps', NEW x \in Attempts, ses'[x].life = "freed"
        PROVE  ses'[x].peer # "loop" /\ ~ses'[x].sender
    <2>1. ses[x].peer # "loop" /\ ~ses[x].sender
      BY <1>0, <1>4 DEF Attended
    <2>2. x # s /\ ses'[x] = ses[x]
      BY <2>1, PeerWorks
    <2> QED BY <2>1, <2>2
  <1> QED BY <1>1, <1>2, <1>3, <1>4 DEF Attended

LEMMA AttendedBegins == Init => Attended
  <1> SUFFICES ASSUME Init PROVE Attended
    OBVIOUS
  <1>1. \A s \in Attempts : ses[s].sender = FALSE /\ ses[s].life = "none" /\ PNow(s) = "none"
    BY DEF Init, Closed, PNow, First
  <1>2. \A t \in Callers : Now(t) = "none"
    BY NewLists DEF Init, Now
  <1> QED BY <1>1, <1>2 DEF Attended, Watched, Told, Halted, Closing, CloseHeads

LEMMA AttendedStays ==
  TypeInv /\ UseInv /\ Joined /\ Begun /\ Attended /\ [Next]_vars => Attended'
  <1> SUFFICES ASSUME TypeInv, UseInv, Joined, Begun, Attended, [Next]_vars PROVE Attended'
    OBVIOUS
  <1>1. CASE UNCHANGED vars
    BY <1>1, Nobody, AttendedStill DEF QuietIn, SameSender, PNow
  <1>2. ASSUME NEW g \in Gens, UpdateChecks(g) \/ UpdateSends(g)
        PROVE  Attended'
    <2>1. /\ NobodyCalls /\ mishaps' = mishaps
          /\ \A x \in Attempts : PNow(x)' = PNow(x) /\ \A f \in Fields \ {"conf"} : ses'[x][f] = ses[x][f]
      BY <1>2, UpdateKeepsPlace
    <2>2. \A x \in Attempts : /\ QuietIn(x) /\ ses'[x].closing = ses[x].closing
                              /\ ses'[x].life = ses[x].life /\ ses'[x].peer = ses[x].peer
      BY <2>1 DEF Fields, QuietIn, SameSender
    <2> QED BY <2>1, <2>2, AttendedStill
  <1>3. CASE Ignites \/ LosesWifi \/ SessionEnds \/ OrchestratorStep
    <2>1. ses' = ses
      BY <1>3, OrchestratorGives
    <2>2. \A x \in Attempts : /\ QuietIn(x) /\ ses'[x].closing = ses[x].closing
                              /\ ses'[x].life = ses[x].life /\ ses'[x].peer = ses[x].peer
      BY <2>1 DEF QuietIn, SameSender, PNow
    <2> QED BY <1>3, <2>2, OrchestratorGives, AttendedStill
  <1> QED BY <1>1, <1>2, <1>3, CallerAttended, PeerAttended DEF Next

LEMMA AttendedAlways == Spec => []Attended
  BY AttendedBegins, AttendedStays, Typed, InUseAlways, JoinedAlways, BegunAlways, PTL DEF Spec

\* No session is freed under its pc_task or its pc_send (esp_webrtc.c:1110-1142), except
\* after a loss of WiFi while the stop task was at work, or a peer that connected when
\* its session was being closed.
THEOREM NothingLeft == Spec => []NothingOutlives
  <1>1. Attended => NothingOutlives
    BY DEF Attended, NothingOutlives, NoOverlap
  <1> QED BY <1>1, AttendedAlways, PTL

-----------------------------------------------------------------------------
(* Generations, and who looks after the configuration                      *)

One(b) == IF b THEN 1 ELSE 0
\* How many generations can still be begun without a new attempt or a loss of WiFi.
Due == One(Now("orch") \in {"begin", "take"}) + One(Aim("orch") = "start")
       + One(Now("stop") = "take") + One(orch \in {"igniting", "active"})

\* No attempt needs more than three generations, and no loss of WiFi more than one.
Room == gen + Due <= 3 * att + flaps

\* The generation g is under way, and no session but s has it.
OnlyOf(g, s) == g # 0 /\ \A x \in Attempts : ses[x].gen = g => x = s

\* No session is of a generation to come; the current one is that of the session in use,
\* and already that of the one being started.
Young ==
  /\ \A x \in Attempts : ses[x].gen <= gen
  /\ handle # 0 => OnlyOf(gen, handle)
  /\ Aim("orch") = "start" /\ Now("orch") \notin {"begin", "start"} => OnlyOf(gen, att)

GenInv == Room /\ Young

LEMMA Numbers ==
  ASSUME TypeInv
  PROVE  /\ gen \in Nat /\ att \in Nat /\ flaps \in Nat /\ handle \in Nat
         /\ \A x \in Attempts : ses[x].gen \in Nat
  <1>1. gen \in Nat /\ att \in Nat /\ flaps \in Nat /\ handle \in Nat
    BY BoundsAssumption DEF TypeInv, PlainOK
  <1>2. \A x \in Attempts : ses[x].gen \in Nat
    <2>1. \A x \in Attempts : ses[x] \in Session
      BY DEF TypeInv, PeersOK
    <2> QED BY <2>1 DEF Session
  <1> QED BY <1>1, <1>2

\* There is no more due than before.
LEMMA RoomKept ==
  ASSUME TypeInv, Room, UNCHANGED <<gen, att, flaps>>,
         Now("orch")' \in {"begin", "take"} => Now("orch") \in {"begin", "take"},
         Aim("orch")' = "start" => Aim("orch") = "start",
         Now("stop")' = "take" => Now("stop") = "take",
         orch' \in {"igniting", "active"} => orch \in {"igniting", "active"}
  PROVE  Room'
  BY Numbers DEF Room, Due, One

\* No generation begins, and at most a session is freed.
LEMMA YoungKept ==
  ASSUME TypeInv, Young, UNCHANGED <<gen, att>>, handle' \in {handle, 0},
         \A x \in Attempts : ses'[x].gen \in {ses[x].gen, 0},
         Aim("orch")' = "start" /\ Now("orch")' \notin {"begin", "start"} =>
           Aim("orch") = "start" /\ Now("orch") \notin {"begin", "start"}
  PROVE  Young'
  <1>1. \A x \in Attempts : ses'[x].gen <= gen'
    BY Numbers DEF Young
  <1>2. ASSUME NEW s, OnlyOf(gen, s)
        PROVE  OnlyOf(gen, s)'
    BY <1>2 DEF OnlyOf
  <1> QED BY <1>1, <1>2 DEF Young

\* A generation begins and no session has it yet.
LEMMA GenBegins ==
  ASSUME TypeInv, Young, handle' = 0, gen' = gen + 1, \A x \in Attempts : ses'[x].gen = ses[x].gen
  PROVE  Young'
  <1>1. gen' \in Nat /\ gen' # 0 /\ \A x \in Attempts : ses'[x].gen <= gen /\ ses'[x].gen <= gen' /\ ses'[x].gen # gen'
    BY Numbers DEF Young
  <1> QED BY <1>1 DEF Young, OnlyOf

LEMMA CallerGen ==
  ASSUME TypeInv, UseInv, GenInv, NEW t \in Callers, CallStep(t)
  PROVE  GenInv'
  <1>1. CASE StopTakes("orch")
    <2>1. /\ handle' = 0 /\ gen' = gen + 1 /\ UNCHANGED <<orch, att, flaps, ses>>
      BY <1>1 DEF StopTakes, TakeSession
    <2>2. /\ Now("orch") = "take" /\ Now("orch")' \notin {"begin", "take"} /\ Aim("orch")' = Aim("orch")
          /\ Now("stop")' = Now("stop")
      BY <1>1, OrchStopTakes DEF StopStays
    <2>3. Room'
      BY <2>1, <2>2, Numbers DEF GenInv, Room, Due, One
    <2> QED BY <2>1, <2>3, GenBegins DEF GenInv
  <1>2. CASE StopTakes("stop")
    <2>1. /\ handle' = 0 /\ gen' = gen + 1 /\ UNCHANGED <<orch, att, flaps, ses>>
      BY <1>2 DEF StopTakes, TakeSession
    <2>2. /\ Now("stop") = "take" /\ Now("stop")' # "take" /\ Aim("orch")' = Aim("orch")
          /\ Now("orch")' = Now("orch")
      BY <1>2, StopStopTakes DEF OrchStays
    <2>3. Room'
      BY <2>1, <2>2, Numbers DEF GenInv, Room, Due, One
    <2> QED BY <2>1, <2>3, GenBegins DEF GenInv
  <1>3. CASE t = "orch" /\ CloseWorks("orch")
    <2>1. /\ UNCHANGED <<orch, att, flaps, gen, handle>> /\ \A x \in Attempts : ses'[x].gen = ses[x].gen
          /\ Closing("orch") /\ Closing("orch")' /\ StopStays /\ Aim("orch")' = Aim("orch")
      BY <1>3, CloseKeepsPlace, InRange DEF shared
    <2>2. Now("orch")' \notin {"begin", "take"} /\ Now("orch") \notin {"begin", "take", "start"}
      BY <2>1 DEF Closing, CloseHeads
    <2> QED BY <2>1, <2>2, RoomKept, YoungKept DEF GenInv, StopStays
  <1>4. CASE t = "stop" /\ CloseWorks("stop")
    <2>1. /\ UNCHANGED <<orch, att, flaps, gen, handle>> /\ \A x \in Attempts : ses'[x].gen = ses[x].gen
          /\ Closing("stop") /\ Closing("stop")' /\ OrchStays
      BY <1>4, CloseKeepsPlace, InRange DEF shared
    <2>2. Now("stop")' # "take"
      BY <2>1 DEF Closing, CloseHeads
    <2> QED BY <2>1, <2>2, RoomKept, YoungKept DEF GenInv, OrchStays
  <1>f. ASSUME CloseFrees(t)
        PROVE  /\ UNCHANGED <<orch, att, flaps, gen, handle>>
               /\ \A x \in Attempts : ses'[x].gen \in {ses[x].gen, 0}
    <2>1. UNCHANGED <<orch, att, flaps, gen, handle>>
      BY <1>f DEF CloseFrees, shared
    <2>2. /\ \A x \in Attempts : x # call[t].ses => ses'[x] = ses[x]
          /\ ses'[call[t].ses].gen = 0
      BY <1>f, CloseFreesOnly DEF Only
    <2> QED BY <2>1, <2>2
  <1>5. CASE t = "orch" /\ CloseFrees("orch")
    <2>1. /\ Now("orch") = "free" /\ Now("orch")' \notin {"begin", "take"}
          /\ StopStays /\ Aim("orch")' = Aim("orch")
      BY <1>5, OrchCloseFrees DEF Onward
    <2> QED BY <1>5, <1>f, <2>1, RoomKept, YoungKept DEF GenInv, StopStays
  <1>6. CASE t = "stop" /\ CloseFrees("stop")
    BY <1>6, <1>f, StopCloseFrees, RoomKept, YoungKept DEF GenInv, OrchStays
  <1>7. CASE TearsDownMedia("orch")
    <2>1. UNCHANGED <<orch, att, flaps, gen, handle, ses>>
      BY <1>7 DEF TearsDownMedia, shared
    <2> QED BY <1>7, <2>1, OrchTearsDownMedia, RoomKept, YoungKept DEF GenInv, StopStays
  <1>8. CASE TearsDownMedia("stop")
    <2>1. UNCHANGED <<orch, att, flaps, gen, handle, ses>>
      BY <1>8 DEF TearsDownMedia, shared
    <2> QED BY <1>8, <2>1, StopTearsDownMedia, RoomKept, YoungKept DEF GenInv, OrchStays
  <1>9. CASE StartTakes
    <2>1. UNCHANGED <<orch, att, flaps>>
      BY <1>9 DEF StartTakes
    <2>2. Now("orch") = "begin" /\ Aim("orch") = "start" /\ Now("stop")' = Now("stop")
      BY <1>9, OrchStartTakes DEF StopStays
    <2>3. CASE TakeSession /\ Now("orch")' \in {"open", "mark"} /\ Aim("orch")' = "start"
      <3>1. handle' = 0 /\ gen' = gen + 1 /\ gen' # gen
        BY <2>3, Numbers DEF TakeSession
      <3>2. att \in Attempts /\ Only(att, {"gen"}) /\ ses'[att].gen = gen + 1
        BY <1>9, <3>1, StartTakesOnly
      <3>3. Room'
        BY <2>1, <2>2, <2>3, <3>1, Numbers DEF GenInv, Room, Due, One
      <3>4. \A x \in Attempts : ses'[x].gen = gen + 1 \/ ses'[x].gen <= gen
        BY <3>2 DEF Only, GenInv, Young
      <3>5. OnlyOf(gen, att)'
        <4>1. \A x \in Attempts : x # att => ses'[x].gen = ses[x].gen /\ ses[x].gen <= gen /\ ses[x].gen \in Nat
          BY <3>2, Numbers DEF Only, GenInv, Young
        <4>2. gen' # 0 /\ \A x \in Attempts : ses'[x].gen = gen' => x = att
          BY <3>1, <4>1, Numbers
        <4> QED BY <2>1, <4>2 DEF OnlyOf
      <3>6. \A x \in Attempts : ses'[x].gen <= gen'
        <4>1. \A x \in Attempts : x # att => ses'[x].gen = ses[x].gen /\ ses[x].gen <= gen /\ ses[x].gen \in Nat
          BY <3>2, Numbers DEF Only, GenInv, Young
        <4> QED BY <3>1, <3>2, <4>1, Numbers
      <3> QED BY <3>1, <3>3, <3>5, <3>6 DEF GenInv, Young
    <2>4. CASE UNCHANGED <<shared, ses>> /\ Now("orch")' = "fail" /\ Aim("orch")' = "fail"
      BY <2>1, <2>2, <2>4, RoomKept, YoungKept DEF GenInv, shared
    <2> QED BY <1>9, <2>3, <2>4, OrchStartTakes
  <1>10. CASE StartOpens
    <2>1. /\ UNCHANGED <<orch, att, flaps, gen>> /\ handle' = att
      BY <1>10 DEF StartOpens
    <2>2. /\ Now("orch") = "open" /\ Aim("orch") = "start" /\ Now("stop")' = Now("stop")
          /\ Now("orch")' = "start" /\ Aim("orch")' = "start"
      BY <1>10, OrchStartOpens DEF StopStays
    <2>3. \A x \in Attempts : ses'[x].gen = ses[x].gen
      BY <1>10, StartOpensOnly DEF Only, Fields
    <2>4. OnlyOf(gen, att)'
      BY <2>1, <2>2, <2>3 DEF GenInv, Young, OnlyOf
    <2>5. Room'
      BY <2>1, <2>2, RoomKept DEF GenInv
    <2> QED BY <2>1, <2>2, <2>3, <2>4, <2>5 DEF GenInv, Young
  <1>11. CASE StartStarts
    <2>1. UNCHANGED <<orch, att, flaps>>
      BY <1>11 DEF StartStarts
    <2>2. Now("orch") = "start" /\ Aim("orch") = "start" /\ Now("stop")' = Now("stop")
      BY <1>11, OrchStartStarts DEF StopStays
    <2>3. \A x \in Attempts : ses'[x].gen = ses[x].gen
      BY <1>11, StartStartsOnly DEF Only, Fields
    <2>4. CASE TakeSession /\ Now("orch")' = "mark" /\ Aim("orch")' = "fail"
      <3>1. handle' = 0 /\ gen' = gen + 1
        BY <2>4 DEF TakeSession
      <3>2. Room'
        BY <2>1, <2>2, <2>4, <3>1, Numbers DEF GenInv, Room, Due, One
      <3> QED BY <2>3, <3>1, <3>2, GenBegins DEF GenInv
    <2>5. CASE UNCHANGED shared /\ Now("orch")' \in {"none", "mark"} /\ Aim("orch")' \in {"none", "fail"}
      BY <2>1, <2>2, <2>3, <2>5, RoomKept, YoungKept DEF GenInv, shared
    <2> QED BY <1>11, <2>4, <2>5, OrchStartStarts
  <1>12. CASE StartFails
    <2>1. UNCHANGED <<orch, att, flaps, gen, handle, ses>>
      BY <1>12 DEF StartFails, shared
    <2> QED BY <1>12, <2>1, OrchStartFails, RoomKept, YoungKept DEF GenInv, StopStays
  <1>13. CASE StopPosts
    <2>1. UNCHANGED <<orch, att, flaps, gen, handle, ses>>
      BY <1>13 DEF StopPosts, shared
    <2> QED BY <1>13, <2>1, StopPostsEnd, RoomKept, YoungKept DEF GenInv, OrchStays
  <1>14. CASE StopExits
    <2>1. UNCHANGED <<orch, att, flaps, gen, handle, ses>>
      BY <1>14 DEF StopExits, shared
    <2> QED BY <1>14, <2>1, StopExitsEnd, RoomKept, YoungKept DEF GenInv, OrchStays
  <1> QED BY <1>1, <1>2, <1>3, <1>4, <1>5, <1>6, <1>7, <1>8, <1>9, <1>10, <1>11, <1>12, <1>13, <1>14 DEF CallStep, CloseWorks, Callers

LEMMA OrchestratorGen ==
  ASSUME TypeInv, GenInv, Ignites \/ LosesWifi \/ SessionEnds \/ OrchestratorStep
  PROVE  GenInv'
  <1>1. CASE Ignites
    <2>1. /\ Now("orch") = "none" /\ Aim("orch") = "none" /\ Now("stop")' = Now("stop")
          /\ orch = "idle" /\ orch' = "igniting" /\ att' = att + 1 /\ UNCHANGED <<flaps, gen, handle, ses>>
      BY <1>1, OrchIgnites DEF Ignites, StopStays, shared
    <2>2. \/ Now("orch")' = "begin" /\ Aim("orch")' = "start"
          \/ Now("orch")' = "none" /\ Aim("orch")' = "none"
      BY <1>1, <2>1, OrchIgnites DEF OrchStays
    <2>3. Room'
      BY <2>1, <2>2, Numbers DEF GenInv, Room, Due, One
    <2>4. Young'
      BY <2>1, <2>2 DEF GenInv, Young, OnlyOf
    <2> QED BY <2>3, <2>4 DEF GenInv
  <1>2. CASE LosesWifi
    <2>1. /\ Now("orch") = "none" /\ Aim("orch") = "none" /\ Now("stop")' = Now("stop")
          /\ Now("orch")' = "take" /\ Aim("orch")' = "teardown"
          /\ orch' = "idle" /\ flaps' = flaps + 1 /\ UNCHANGED <<att, gen, handle, ses>>
      BY <1>2, OrchLosesWifi DEF LosesWifi, StopStays, shared
    <2>2. Room'
      BY <2>1, Numbers DEF GenInv, Room, Due, One
    <2> QED BY <2>1, <2>2, YoungKept DEF GenInv
  <1>3. ASSUME NEW q, EnterStopping(q), orch \in {"igniting", "active"},
               UNCHANGED <<att, flaps, gen, handle, ses>>
        PROVE  GenInv'
    <2>1. /\ orch' = "stopping" /\ Now("orch")' = Now("orch") /\ Aim("orch")' = Aim("orch")
          /\ Now("stop")' = "take" => Now("stop") \in {"none", "take"}
      BY <1>3, StopBegins DEF OrchStays, StopStays
    <2>2. Room'
      BY <1>3, <2>1, Numbers DEF GenInv, Room, Due, One
    <2> QED BY <1>3, <2>1, <2>2, YoungKept DEF GenInv
  <1>4. ASSUME UNCHANGED <<call, att, flaps, gen, handle, ses>>,
               orch' \in {"igniting", "active"} => orch \in {"igniting", "active"}
        PROVE  GenInv'
    BY <1>4, Nobody, RoomKept, YoungKept DEF NobodyCalls, StopStays, OrchStays, GenInv
  <1>5. CASE SessionEnds
    BY <1>3, <1>5 DEF SessionEnds, shared
  <1>6. CASE OrchestratorStep
    BY <1>3, <1>4, <1>6 DEF OrchestratorStep, OnReady, OnDown, OnStopped, shared
  <1> QED BY <1>1, <1>2, <1>5, <1>6

LEMMA GenBeginsWell == Init => GenInv
  <1> SUFFICES ASSUME Init PROVE GenInv
    OBVIOUS
  <1>1. /\ Now("orch") = "none" /\ Aim("orch") = "none" /\ Now("stop") = "none" /\ orch = "idle"
        /\ gen = 0 /\ handle = 0 /\ att = 0 /\ flaps = 0 /\ \A x \in Attempts : ses[x].gen = 0
    BY DEF Init, Callers, Now, Aim, First, Last, Closed
  <1> QED BY <1>1 DEF GenInv, Room, Young, Due, One

LEMMA GenStays == TypeInv /\ UseInv /\ GenInv /\ [Next]_vars => GenInv'
  <1> SUFFICES ASSUME TypeInv, UseInv, GenInv, [Next]_vars PROVE GenInv'
    OBVIOUS
  <1>1. ASSUME UNCHANGED <<orch, att, flaps, gen, handle>>, NobodyCalls,
               \A x \in Attempts : ses'[x].gen = ses[x].gen
        PROVE  GenInv'
    BY <1>1, RoomKept, YoungKept DEF NobodyCalls, StopStays, OrchStays, GenInv
  <1>2. CASE UNCHANGED vars
    BY <1>1, <1>2, Nobody DEF vars, shared
  <1>3. ASSUME NEW s \in Attempts, PeerReports(s) \/ PeerStep(s) \/ SenderExits(s)
        PROVE  GenInv'
    BY <1>1, <1>3, PeerKeepsPlace
  <1>4. ASSUME NEW g \in Gens, UpdateChecks(g) \/ UpdateSends(g)
        PROVE  GenInv'
    BY <1>1, <1>4, UpdateKeepsPlace DEF Fields
  <1> QED BY <1>2, <1>3, <1>4, CallerGen, OrchestratorGen DEF Next

LEMMA GenAlways == Spec => []GenInv
  BY GenBeginsWell, GenStays, Typed, InUseAlways, PTL DEF Spec

\* While a session_update task is registered, it is that of the current generation and
\* still at work.
Registered == updFor # 0 => updFor = gen /\ updFor \in Gens /\ upd[updFor].at \in {"check", "send"}

\* Somebody has looked, looks or is about to look after the configuration of s.
Cared(s) == ses[s].conf # "no" \/ upd[ses[s].gen].at # "none" \/ PNow(s) \in {"check_up", "up"}
CaredAt(s) == ses[s].chan = "open" /\ Current(ses[s].gen) => Cared(s)
ConfInv == Registered /\ \A s \in Attempts : CaredAt(s)

\* The budget of generations suffices.
LEMMA GensSuffice ==
  ASSUME TypeInv, GenInv, gen # 0
  PROVE  gen \in Gens
  <1>1. Due \in Nat
    BY DEF Due, One
  <1>2. gen <= 3 * att + flaps /\ att <= MaxAttempts /\ flaps <= MaxFlaps
    BY <1>1, Numbers DEF GenInv, Room, TypeInv, PlainOK
  <1>3. gen <= 3 * MaxAttempts + MaxFlaps
    BY <1>2, Numbers, BoundsAssumption
  <1> QED BY <1>3, Numbers DEF Gens, MaxGen

\* A session whose channel does not open and whose generation is not the current one
\* only now; what had been done for it remains done.
LEMMA CareKept ==
  ASSUME NEW x \in Attempts, CaredAt(x), UNCHANGED gen, handle' \in {handle, 0},
         ses'[x].gen = ses[x].gen, ses'[x].chan = "open" => ses[x].chan = "open",
         ses[x].conf # "no" => ses'[x].conf # "no",
         Current(ses[x].gen) /\ upd[ses[x].gen].at # "none" => upd'[ses[x].gen].at # "none",
         Current(ses[x].gen) /\ PNow(x) \in {"check_up", "up"} => PNow(x)' \in {"check_up", "up"}
  PROVE  CaredAt(x)'
  BY DEF CaredAt, Cared, Current

LEMMA NobodyCares ==
  ASSUME handle' = 0, NEW x
  PROVE  CaredAt(x)'
  BY DEF CaredAt, Current

LEMMA ConfStill ==
  ASSUME TypeInv, ConfInv, UNCHANGED <<gen, handle, updFor, upd>>,
         \A x \in Attempts : /\ ses'[x].gen = ses[x].gen /\ ses'[x].todo = ses[x].todo
                             /\ ses'[x].conf = ses[x].conf /\ ses'[x].chan \in {ses[x].chan, "closed"}
  PROVE  ConfInv'
  <1>1. Registered'
    BY DEF ConfInv, Registered
  <1>2. ASSUME NEW x \in Attempts
        PROVE  CaredAt(x)'
    BY <1>2, CareKept DEF ConfInv, PNow
  <1> QED BY <1>1, <1>2 DEF ConfInv

\* The session in use is taken.
LEMMA ConfTaken ==
  ASSUME TakeSession
  PROVE  ConfInv'
  BY NobodyCares DEF TakeSession, ConfInv, Registered

LEMMA CallerConf ==
  ASSUME TypeInv, UseInv, Untouched, GenInv, ConfInv, NEW t \in Callers, CallStep(t)
  PROVE  ConfInv'
  <1>1. CASE StopTakes(t)
    BY <1>1, ConfTaken DEF StopTakes
  <1>2. CASE CloseWorks(t)
    BY <1>2, CloseKeepsPlace, ConfStill DEF shared
  <1>3. CASE CloseFrees(t)
    <2>1. UNCHANGED <<gen, handle, updFor, upd>>
      BY <1>3 DEF CloseFrees, shared
    <2>2. /\ \A x \in Attempts : x # call[t].ses => ses'[x] = ses[x]
          /\ ses'[call[t].ses].chan = "new"
      BY <1>3, CloseFreesOnly DEF Only
    <2>3. Registered'
      BY <2>1 DEF ConfInv, Registered
    <2>4. ASSUME NEW x \in Attempts
          PROVE  CaredAt(x)'
      <3>1. CASE x # call[t].ses
        BY <2>1, <2>2, <3>1, CareKept DEF ConfInv, PNow
      <3>2. CASE x = call[t].ses
        BY <2>2, <3>2 DEF CaredAt
      <3> QED BY <3>1, <3>2
    <2> QED BY <2>3, <2>4 DEF ConfInv
  <1>4. CASE TearsDownMedia(t) \/ StartFails \/ StopPosts \/ StopExits
    <2>1. UNCHANGED <<gen, handle, updFor, upd, ses>>
      BY <1>4 DEF TearsDownMedia, StartFails, StopPosts, StopExits, shared
    <2> QED BY <2>1, ConfStill
  <1>5. CASE StartTakes
    <2>1. UNCHANGED upd
      BY <1>5 DEF StartTakes
    <2>2. CASE UNCHANGED <<shared, ses>>
      BY <2>1, <2>2, ConfStill DEF shared
    <2> QED BY <1>5, <2>2, ConfTaken, OrchStartTakes
  <1>6. CASE StartOpens
    <2>1. UNCHANGED <<gen, updFor, upd, att>> /\ handle' = att
      BY <1>6 DEF StartOpens
    <2>2. att \in Attempts /\ Only(att, {"life", "media"})
      BY <1>6, StartOpensOnly
    <2>3. Now("orch") = "open" /\ Aim("orch") = "start"
      BY <1>6, OrchStartOpens
    <2>4. OnlyOf(gen, att) /\ ses[att].chan = "new"
      BY <2>3 DEF GenInv, Young, Untouched, Virgin
    <2>5. \A x \in Attempts : ses'[x].gen = ses[x].gen /\ ses'[x].chan = ses[x].chan
      BY <2>2 DEF Only, Fields
    <2>6. ASSUME NEW x \in Attempts, ses'[x].chan = "open", ses'[x].gen = gen'
          PROVE  FALSE
      BY <2>1, <2>4, <2>5, <2>6 DEF OnlyOf
    <2>7. Registered'
      BY <2>1 DEF ConfInv, Registered
    <2> QED BY <2>6, <2>7 DEF ConfInv, CaredAt, Current
  <1>7. CASE StartStarts
    <2>1. UNCHANGED upd
      BY <1>7 DEF StartStarts
    <2>2. \A x \in Attempts : /\ ses'[x].gen = ses[x].gen /\ ses'[x].chan = ses[x].chan
                              /\ ses'[x].todo = ses[x].todo /\ ses'[x].conf = ses[x].conf
      BY <1>7, StartStartsOnly DEF Only, Fields
    <2>3. CASE UNCHANGED shared
      BY <2>1, <2>2, <2>3, ConfStill DEF shared
    <2> QED BY <1>7, <2>3, ConfTaken, OrchStartStarts
  <1> QED BY <1>1, <1>2, <1>3, <1>4, <1>5, <1>6, <1>7 DEF CallStep, CloseWorks

\* What a step of pc_task or pc_send in the session s may do about its configuration.
LeavesConf(s) ==
  /\ UNCHANGED <<updFor, upd>>
  /\ ses'[s].chan = "open" => ses[s].chan = "open"
  /\ ses[s].conf # "no" => ses'[s].conf # "no"
  /\ PNow(s) \notin {"check_up", "up"} \/ PNow(s)' = PNow(s)
OpensChannel(s) == UNCHANGED <<updFor, upd>> /\ PNow(s)' = "check_up"
ComesUp(s) ==
  /\ UNCHANGED <<updFor, upd>>
  /\ ses'[s].chan = ses[s].chan /\ ses'[s].conf = ses[s].conf
  /\ Current(ses[s].gen) /\ PNow(s) = "check_up" => PNow(s)' = "up"
  /\ PNow(s) # "up"
Schedules ==
  \/ updFor' = gen /\ upd' = IF updFor = gen THEN upd ELSE [upd EXCEPT ![gen] = [at |-> "check", tries |-> 0]]
  \/ /\ updFor # gen /\ updFor' \in {updFor, 0}
     /\ upd' = [upd EXCEPT ![gen] = [at |-> "refused", tries |-> 0]]

LEMMA PeerCares ==
  ASSUME TypeInv, NEW s \in Attempts, PeerReports(s) \/ PeerStep(s) \/ SenderExits(s)
  PROVE  \/ LeavesConf(s) \/ OpensChannel(s) \/ ComesUp(s)
         \/ Schedules /\ ses'[s].chan = ses[s].chan /\ ses'[s].conf = ses[s].conf
  <1>p. /\ \A x : PeerAt(s, x) => PNow(s) = x
        /\ Loops(s) => PNow(s) = "none"
    BY DEF PeerAt, PNow, First, Loops
  <1>1. CASE PeerConnects(s)
    <2>1. ses'[s].chan = ses[s].chan /\ ses'[s].conf = ses[s].conf
      BY <1>1, PeerConnectsOnly DEF Only, Fields
    <2> QED BY <1>1, <1>p, <2>1 DEF PeerConnects, LeavesConf, shared
  <1>2. CASE PeerFails(s)
    <2>1. ses'[s].chan = ses[s].chan /\ ses'[s].conf = ses[s].conf
      BY <1>2, PeerFailsOnly DEF Only, Fields
    <2> QED BY <1>2, <1>p, <2>1 DEF PeerFails, LeavesConf, shared
  <1>3. CASE PeerOpensChannel(s)
    <2>1. PNow(s)' = "check_up"
      BY <1>3, PeerOpensChannelServes DEF TypeInv, Serves, PNow
    <2> QED BY <1>3, <2>1 DEF PeerOpensChannel, OpensChannel, shared
  <1>4. CASE PeerLosesChannel(s)
    <2>1. ses[s].chan = "open" /\ ses'[s].conf = ses[s].conf
      BY <1>4, PeerLosesChannelOnly DEF PeerLosesChannel, Only, Fields
    <2> QED BY <1>4, <1>p, <2>1 DEF PeerLosesChannel, LeavesConf, shared
  <1>5. CASE PeerDisconnects(s)
    <2>1. ses'[s].conf = ses[s].conf
      BY <1>5, PeerDisconnectsOnly DEF Only, Fields
    <2>2. ses'[s].chan = AfterOpen(s)
      <3>1. s \in DOMAIN ses /\ ses[s] \in Session
        BY DEF TypeInv, PeersOK
      <3> QED BY <1>5, <3>1 DEF PeerDisconnects, Session
    <2> QED BY <1>5, <1>p, <2>1, <2>2 DEF PeerDisconnects, LeavesConf, shared, AfterOpen
  <1>6. CASE ServerAnswers(s)
    <2>1. ses'[s].chan = ses[s].chan /\ ses'[s].conf = "answered"
      BY <1>6, ServerAnswersOnly DEF Only, Fields
    <2> QED BY <1>6, <1>p, <2>1 DEF ServerAnswers, LeavesConf, shared
  <1>7. CASE StreamStarts(s)
    <2>1. ses'[s].chan = ses[s].chan /\ ses'[s].conf = ses[s].conf
      BY <1>7, StreamStartsOnly DEF Only, Fields
    <2> QED BY <1>7, <1>p, <2>1 DEF StreamStarts, LeavesConf, shared
  <1>8. CASE StreamTested(s)
    <2>1. ses'[s].chan = ses[s].chan /\ ses'[s].conf = ses[s].conf
      BY <1>8, StreamTestedOnly DEF Only, Fields
    <2> QED BY <1>8, <1>p, <2>1 DEF StreamTested, LeavesConf, shared
  <1>9. CASE StreamStops(s)
    <2>1. ses'[s].chan = ses[s].chan /\ ses'[s].conf = ses[s].conf
      BY <1>9, StreamStopsOnly DEF Only, Fields
    <2> QED BY <1>9, <1>p, <2>1 DEF StreamStops, LeavesConf, shared
  <1>10. CASE PeerJoinsSender(s)
    <2>1. ses'[s].chan = ses[s].chan /\ ses'[s].conf = ses[s].conf
      BY <1>10, PeerJoinsSenderOnly DEF Only, Fields
    <2> QED BY <1>10, <1>p, <2>1 DEF PeerJoinsSender, LeavesConf, shared
  <1>11. CASE CallbackChecks(s)
    <2>1. ses'[s].chan = ses[s].chan /\ ses'[s].conf = ses[s].conf
      BY <1>11, CallbackChecksOnly DEF Only, Fields
    <2>2. UNCHANGED <<updFor, upd>>
      BY <1>11 DEF CallbackChecks, shared
    <2>3. PICK x \in {"check_up", "check_down", "check_ready"} :
            /\ PeerAt(s, x)
            /\ ses' = [ses EXCEPT ![s].todo =
                 (IF Current(ses[s].gen) THEN <<Checked(x)>> ELSE <<>>) \o Tail(@)]
      BY <1>11 DEF CallbackChecks
    <2>4. PNow(s) = x
      BY <1>p, <2>3
    <2>5. ASSUME Current(ses[s].gen), x = "check_up"
          PROVE  PNow(s)' = "up"
      <3>1. ses'[s].todo = <<"up">> \o Tail(ses[s].todo)
        <4>1. s \in DOMAIN ses /\ ses[s] \in Session
          BY DEF TypeInv, PeersOK
        <4> QED BY <2>3, <2>5, <4>1 DEF Checked, Session
      <3>2. ses[s].todo # <<>> /\ ListOK(ses[s].todo) /\ "up" \in PeerSteps
        BY <2>3, PeerAtStep DEF TypeInv, PeerSteps
      <3>3. First(<<"up">> \o Tail(ses[s].todo)) = "up"
        BY <3>2, ListGoesOn
      <3> QED BY <3>1, <3>3 DEF PNow
    <2> QED BY <2>1, <2>2, <2>4, <2>5 DEF ComesUp
  <1>12. CASE CallbackSchedules(s)
    <2>1. ses'[s].chan = ses[s].chan /\ ses'[s].conf = ses[s].conf
      BY <1>12, CallbackSchedulesOnly DEF Only, Fields
    <2> QED BY <1>12, <2>1 DEF CallbackSchedules, Schedules
  <1>13. CASE CallbackReportsDown(s)
    <2>1. ses'[s].chan = ses[s].chan /\ ses'[s].conf = ses[s].conf
      BY <1>13, CallbackReportsDownOnly DEF Only, Fields
    <2> QED BY <1>13, <1>p, <2>1 DEF CallbackReportsDown, LeavesConf
  <1>14. CASE CallbackReportsReady(s)
    <2>1. ses'[s].chan = ses[s].chan /\ ses'[s].conf = ses[s].conf
      BY <1>14, CallbackReportsReadyOnly DEF Only, Fields
    <2> QED BY <1>14, <1>p, <2>1 DEF CallbackReportsReady, LeavesConf
  <1>15. CASE PeerExits(s)
    <2>1. ses'[s].chan = ses[s].chan /\ ses'[s].conf = ses[s].conf /\ ses'[s].todo = ses[s].todo
      BY <1>15, PeerExitsOnly DEF Only, Fields
    <2> QED BY <1>15, <2>1 DEF PeerExits, LeavesConf, shared, PNow
  <1>16. CASE SenderExits(s)
    <2>1. ses'[s].chan = ses[s].chan /\ ses'[s].conf = ses[s].conf /\ ses'[s].todo = ses[s].todo
      BY <1>16, SenderExitsOnly DEF Only, Fields
    <2> QED BY <1>16, <2>1 DEF SenderExits, LeavesConf, shared, PNow
  <1>17. CASE SenderSpawns(s)
    <2>1. ses'[s].chan = ses[s].chan /\ ses'[s].conf = ses[s].conf
      BY <1>17, SenderSpawnsOnly DEF Only, Fields
    <2> QED BY <1>17, <1>p, <2>1 DEF SenderSpawns, LeavesConf, shared
  <1> QED BY <1>1, <1>2, <1>3, <1>4, <1>5, <1>6, <1>7, <1>8, <1>9, <1>10, <1>11, <1>12, <1>13, <1>14, <1>15, <1>16, <1>17 DEF PeerReports, PeerStep

LEMMA PeerConf ==
  ASSUME TypeInv, GenInv, ConfInv, NEW s \in Attempts, PeerReports(s) \/ PeerStep(s) \/ SenderExits(s)
  PROVE  ConfInv'
  <1>1. /\ UNCHANGED <<gen, handle>>
        /\ \A x \in Attempts : x # s => ses'[x] = ses[x]
        /\ \A x \in Attempts : ses'[x].gen = ses[x].gen
    BY PeerKeepsPlace, PeerWorks
  <1>2. CASE UNCHANGED <<updFor, upd>> /\ (LeavesConf(s) \/ OpensChannel(s) \/ ComesUp(s))
    <2>1. Registered'
      BY <1>1, <1>2 DEF ConfInv, Registered
    <2>2. ASSUME NEW x \in Attempts, x # s
          PROVE  CaredAt(x)'
      BY <1>1, <1>2, <2>2, CareKept DEF ConfInv, PNow
    <2>3. CaredAt(s)'
      <3>1. CASE LeavesConf(s)
        BY <1>1, <1>2, <3>1, CareKept DEF ConfInv, LeavesConf
      <3>2. CASE OpensChannel(s)
        BY <3>2 DEF OpensChannel, CaredAt, Cared
      <3>3. CASE ComesUp(s)
        BY <1>1, <1>2, <3>3, CareKept DEF ConfInv, ComesUp
      <3> QED BY <1>2, <3>1, <3>2, <3>3
    <2> QED BY <2>1, <2>2, <2>3 DEF ConfInv
  <1>3. CASE Schedules
    <2>1. Registered'
      <3>1. SUFFICES ASSUME updFor' # 0 PROVE updFor' = gen' /\ updFor' \in Gens /\ upd'[updFor'].at \in {"check", "send"}
        BY DEF Registered
      <3>2. updFor' = gen /\ gen # 0 /\ gen \in Gens
        BY <1>3, <3>1, GensSuffice DEF Schedules, ConfInv, Registered
      <3>3. CASE updFor = gen
        BY <1>1, <1>3, <3>2, <3>3 DEF ConfInv, Registered, Schedules
      <3>4. CASE updFor # gen
        <4>1. updFor = 0
          BY <3>4 DEF ConfInv, Registered
        <4>2. upd'[gen].at = "check"
          BY <1>3, <3>1, <3>2, <3>4, <4>1 DEF Schedules, TypeInv, PlainOK
        <4> QED BY <1>1, <3>2, <4>2
      <3> QED BY <3>3, <3>4
    <2>2. ASSUME NEW x \in Attempts, Current(ses[x].gen)'
          PROVE  Cared(x)'
      <3>1. handle # 0 /\ ses'[x].gen = gen /\ gen # 0 /\ gen \in Gens
        BY <1>1, <2>2, GensSuffice DEF Current, GenInv, Young, OnlyOf
      <3>2. CASE updFor = gen
        BY <1>3, <3>1, <3>2 DEF Schedules, ConfInv, Registered, Cared
      <3>3. CASE updFor # gen
        <4>1. upd'[gen].at \in {"check", "refused"}
          BY <1>3, <3>1, <3>3 DEF Schedules, TypeInv, PlainOK
        <4> QED BY <3>1, <4>1 DEF Cared
      <3> QED BY <3>2, <3>3
    <2> QED BY <2>1, <2>2 DEF ConfInv, CaredAt
  <1>4. LeavesConf(s) \/ OpensChannel(s) \/ ComesUp(s) => UNCHANGED <<updFor, upd>>
    BY DEF LeavesConf, OpensChannel, ComesUp
  <1> QED BY <1>2, <1>3, <1>4, PeerCares

\* A task that ends is no longer registered.
LEMMA EndsWell ==
  ASSUME TypeInv, ConfInv, NEW g \in Gens, NEW how, Ends(g, how), UNCHANGED gen
  PROVE  /\ Registered' /\ upd'[g].at = how
         /\ \A h : h # g => upd'[h] = upd[h]
  <1>1. /\ upd' = [upd EXCEPT ![g] = [at |-> how, tries |-> 0]]
        /\ updFor' = IF updFor = g THEN 0 ELSE updFor
    BY DEF Ends
  <1>2. upd'[g].at = how /\ \A h \in Gens : h # g => upd'[h] = upd[h]
    BY <1>1 DEF TypeInv, PlainOK
  <1>3. Registered'
    BY <1>1, <1>2 DEF ConfInv, Registered
  <1> QED BY <1>1, <1>2, <1>3

LEMMA UpdateConf ==
  ASSUME TypeInv, GenInv, ConfInv, NEW g \in Gens, UpdateChecks(g) \/ UpdateSends(g)
  PROVE  ConfInv'
  <1>0. UNCHANGED <<gen, handle>>
    BY UpdateKeepsPlace
  <1>1. \A x \in Attempts : /\ ses'[x].gen = ses[x].gen /\ ses'[x].chan = ses[x].chan
                            /\ PNow(x)' = PNow(x) /\ (ses[x].conf # "no" => ses'[x].conf # "no")
    BY UpdateKeepsPlace DEF Fields
  \* The task of g goes on, or ends with a trace, or is not about a session in use.
  <1>2. ASSUME Registered', \A h : h # g => upd'[h] = upd[h], upd'[g].at # "none" \/ ~Current(g)
        PROVE  ConfInv'
    <2>1. ASSUME NEW x \in Attempts
          PROVE  CaredAt(x)'
      <3>1. Current(ses[x].gen) /\ upd[ses[x].gen].at # "none" => upd'[ses[x].gen].at # "none"
        BY <1>2
      <3> QED BY <1>0, <1>1, <2>1, <3>1, CareKept DEF ConfInv
    <2> QED BY <1>2, <2>1 DEF ConfInv
  <1>3. ASSUME NEW r, upd' = [upd EXCEPT ![g] = r], r.at \in {"check", "send"}, UNCHANGED updFor
        PROVE  ConfInv'
    <2>1. upd'[g] = r /\ \A h : h # g => upd'[h] = upd[h]
      BY <1>3 DEF TypeInv, PlainOK
    <2>2. Registered'
      BY <1>0, <1>3, <2>1 DEF ConfInv, Registered
    <2> QED BY <1>2, <1>3, <2>1, <2>2
  <1>4. CASE UpdateChecks(g)
    <2>1. CASE Current(g) /\ upd' = [upd EXCEPT ![g].at = "send"] /\ UNCHANGED updFor
      <3>1. upd' = [upd EXCEPT ![g] = [upd[g] EXCEPT !.at = "send"]]
        BY <2>1 DEF TypeInv, PlainOK
      <3>2. [upd[g] EXCEPT !.at = "send"].at = "send"
        BY DEF TypeInv, PlainOK
      <3> QED BY <1>3, <2>1, <3>1, <3>2
    <2>2. CASE ~Current(g) /\ Ends(g, "none")
      BY <1>0, <1>2, <2>2, EndsWell
    <2> QED BY <1>4, <2>1, <2>2 DEF UpdateChecks
  <1>5. CASE UpdateSends(g)
    <2>1. CASE /\ Sendable
               /\ ses' = [ses EXCEPT ![handle].conf = IF @ = "no" THEN "sent" ELSE @]
               /\ Ends(g, "none")
      <3>1. Registered' /\ \A h : h # g => upd'[h] = upd[h]
        BY <1>0, <2>1, EndsWell
      <3>2. handle \in Attempts /\ ses[handle] \in Session
        BY <2>1, InRange DEF Sendable, TypeInv, PeersOK
      <3>3. ses'[handle].conf # "no"
        BY <2>1, <3>2 DEF TypeInv, PeersOK, Session
      <3>4. ASSUME NEW x \in Attempts
            PROVE  CaredAt(x)'
        <4>1. CASE x = handle
          BY <3>3, <4>1 DEF CaredAt, Cared
        <4>2. CASE x # handle
          <5>1. ~Current(ses[x].gen)'
            BY <1>0, <1>1, <4>2 DEF Current, GenInv, Young, OnlyOf
          <5> QED BY <5>1 DEF CaredAt
        <4> QED BY <4>1, <4>2
      <3> QED BY <3>1, <3>4 DEF ConfInv
    <2>2. CASE Ends(g, "gave_up")
      BY <1>0, <1>2, <2>2, EndsWell
    <2>3. CASE UNCHANGED updFor /\ upd' = [upd EXCEPT ![g] = [at |-> "check", tries |-> @.tries + 1]]
      <3>1. upd' = [upd EXCEPT ![g] = [at |-> "check", tries |-> upd[g].tries + 1]]
        BY <2>3
      <3>2. [at |-> "check", tries |-> upd[g].tries + 1].at = "check"
        OBVIOUS
      <3> QED BY <1>3, <2>3, <3>1, <3>2
    <2> QED BY <1>5, <2>1, <2>2, <2>3 DEF UpdateSends
  <1> QED BY <1>4, <1>5

LEMMA ConfBegins == Init => ConfInv
  <1> SUFFICES ASSUME Init PROVE ConfInv
    OBVIOUS
  <1>1. handle = 0 /\ updFor = 0
    BY DEF Init
  <1> QED BY <1>1 DEF ConfInv, Registered, CaredAt, Current

LEMMA ConfStays == TypeInv /\ UseInv /\ Untouched /\ GenInv /\ ConfInv /\ [Next]_vars => ConfInv'
  <1> SUFFICES ASSUME TypeInv, UseInv, Untouched, GenInv, ConfInv, [Next]_vars PROVE ConfInv'
    OBVIOUS
  <1>1. CASE UNCHANGED vars
    BY <1>1, ConfStill DEF vars, shared
  <1>2. CASE Ignites \/ LosesWifi \/ SessionEnds \/ OrchestratorStep
    <2>1. UNCHANGED <<gen, handle, updFor, upd, ses>>
      BY <1>2 DEF Ignites, LosesWifi, SessionEnds, OrchestratorStep, OnReady, OnDown, OnStopped, shared
    <2> QED BY <2>1, ConfStill
  <1> QED BY <1>1, <1>2, CallerConf, PeerConf, UpdateConf DEF Next

LEMMA ConfAlways == Spec => []ConfInv
  BY ConfBegins, ConfStays, Typed, InUseAlways, UntouchedAlways, GenAlways, PTL DEF Spec

\* A channel that opens is configured (webrtc.c, schedule_session_update and
\* session_update_task): the configuration of the session in use has been sent, its
\* task is at work, or the callback that creates the task is on its way; or the task has
\* given up after its last attempt, or could not be scheduled.  No other session has its
\* generation, so no task of an earlier session ends in its place.
THEOREM ChannelsConfigured == Spec => []ChannelConfigured
  <1>1. TypeInv /\ GenInv /\ ConfInv => ChannelConfigured
    <2> SUFFICES ASSUME TypeInv, GenInv, ConfInv, NEW s \in Attempts, ses[s].chan = "open" /\ Current(ses[s].gen)
                 PROVE  \/ ses[s].conf # "no"
                        \/ upd[ses[s].gen].at \in {"check", "send"}
                        \/ \E i \in DOMAIN ses[s].todo : ses[s].todo[i] \in {"check_up", "up"}
                        \/ upd[ses[s].gen].at \in {"gave_up", "refused"}
      BY DEF ChannelConfigured
    <2>1. Cared(s)
      BY DEF ConfInv, CaredAt
    <2>2. ASSUME PNow(s) \in {"check_up", "up"}
          PROVE  \E i \in DOMAIN ses[s].todo : ses[s].todo[i] \in {"check_up", "up"}
      <3>1. ses[s].todo \in Seq(PeerSteps) /\ ses[s].todo # <<>>
        BY <2>2 DEF TypeInv, PeersOK, ListOK, PNow, First
      <3>2. 1 \in DOMAIN ses[s].todo /\ PNow(s) = ses[s].todo[1]
        BY <3>1 DEF PNow, First
      <3> QED BY <2>2, <3>2
    <2>3. upd[ses[s].gen].at \in {"none", "check", "send", "gave_up", "refused"}
      <3>1. ses[s].gen = gen /\ gen # 0
        BY DEF Current, GenInv, Young, OnlyOf
      <3> QED BY <3>1, GensSuffice DEF TypeInv, PlainOK
    <2> QED BY <2>1, <2>2, <2>3 DEF Cared
  <1> QED BY <1>1, Typed, GenAlways, ConfAlways, PTL

=============================================================================
