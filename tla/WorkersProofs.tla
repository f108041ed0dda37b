----------------------------- MODULE WorkersProofs -----------------------------
(***************************************************************************)
(* Proofs about Workers, for any number of crates and worker threads and   *)
(* any commands of the dispatch table.                                     *)
(*                                                                         *)
(* Each command is shown to run safely by itself, with a logic of programs *)
(* in which what a program needs, does and leaves is composed from what    *)
(* its parts do; then it is shown that the device locks keep what other    *)
(* threads do from its view.                                               *)
(***************************************************************************)
EXTENDS Workers, TLAPS, SequenceTheorems

-----------------------------------------------------------------------------
(* What a thread sees.  Its own belongings o are the devices it has locked, *)
(* those it has lent, the buffers it has and has freed.  The view h of the  *)
(* MTC is there only as long as it has the SBC's lock.                      *)

MtcStates == [control : SUBSET {"PULSE_EN", "PED_EN"}, pmsk : SUBSET MASKALL,
              pulser : SUBSET {"free"}]
Views     == [up : BOOLEAN, mtc : MtcStates, calm : BOOLEAN]

Owns(D, lent, live, freed) == [held |-> D, lent |-> lent, live |-> live, freed |-> freed]
View(up, m, quiet)         == [up |-> up, mtc |-> m, calm |-> quiet]

\* Not its own: any value would do.
Away == View(FALSE, [control |-> {}, pmsk |-> {}, pulser |-> {}], FALSE)
\* The SBC has been lost.
Lost(h) == View(FALSE, h.mtc, FALSE)

Pulsing(m) ==
  {"PULSE_EN", "PED_EN"} \subseteq m.control /\ m.pulser = {"free"} /\ m.pmsk # {}

\* run_pedestals_end changes the mode of the first crate, whether or not it is in the
\* mask and so locked.
EndsFirst(j) ==
  j.name \in {"run_pedestals_end", "run_pedestals_end_crate"}
    => j.crates = {} \/ FirstCrate \in j.crates

\* What the properties ask of a thread of job j before it takes step s.
Legal(j, s, o, h) ==
  /\ Touched(s) \subseteq o.held \/ (s.op = "mode" /\ ~EndsFirst(j))
  /\ s.op \in {"access", "mode"} => Touched(s) \cap o.lent = {}
  /\ s.op = "mode" => s.to \in {"INIT_MODE", "NORMAL_MODE"}
  /\ s.op = "store" => IF j.name \in Unchecked THEN s.bufs \cap o.freed = {}
                                              ELSE s.bufs \subseteq o.live
  /\ s.op = "free" => s.bufs \cap o.freed = {}
  /\ s.op = "gt" /\ h.up /\ j.crates # {} /\ ~PennTeststand
       => h.mtc.pmsk \subseteq j.crates \cup {Tub}
  /\ s.op = "end" /\ h.calm /\ Sbc \in s.on /\ j.name \notin LeavePulses => ~Pulsing(h.mtc)

Asks(s) == s.op \in {"mtc", "gt", "poke"} \/ (s.op = "access" /\ s.on = {Sbc})

\* What a step that does not decide how the program goes on makes of o and h.
Does(s, o, h, o2, h2) ==
  \/ s.op \in {"access", "gt", "mode", "store"} /\ o2 = o /\ h2 = h
  \/ Asks(s) /\ h.up /\ o2 = o /\ h2 = Lost(h)
  \/ /\ s.op = "mtc"
     /\ o2 = o
     /\ h2 = View(h.up,
                  IF h.up THEN [h.mtc EXCEPT ![s.reg] = (@ \ s.off) \cup s.on] ELSE h.mtc,
                  h.calm)
  \/ /\ s.op = "poke"
     /\ o2 = o
     /\ \E m \in MtcStates : h2 = View(h.up, m, h.calm) /\ (h.up \/ m = h.mtc)
  \/ s.op = "connect" /\ o2 = o /\ \E u \in BOOLEAN : h2 = View(u, h.mtc, h.calm)
  \/ /\ s.op = "lend"
     /\ o2 = Owns(o.held, o.lent \cup {s.crate}, o.live, o.freed)
     /\ h2 = h
  \/ /\ s.op = "relock"
     /\ o2 = Owns(o.held, o.lent \ {s.crate}, o.live, o.freed)
     /\ h2 = h
  \/ /\ s.op = "end"
     /\ o2 = Owns(o.held \ s.on, o.lent \ s.on, o.live, o.freed)
     /\ h2 = IF Sbc \in s.on THEN Away ELSE h
  \/ /\ s.op = "malloc"
     /\ o2 = Owns(o.held, o.lent, o.live \cup s.bufs, o.freed \ s.bufs)
     /\ h2 = h
  \/ /\ s.op = "free"
     /\ o2 = Owns(o.held, o.lent, o.live \ s.bufs, o.freed \cup (o.live \cap s.bufs))
     /\ h2 = h

\* A thread of job j that has returned.
Done(j, o) == o.held = {} /\ (j.name \notin Leaky => o.live = {})

-----------------------------------------------------------------------------
(* The logic.  A configuration <<p, b, o, h>> has the program p left; b says *)
(* whether the thread is on its way out after a return.                      *)

IsProgram(p) == \E X : p \in Seq(X)

IsConfiguration(e) == \E p, b, o, h : e = <<p, b, o, h>>

\* p is legal here and all that it may go on with is in S.
Goes(j, S, p, b, o, h) ==
  LET s == Head(p)
      k == Tail(p)
  IN /\ Legal(j, s, o, h)
     /\ s.op = "choose" => \A q \in s.alt : IsProgram(q) /\ <<q \o k, b, o, h>> \in S
     /\ s.op = "loop" => /\ IsProgram(s.body)
                         /\ <<s.body \o p, b, o, h>> \in S
                         /\ <<k, b, o, h>> \in S
     /\ s.op = "each" =>
          /\ s.left = {} => <<k, b, o, h>> \in S
          /\ \A c \in s.left :
               /\ IsProgram(s.body[c])
               /\ <<s.body[c] \o <<Each(s.left \ {c}, s.body)>> \o k, b, o, h>> \in S
     /\ s.op = "return" => <<s.rest, TRUE, o, h>> \in S
     /\ \A o2, h2 : Does(s, o, h, o2, h2) => <<k, b, o2, h2>> \in S

\* A program that ends leaves o2 and a view of M2, one that returns leaves nothing.
Sound(j, S, o2, M2, p, b, o, h) ==
  /\ IsProgram(p) /\ b \in BOOLEAN /\ h \in Views
  /\ p = Nothing => IF b THEN Done(j, o) ELSE o = o2 /\ h \in M2
  /\ p # Nothing => Goes(j, S, p, b, o, h)

\* S is closed under steps.
Closed(j, S, o2, M2) ==
  /\ \A e \in S : IsConfiguration(e)
  /\ \A p, b, o, h : <<p, b, o, h>> \in S => Sound(j, S, o2, M2, p, b, o, h)

\* Started with o and a view of M, p runs legally for job j, and when it gets to its
\* end it leaves o2 and a view of M2.
Runs(j, o, M, p, o2, M2) ==
  /\ IsProgram(p)
  /\ \E S : Closed(j, S, o2, M2) /\ \A h \in M : <<p, FALSE, o, h>> \in S

\* It leaves everything as it was.
Steady(j, o, M, p) == Runs(j, o, M, p, o, M)

-----------------------------------------------------------------------------
(* Programs as sequences.                                                   *)

LEMMA NothingIsProgram == IsProgram(Nothing)
  BY EmptySeq DEF IsProgram, Nothing

LEMMA StepIsProgram ==
  ASSUME NEW s
  PROVE  IsProgram(<<s>>) /\ <<s>> # Nothing /\ Head(<<s>>) = s /\ Tail(<<s>>) = Nothing
<1>1. <<s>> \in Seq({s})
  OBVIOUS
<1>2. <<s>> # Nothing /\ Head(<<s>>) = s /\ Tail(<<s>>) = Nothing
  BY DEF Nothing
<1> QED
  BY <1>1, <1>2 DEF IsProgram

LEMMA ConcatPrograms ==
  ASSUME NEW p, NEW q, IsProgram(p), IsProgram(q)
  PROVE  /\ IsProgram(p \o q)
         /\ p # Nothing => /\ p \o q # Nothing
                           /\ Head(p \o q) = Head(p)
                           /\ Tail(p \o q) = Tail(p) \o q
                           /\ IsProgram(Tail(p))
         /\ Nothing \o q = q
         /\ q \o Nothing = q
<1>1. PICK X : p \in Seq(X)
  BY DEF IsProgram
<1>2. PICK Y : q \in Seq(Y)
  BY DEF IsProgram
<1> DEFINE Z == X \cup Y
<1>3. p \in Seq(Z) /\ q \in Seq(Z)
  BY <1>1, <1>2, SeqMonotonic
<1> HIDE DEF Z
<1>4. p \o q \in Seq(Z) /\ Nothing \o q = q /\ q \o Nothing = q
  BY <1>3, ConcatProperties, ConcatEmptySeq DEF Nothing
<1>5. ASSUME p # Nothing
      PROVE  /\ p \o q # Nothing
             /\ Head(p \o q) = Head(p)
             /\ Tail(p \o q) = Tail(p) \o q
             /\ Tail(p) \in Seq(Z)
  BY <1>3, <1>5 DEF Nothing
<1> QED
  BY <1>4, <1>5 DEF IsProgram

LEMMA ConcatAssoc ==
  \A p1, p2, p3 : IsProgram(p1) /\ IsProgram(p2) /\ IsProgram(p3)
     => (p1 \o p2) \o p3 = p1 \o (p2 \o p3)
<1> SUFFICES ASSUME NEW p1, NEW p2, NEW p3, IsProgram(p1), IsProgram(p2), IsProgram(p3)
             PROVE  (p1 \o p2) \o p3 = p1 \o (p2 \o p3)
  OBVIOUS
<1>1. PICK X : p1 \in Seq(X)
  BY DEF IsProgram
<1>2. PICK Y : p2 \in Seq(Y)
  BY DEF IsProgram
<1>3. PICK Z : p3 \in Seq(Z)
  BY DEF IsProgram
<1> DEFINE W == X \cup Y \cup Z
<1>4. p1 \in Seq(W) /\ p2 \in Seq(W) /\ p3 \in Seq(W)
  BY <1>1, <1>2, <1>3, SeqMonotonic
<1> QED
  BY <1>4, ConcatAssociative

LEMMA TailIsProgram ==
  ASSUME NEW p, IsProgram(p), p # Nothing
  PROVE  IsProgram(Tail(p))
<1>1. PICK X : p \in Seq(X)
  BY DEF IsProgram
<1>2. Tail(p) \in Seq(X)
  BY <1>1, HeadTailProperties DEF Nothing
<1> QED
  BY <1>2 DEF IsProgram

-----------------------------------------------------------------------------
(* The rules of the logic.                                                  *)

LEMMA GoesMono ==
  ASSUME NEW j, NEW S, NEW T, NEW p, NEW b, NEW o, NEW h,
         Goes(j, S, p, b, o, h), S \subseteq T
  PROVE  Goes(j, T, p, b, o, h)
  BY DEF Goes

\* What goes on within S goes on within T when q is to follow.
LEMMA GoesBefore ==
  ASSUME NEW j, NEW S, NEW T, NEW p, NEW q, NEW o, NEW h,
         IsProgram(p), IsProgram(q), p # Nothing,
         Goes(j, S, p, FALSE, o, h),
         \A x, g, v : <<x, FALSE, g, v>> \in S => IsProgram(x) /\ <<x \o q, FALSE, g, v>> \in T,
         \A x, g, v : <<x, TRUE, g, v>> \in S => <<x, TRUE, g, v>> \in T
  PROVE  Goes(j, T, p \o q, FALSE, o, h)
<1> DEFINE s == Head(p)
           k == Tail(p)
<1>1. Head(p \o q) = s /\ Tail(p \o q) = k \o q /\ p \o q # Nothing
  BY ConcatPrograms
<1>k. IsProgram(k)
  BY TailIsProgram
<1>a. \A x, y : IsProgram(x) /\ IsProgram(y) => (x \o y) \o q = x \o (y \o q)
  BY ConcatAssoc
<1>2. Legal(j, s, o, h)
  BY DEF Goes
<1>3. s.op = "choose" => \A x \in s.alt : IsProgram(x) /\ <<x \o (k \o q), FALSE, o, h>> \in T
  <2> SUFFICES ASSUME s.op = "choose", NEW x \in s.alt
               PROVE  IsProgram(x) /\ <<x \o (k \o q), FALSE, o, h>> \in T
    OBVIOUS
  <2>1. IsProgram(x) /\ <<x \o k, FALSE, o, h>> \in S
    BY DEF Goes
  <2>2. (x \o k) \o q = x \o (k \o q)
    BY <2>1, <1>k, <1>a
  <2> QED
    BY <2>1, <2>2
<1>4. s.op = "loop" => /\ IsProgram(s.body)
                       /\ <<s.body \o (p \o q), FALSE, o, h>> \in T
                       /\ <<k \o q, FALSE, o, h>> \in T
  <2> SUFFICES ASSUME s.op = "loop"
               PROVE  /\ IsProgram(s.body)
                      /\ <<s.body \o (p \o q), FALSE, o, h>> \in T
                      /\ <<k \o q, FALSE, o, h>> \in T
    OBVIOUS
  <2>1. IsProgram(s.body) /\ <<s.body \o p, FALSE, o, h>> \in S /\ <<k, FALSE, o, h>> \in S
    BY DEF Goes
  <2>2. (s.body \o p) \o q = s.body \o (p \o q)
    BY <2>1, <1>a
  <2> QED
    BY <2>1, <2>2
<1>5. s.op = "each" =>
        /\ s.left = {} => <<k \o q, FALSE, o, h>> \in T
        /\ \A c \in s.left :
             /\ IsProgram(s.body[c])
             /\ <<s.body[c] \o <<Each(s.left \ {c}, s.body)>> \o (k \o q), FALSE, o, h>> \in T
  <2> SUFFICES ASSUME s.op = "each"
               PROVE  /\ s.left = {} => <<k \o q, FALSE, o, h>> \in T
                      /\ \A c \in s.left :
                           /\ IsProgram(s.body[c])
                           /\ <<s.body[c] \o <<Each(s.left \ {c}, s.body)>> \o (k \o q),
                                FALSE, o, h>> \in T
    OBVIOUS
  <2>1. s.left = {} => <<k \o q, FALSE, o, h>> \in T
    BY DEF Goes
  <2>2. ASSUME NEW c \in s.left
        PROVE  /\ IsProgram(s.body[c])
               /\ <<s.body[c] \o <<Each(s.left \ {c}, s.body)>> \o (k \o q),
                    FALSE, o, h>> \in T
    <3> DEFINE x == s.body[c]
               e == <<Each(s.left \ {c}, s.body)>>
    <3>1. IsProgram(x) /\ <<(x \o e) \o k, FALSE, o, h>> \in S
      BY DEF Goes
    <3>2. IsProgram(e)
      BY StepIsProgram
    <3> HIDE DEF x, e
    <3>3. IsProgram(x \o e)
      BY <3>1, <3>2, ConcatPrograms
    <3>4. ((x \o e) \o k) \o q = (x \o e) \o (k \o q)
      BY <1>k, <3>3, <1>a
    <3>5. <<(x \o e) \o (k \o q), FALSE, o, h>> \in T
      BY <3>1, <3>4
    <3> QED
      BY <3>1, <3>5 DEF x, e
  <2> QED
    BY <2>1, <2>2
<1>6. s.op = "return" => <<s.rest, TRUE, o, h>> \in T
  BY DEF Goes
<1>7. \A o2, h2 : Does(s, o, h, o2, h2) => <<k \o q, FALSE, o2, h2>> \in T
  BY DEF Goes
<1> HIDE DEF s, k
<1> QED
  BY <1>1, <1>2, <1>3, <1>4, <1>5, <1>6, <1>7 DEF Goes

LEMMA SoundMono ==
  ASSUME NEW j, NEW S, NEW o2, NEW M2, NEW p, NEW b, NEW o, NEW h, NEW T, NEW N2,
         Sound(j, S, o2, M2, p, b, o, h), S \subseteq T, M2 \subseteq N2
  PROVE  Sound(j, T, o2, N2, p, b, o, h)
<1>1. p # Nothing => Goes(j, T, p, b, o, h)
  BY GoesMono DEF Sound
<1> QED
  BY <1>1 DEF Sound

LEMMA RunsWeaker ==
  ASSUME NEW j, NEW o, NEW M, NEW p, NEW o2, NEW M2, NEW N, NEW N2,
         Runs(j, o, M, p, o2, M2), N \subseteq M, M2 \subseteq N2
  PROVE  Runs(j, o, N, p, o2, N2)
<1>1. PICK S : Closed(j, S, o2, M2) /\ \A h \in M : <<p, FALSE, o, h>> \in S
  BY DEF Runs
<1>2. Closed(j, S, o2, N2)
  BY <1>1, SoundMono DEF Closed
<1> QED
  BY <1>1, <1>2 DEF Runs

LEMMA RunsNothing ==
  ASSUME NEW j, NEW o, NEW M \in SUBSET Views
  PROVE  Steady(j, o, M, Nothing)
<1> DEFINE S == {<<Nothing, FALSE, o, h>> : h \in M}
<1>1. \A e \in S : IsConfiguration(e)
  BY DEF IsConfiguration
<1>2. Closed(j, S, o, M)
  BY <1>1, NothingIsProgram DEF Closed, Sound
<1>3. \A h \in M : <<Nothing, FALSE, o, h>> \in S
  OBVIOUS
<1> QED
  BY ONLY <1>2, <1>3, NothingIsProgram, Zenon DEF Runs, Steady

\* A step that does not decide how the program goes on.
LEMMA RunsStep ==
  ASSUME NEW j, NEW o, NEW M \in SUBSET Views, NEW s, NEW o2, NEW M2 \in SUBSET Views,
         s.op \notin {"choose", "loop", "each", "return"},
         \A h \in M : Legal(j, s, o, h),
         \A h \in M : \A g, v : Does(s, o, h, g, v) => g = o2 /\ v \in M2
  PROVE  Runs(j, o, M, <<s>>, o2, M2)
<1> DEFINE A == {<<<<s>>, FALSE, o, h>> : h \in M}
           B == {<<Nothing, FALSE, o2, h>> : h \in M2}
           S == A \cup B
<1>1. ASSUME NEW h \in M PROVE Goes(j, S, <<s>>, FALSE, o, h)
  BY StepIsProgram DEF Goes
<1>2. Closed(j, S, o2, M2)
  <2>1. \A e \in S : IsConfiguration(e)
    BY DEF IsConfiguration
  <2>2. ASSUME NEW p, NEW b, NEW g, NEW h, <<p, b, g, h>> \in S
        PROVE  Sound(j, S, o2, M2, p, b, g, h)
    <3>1. CASE <<p, b, g, h>> \in A
      BY <1>1, <3>1, StepIsProgram DEF Sound
    <3>2. CASE <<p, b, g, h>> \in B
      BY <3>2, NothingIsProgram DEF Sound
    <3> QED
      BY <2>2, <3>1, <3>2
  <2> HIDE DEF S
  <2> QED
    BY <2>1, <2>2 DEF Closed
<1>3. \A h \in M : <<<<s>>, FALSE, o, h>> \in S
  OBVIOUS
<1> QED
  BY ONLY <1>2, <1>3, StepIsProgram, Zenon DEF Runs

\* The configurations of S with q after what is left.
Before(S, q) ==
  {<<e[1] \o q, FALSE, e[3], e[4]>> : e \in {d \in S : ~d[2]}} \cup {e \in S : e[2]}

LEMMA BeforeMembers ==
  ASSUME NEW j, NEW S, NEW o2, NEW M2, NEW q, Closed(j, S, o2, M2)
  PROVE  /\ \A e \in Before(S, q) : IsConfiguration(e)
         /\ \A x, g, v : <<x, FALSE, g, v>> \in S => <<x \o q, FALSE, g, v>> \in Before(S, q)
         /\ \A x, g, v : <<x, TRUE, g, v>> \in S => <<x, TRUE, g, v>> \in Before(S, q)
         /\ \A y, b, g, v : <<y, b, g, v>> \in Before(S, q) =>
              \/ b = FALSE /\ \E x : y = x \o q /\ <<x, FALSE, g, v>> \in S
              \/ b = TRUE /\ <<y, TRUE, g, v>> \in S
<1>1. \A e \in S : \E x, b, g, v : e = <<x, b, g, v>> /\ b \in BOOLEAN
  <2> SUFFICES ASSUME NEW e \in S PROVE \E x, b, g, v : e = <<x, b, g, v>> /\ b \in BOOLEAN
    OBVIOUS
  <2> PICK x, b, g, v : e = <<x, b, g, v>>
    BY DEF Closed, IsConfiguration
  <2>1. b \in BOOLEAN
    BY DEF Closed, Sound
  <2> QED
    BY <2>1
<1>2. \A e \in Before(S, q) : IsConfiguration(e)
  <2> SUFFICES ASSUME NEW d \in Before(S, q) PROVE IsConfiguration(d)
    OBVIOUS
  <2>1. CASE d \in S
    BY <1>1, <2>1 DEF IsConfiguration
  <2>2. CASE \E e \in S : d = <<e[1] \o q, FALSE, e[3], e[4]>>
    BY <2>2 DEF IsConfiguration
  <2> QED
    BY <2>1, <2>2 DEF Before
<1>3. ASSUME NEW x, NEW g, NEW v, <<x, FALSE, g, v>> \in S
      PROVE  <<x \o q, FALSE, g, v>> \in Before(S, q)
  <2> DEFINE e == <<x, FALSE, g, v>>
  <2>1. e[1] = x /\ e[2] = FALSE /\ e[3] = g /\ e[4] = v
    OBVIOUS
  <2>2. e \in {d \in S : ~d[2]}
    BY <1>3, <2>1
  <2>3. <<x \o q, FALSE, g, v>> = <<e[1] \o q, FALSE, e[3], e[4]>>
    BY <2>1
  <2> HIDE DEF e
  <2>4. <<e[1] \o q, FALSE, e[3], e[4]>> \in Before(S, q)
    BY <2>2 DEF Before
  <2> QED
    BY <2>3, <2>4
<1>4. \A x, g, v : <<x, TRUE, g, v>> \in S => <<x, TRUE, g, v>> \in Before(S, q)
  BY DEF Before
<1>5. ASSUME NEW y, NEW b, NEW g, NEW v, <<y, b, g, v>> \in Before(S, q)
      PROVE  \/ b = FALSE /\ \E x : y = x \o q /\ <<x, FALSE, g, v>> \in S
             \/ b = TRUE /\ <<y, TRUE, g, v>> \in S
  <2>1. CASE \E e \in S : ~e[2] /\ <<y, b, g, v>> = <<e[1] \o q, FALSE, e[3], e[4]>>
    <3> PICK e \in S : ~e[2] /\ <<y, b, g, v>> = <<e[1] \o q, FALSE, e[3], e[4]>>
      BY <2>1
    <3> PICK x, c, g2, v2 : e = <<x, c, g2, v2>> /\ c \in BOOLEAN
      BY <1>1
    <3>1. c = FALSE /\ y = x \o q /\ b = FALSE /\ g = g2 /\ v = v2
      OBVIOUS
    <3> QED
      BY <3>1
  <2>2. CASE <<y, b, g, v>> \in S /\ b
    <3>1. b = TRUE
      BY <2>2 DEF Closed, Sound
    <3> QED
      BY <2>2, <3>1
  <2> QED
    BY <1>5, <2>1, <2>2 DEF Before
<1> QED
  BY <1>2, <1>3, <1>4, <1>5

\* A closed set with q after it: where it came to its end q begins.
LEMMA BeforeSound ==
  ASSUME NEW j, NEW S, NEW o2, NEW M2, NEW q, NEW T, NEW o3, NEW M3,
         Closed(j, S, o2, M2), IsProgram(q), Before(S, q) \subseteq T,
         \A h \in M2 : Sound(j, T, o3, M3, q, FALSE, o2, h)
  PROVE  \A y, b, g, v : <<y, b, g, v>> \in Before(S, q) => Sound(j, T, o3, M3, y, b, g, v)
<1> SUFFICES ASSUME NEW y, NEW b, NEW g, NEW v, <<y, b, g, v>> \in Before(S, q)
             PROVE  Sound(j, T, o3, M3, y, b, g, v)
  OBVIOUS
<1>a. /\ \A x, i, w : <<x, FALSE, i, w>> \in S => <<x \o q, FALSE, i, w>> \in Before(S, q)
      /\ \A x, i, w : <<x, TRUE, i, w>> \in S => <<x, TRUE, i, w>> \in Before(S, q)
  BY BeforeMembers
<1>b. \/ b = FALSE /\ \E x : y = x \o q /\ <<x, FALSE, g, v>> \in S
      \/ b = TRUE /\ <<y, TRUE, g, v>> \in S
  BY BeforeMembers
<1>1. CASE b = FALSE /\ \E x : y = x \o q /\ <<x, FALSE, g, v>> \in S
  <2> PICK x : y = x \o q /\ <<x, FALSE, g, v>> \in S
    BY <1>1
  <2>1. IsProgram(x) /\ v \in Views
    BY DEF Closed, Sound
  <2>2. CASE x = Nothing
    <3>1. g = o2 /\ v \in M2
      BY <2>2 DEF Closed, Sound
    <3>2. y = q
      BY <2>2, <2>1, ConcatPrograms
    <3> QED
      BY <1>1, <3>1, <3>2
  <2>3. CASE x # Nothing
    <3>1. Goes(j, S, x, FALSE, g, v)
      BY <2>3 DEF Closed, Sound
    <3>2. \A z, i, w : <<z, FALSE, i, w>> \in S => IsProgram(z) /\ <<z \o q, FALSE, i, w>> \in T
      BY <1>a DEF Closed, Sound
    <3>3. \A z, i, w : <<z, TRUE, i, w>> \in S => <<z, TRUE, i, w>> \in T
      BY <1>a
    <3>4. Goes(j, T, x \o q, FALSE, g, v)
      BY <2>1, <2>3, <3>1, <3>2, <3>3, GoesBefore
    <3>5. IsProgram(x \o q) /\ x \o q # Nothing
      BY <2>1, <2>3, ConcatPrograms
    <3> QED
      BY <1>1, <2>1, <3>4, <3>5 DEF Sound
  <2> QED
    BY <2>2, <2>3
<1>2. CASE b = TRUE /\ <<y, TRUE, g, v>> \in S
  <2>1. Sound(j, S, o2, M2, y, TRUE, g, v)
    BY <1>2 DEF Closed
  <2>2. y # Nothing => Goes(j, T, y, TRUE, g, v)
    <3> SUFFICES ASSUME y # Nothing PROVE Goes(j, T, y, TRUE, g, v)
      OBVIOUS
    <3>1. \A z, i, w : <<z, TRUE, i, w>> \in S => <<z, TRUE, i, w>> \in T
      BY <1>a
    <3>2. Goes(j, S, y, TRUE, g, v)
      BY <2>1 DEF Sound
    <3> QED
      BY <3>1, <3>2 DEF Goes
  <2> QED
    BY <1>2, <2>1, <2>2 DEF Sound
<1> QED
  BY <1>1, <1>2, <1>b

\* One after the other.
LEMMA RunsSeq ==
  ASSUME NEW j, NEW o, NEW M, NEW p, NEW o2, NEW M2, NEW q, NEW o3, NEW M3,
         Runs(j, o, M, p, o2, M2), Runs(j, o2, M2, q, o3, M3)
  PROVE  Runs(j, o, M, p \o q, o3, M3)
<1>1. PICK S1 : Closed(j, S1, o2, M2) /\ \A h \in M : <<p, FALSE, o, h>> \in S1
  BY DEF Runs
<1>2. PICK S2 : Closed(j, S2, o3, M3) /\ \A h \in M2 : <<q, FALSE, o2, h>> \in S2
  BY DEF Runs
<1>3. IsProgram(p) /\ IsProgram(q) /\ IsProgram(p \o q)
  BY ConcatPrograms DEF Runs
<1> DEFINE A == Before(S1, q)
           T == A \cup S2
<1>4. \A e \in T : IsConfiguration(e)
  <2>1. \A e \in A : IsConfiguration(e)
    BY <1>1, BeforeMembers
  <2>2. \A e \in S2 : IsConfiguration(e)
    BY <1>2 DEF Closed
  <2> QED
    BY <2>1, <2>2
<1>5. \A y, b, g, h : <<y, b, g, h>> \in S2 => Sound(j, T, o3, M3, y, b, g, h)
  BY <1>2, SoundMono DEF Closed
<1>6. \A y, b, g, h : <<y, b, g, h>> \in A => Sound(j, T, o3, M3, y, b, g, h)
  <2>1. \A h \in M2 : Sound(j, T, o3, M3, q, FALSE, o2, h)
    BY <1>2, <1>5
  <2>2. A \subseteq T
    OBVIOUS
  <2> HIDE DEF T
  <2> QED
    BY <1>1, <1>3, <2>1, <2>2, BeforeSound
<1>7. \A y, b, g, h : <<y, b, g, h>> \in T => <<y, b, g, h>> \in S2 \/ <<y, b, g, h>> \in A
  OBVIOUS
<1>8. \A h \in M : <<p \o q, FALSE, o, h>> \in T
  BY <1>1, BeforeMembers
<1> HIDE DEF A, T
<1>9. Closed(j, T, o3, M3)
  BY <1>4, <1>5, <1>6, <1>7 DEF Closed
<1> QED
  BY <1>3, <1>8, <1>9 DEF Runs

\* Any number of times.
LEMMA RunsWhile ==
  ASSUME NEW j, NEW o, NEW M \in SUBSET Views, NEW body, Steady(j, o, M, body)
  PROVE  Steady(j, o, M, While(body))
<1>1. PICK S : Closed(j, S, o, M) /\ \A h \in M : <<body, FALSE, o, h>> \in S
  BY DEF Runs, Steady
<1> DEFINE s == [op |-> "loop", body |-> body]
           w == While(body)
           A == Before(S, w)
           B == {<<w, FALSE, o, h>> : h \in M}
           C == {<<Nothing, FALSE, o, h>> : h \in M}
           T == A \cup B \cup C
<1>2. IsProgram(body)
  BY DEF Runs, Steady
<1>3. IsProgram(w) /\ w # Nothing /\ Head(w) = s /\ Tail(w) = Nothing
  BY StepIsProgram DEF While
<1>4. \A e \in T : IsConfiguration(e)
  <2>1. \A e \in A : IsConfiguration(e)
    BY <1>1, BeforeMembers
  <2>2. \A e \in B \cup C : IsConfiguration(e)
    BY DEF IsConfiguration
  <2> QED
    BY <2>1, <2>2
<1>5. ASSUME NEW h \in M PROVE Sound(j, T, o, M, w, FALSE, o, h)
  <2>1. <<body \o w, FALSE, o, h>> \in T
    BY <1>1, BeforeMembers
  <2>2. <<Nothing, FALSE, o, h>> \in T
    OBVIOUS
  <2>3. Legal(j, s, o, h)
    BY DEF Legal, Touched
  <2>4. \A o2, h2 : ~Does(s, o, h, o2, h2)
    BY DEF Does, Asks
  <2>5. s.op = "loop" /\ s.body = body
    OBVIOUS
  <2> HIDE DEF s, w, T
  <2>6. Goes(j, T, w, FALSE, o, h)
    BY <1>2, <1>3, <2>1, <2>2, <2>3, <2>4, <2>5 DEF Goes
  <2> QED
    BY <1>3, <2>6 DEF Sound
<1>6. \A y, b, g, h : <<y, b, g, h>> \in A => Sound(j, T, o, M, y, b, g, h)
  <2>1. A \subseteq T
    OBVIOUS
  <2> HIDE DEF w, T
  <2> QED
    BY <1>1, <1>3, <1>5, <2>1, BeforeSound
<1>7. \A h \in M : Sound(j, T, o, M, Nothing, FALSE, o, h)
  BY NothingIsProgram DEF Sound
<1>8. ASSUME NEW y, NEW b, NEW g, NEW h, <<y, b, g, h>> \in T
      PROVE  Sound(j, T, o, M, y, b, g, h)
  <2>1. CASE <<y, b, g, h>> \in A
    BY <1>6, <2>1
  <2>2. CASE <<y, b, g, h>> \in B
    <3>1. y = w /\ b = FALSE /\ g = o /\ h \in M
      BY <2>2
    <3> HIDE DEF w, T
    <3> QED
      BY <1>5, <3>1
  <2>3. CASE <<y, b, g, h>> \in C
    <3>1. y = Nothing /\ b = FALSE /\ g = o /\ h \in M
      BY <2>3
    <3> HIDE DEF w, T
    <3> QED
      BY <1>7, <3>1
  <2> QED
    BY <1>8, <2>1, <2>2, <2>3
<1>9. \A h \in M : <<w, FALSE, o, h>> \in T
  OBVIOUS
<1> HIDE DEF w, T
<1>10. Closed(j, T, o, M)
  BY <1>4, <1>8 DEF Closed
<1>11. Runs(j, o, M, w, o, M)
  BY <1>3, <1>9, <1>10 DEF Runs
<1> QED
  BY <1>11 DEF Steady, w

\* Any of a set of programs.
LEMMA RunsChoose ==
  ASSUME NEW j, NEW o, NEW M \in SUBSET Views, NEW alt, NEW o2, NEW M2,
         \A q \in alt : Runs(j, o, M, q, o2, M2)
  PROVE  Runs(j, o, M, Choose(alt), o2, M2)
<1> DEFINE Fits(q, S) == Closed(j, S, o2, M2) /\ \A h \in M : <<q, FALSE, o, h>> \in S
           f == [q \in alt |-> CHOOSE S : Fits(q, S)]
           s == [op |-> "choose", alt |-> alt]
           w == Choose(alt)
           A == UNION {f[q] : q \in alt}
           B == {<<w, FALSE, o, h>> : h \in M}
           T == A \cup B
<1>1. \A q \in alt : Fits(q, f[q])
  <2> SUFFICES ASSUME NEW q \in alt PROVE Fits(q, f[q])
    OBVIOUS
  <2>1. \E S : Fits(q, S)
    BY DEF Runs
  <2>2. f[q] = CHOOSE S : Fits(q, S)
    OBVIOUS
  <2> HIDE DEF Fits, f
  <2> QED
    BY <2>1, <2>2
<1>2. \A q \in alt : IsProgram(q)
  BY DEF Runs
<1>3. IsProgram(w) /\ w # Nothing /\ Head(w) = s /\ Tail(w) = Nothing
  BY StepIsProgram DEF Choose
<1>4. \A e \in T : IsConfiguration(e)
  <2>1. \A e \in A : IsConfiguration(e)
    <3> HIDE DEF f
    <3> QED
      BY <1>1 DEF Closed
  <2>2. \A e \in B : IsConfiguration(e)
    BY DEF IsConfiguration
  <2> QED
    BY <2>1, <2>2
<1>5. ASSUME NEW h \in M PROVE Sound(j, T, o2, M2, w, FALSE, o, h)
  <2>1. ASSUME NEW q \in alt PROVE <<q \o Nothing, FALSE, o, h>> \in T
    <3>1. <<q, FALSE, o, h>> \in T
      <4> HIDE DEF f
      <4> QED
        BY <1>1
    <3>2. q \o Nothing = q
      BY <1>2, NothingIsProgram, ConcatPrograms
    <3> QED
      BY <3>1, <3>2
  <2>3. Legal(j, s, o, h)
    BY DEF Legal, Touched
  <2>4. \A g, v : ~Does(s, o, h, g, v)
    BY DEF Does, Asks
  <2>5. s.op = "choose" /\ s.alt = alt
    OBVIOUS
  <2>6. h \in Views
    OBVIOUS
  <2> HIDE DEF s, w, T
  <2>7. Goes(j, T, w, FALSE, o, h)
    BY <1>2, <1>3, <2>1, <2>3, <2>4, <2>5 DEF Goes
  <2> QED
    BY <1>3, <2>6, <2>7 DEF Sound
<1>6. ASSUME NEW y, NEW b, NEW g, NEW h, <<y, b, g, h>> \in A
      PROVE  Sound(j, T, o2, M2, y, b, g, h)
  <2> PICK q \in alt : <<y, b, g, h>> \in f[q]
    BY <1>6
  <2>1. f[q] \subseteq T
    OBVIOUS
  <2> HIDE DEF f, T
  <2>2. Sound(j, f[q], o2, M2, y, b, g, h)
    BY <1>1 DEF Closed
  <2> QED
    BY <2>1, <2>2, SoundMono
<1>8. ASSUME NEW y, NEW b, NEW g, NEW h, <<y, b, g, h>> \in T
      PROVE  Sound(j, T, o2, M2, y, b, g, h)
  <2>1. CASE <<y, b, g, h>> \in A
    BY <1>6, <2>1
  <2>2. CASE <<y, b, g, h>> \in B
    <3>1. y = w /\ b = FALSE /\ g = o /\ h \in M
      BY <2>2
    <3> HIDE DEF w, T
    <3> QED
      BY <1>5, <3>1
  <2> QED
    BY <1>8, <2>1, <2>2
<1>9. \A h \in M : <<w, FALSE, o, h>> \in T
  OBVIOUS
<1> HIDE DEF w, T
<1>10. Closed(j, T, o2, M2)
  BY <1>4, <1>8 DEF Closed
<1> QED
  BY <1>3, <1>9, <1>10 DEF Runs, w

\* For each of a set of crates, whatever the order.
LEMMA RunsEach ==
  ASSUME NEW j, NEW o, NEW M \in SUBSET Views, NEW body,
         \A c \in DOMAIN body : Steady(j, o, M, body[c])
  PROVE  Steady(j, o, M, ForCrates(body))
<1> DEFINE D == DOMAIN body
           Fits(c, S) == Closed(j, S, o, M) /\ \A h \in M : <<body[c], FALSE, o, h>> \in S
           f == [c \in D |-> CHOOSE S : Fits(c, S)]
           w(L) == <<Each(L, body)>>
           A == UNION {UNION {Before(f[c], w(L)) : c \in D} : L \in SUBSET D}
           cfg(L, h) == <<w(L), FALSE, o, h>>
           B == UNION {{cfg(L, h) : h \in M} : L \in SUBSET D}
           C == {<<Nothing, FALSE, o, h>> : h \in M}
           T == A \cup B \cup C
<1>1. \A c \in D : Fits(c, f[c])
  <2> SUFFICES ASSUME NEW c \in D PROVE Fits(c, f[c])
    OBVIOUS
  <2>1. \E S : Fits(c, S)
    BY DEF Runs, Steady
  <2>2. f[c] = CHOOSE S : Fits(c, S)
    OBVIOUS
  <2> HIDE DEF Fits, f
  <2> QED
    BY <2>1, <2>2
<1>2. \A c \in D : IsProgram(body[c])
  BY DEF Runs, Steady
<1>3. \A L : IsProgram(w(L)) /\ w(L) # Nothing /\ Head(w(L)) = Each(L, body) /\ Tail(w(L)) = Nothing
  BY StepIsProgram
<1>m. /\ \A c \in D, L \in SUBSET D : Before(f[c], w(L)) \subseteq A
      /\ \A e \in A : \E c \in D, L \in SUBSET D : e \in Before(f[c], w(L))
  <2> HIDE DEF w, f, D
  <2> QED
    OBVIOUS
<1>n. /\ \A L \in SUBSET D, h \in M : cfg(L, h) \in B
      /\ \A e \in B : \E L \in SUBSET D, h \in M : e = cfg(L, h)
  <2> HIDE DEF cfg, w, f, D
  <2> QED
    OBVIOUS
<1>c. /\ \A h \in M : <<Nothing, FALSE, o, h>> \in C
      /\ \A e \in C : \E h \in M : e = <<Nothing, FALSE, o, h>>
  OBVIOUS
<1>a. ASSUME NEW c \in D, NEW L \in SUBSET D
      PROVE  /\ Before(f[c], w(L)) \subseteq A
             /\ \A e \in Before(f[c], w(L)) : IsConfiguration(e)
             /\ \A h \in M : <<body[c] \o w(L), FALSE, o, h>> \in A
  <2>2. Closed(j, f[c], o, M) /\ \A h \in M : <<body[c], FALSE, o, h>> \in f[c]
    BY <1>1
  <2> HIDE DEF f, w, A, D
  <2>1. Before(f[c], w(L)) \subseteq A
    BY <1>m
  <2>3. \A e \in Before(f[c], w(L)) : IsConfiguration(e)
    BY <2>2, BeforeMembers
  <2>4. \A h \in M : <<body[c] \o w(L), FALSE, o, h>> \in Before(f[c], w(L))
    BY <2>2, BeforeMembers
  <2> QED
    BY <2>1, <2>3, <2>4
<1>4. \A e \in T : IsConfiguration(e)
  <2>1. \A e \in A : IsConfiguration(e)
    <3> SUFFICES ASSUME NEW e \in A PROVE IsConfiguration(e)
      OBVIOUS
    <3> HIDE DEF f, w, A, D
    <3> PICK c \in D, L \in SUBSET D : e \in Before(f[c], w(L))
      BY <1>m
    <3> QED
      BY <1>a
  <2>2. \A e \in B : IsConfiguration(e)
    <3>1. \A L, h : IsConfiguration(cfg(L, h))
      BY DEF IsConfiguration
    <3> HIDE DEF cfg, w, B, D
    <3> QED
      BY <1>n, <3>1
  <2>3. \A e \in C : IsConfiguration(e)
    BY DEF IsConfiguration
  <2> HIDE DEF A, B, C
  <2> QED
    BY <2>1, <2>2, <2>3
<1>t. A \subseteq T /\ B \subseteq T /\ C \subseteq T /\ \A e \in T : e \in A \/ e \in B \/ e \in C
  <2> HIDE DEF A, B, C
  <2> QED
    OBVIOUS
<1>5. ASSUME NEW h \in M, NEW L \in SUBSET D PROVE Sound(j, T, o, M, w(L), FALSE, o, h)
  <2> DEFINE s == Each(L, body)
  <2>1. ASSUME NEW c \in L
        PROVE  IsProgram(body[c]) /\ <<body[c] \o w(L \ {c}) \o Nothing, FALSE, o, h>> \in T
    <3>1. <<body[c] \o w(L \ {c}), FALSE, o, h>> \in T
      <4>1. L \ {c} \in SUBSET D /\ c \in D
        OBVIOUS
      <4> HIDE DEF T, A, B, C, w, f, D
      <4> QED
        BY <1>a, <1>t, <4>1
    <3>2. IsProgram(body[c]) /\ IsProgram(w(L \ {c}))
      BY <1>2, <1>3
    <3> HIDE DEF T, w
    <3>3. IsProgram(body[c] \o w(L \ {c}))
      BY <3>2, ConcatPrograms
    <3>4. (body[c] \o w(L \ {c})) \o Nothing = body[c] \o w(L \ {c})
      BY <3>3, NothingIsProgram, ConcatPrograms
    <3> QED
      BY <3>1, <3>2, <3>4
  <2>2. <<Nothing, FALSE, o, h>> \in T
    <3> HIDE DEF T, A, B, C
    <3> QED
      BY <1>c, <1>t
  <2>3. Legal(j, s, o, h)
    BY DEF Legal, Touched, Each
  <2>4. \A o2, h2 : ~Does(s, o, h, o2, h2)
    BY DEF Does, Asks, Each
  <2>5. s.op = "each" /\ s.body = body /\ s.left = L
    BY DEF Each
  <2>6. h \in Views
    OBVIOUS
  <2>7. /\ IsProgram(w(L)) /\ w(L) # Nothing /\ Head(w(L)) = s /\ Tail(w(L)) = Nothing
    BY <1>3
  <2>a. s.left = {} => <<Nothing, FALSE, o, h>> \in T
    BY <2>2
  <2>b. \A c \in s.left : /\ IsProgram(s.body[c])
                         /\ <<s.body[c] \o <<Each(s.left \ {c}, s.body)>> \o Nothing,
                              FALSE, o, h>> \in T
    <3> HIDE DEF s, T
    <3> QED
      BY <2>1, <2>5
  <2> HIDE DEF s, w, T
  <2>9. Goes(j, T, w(L), FALSE, o, h)
    BY <2>a, <2>b, <2>2, <2>3, <2>4, <2>5, <2>7 DEF Goes
  <2> QED
    BY <2>6, <2>7, <2>9 DEF Sound
<1>6. ASSUME NEW y, NEW b, NEW g, NEW h, <<y, b, g, h>> \in A
      PROVE  Sound(j, T, o, M, y, b, g, h)
  <2> PICK c \in D, L \in SUBSET D : <<y, b, g, h>> \in Before(f[c], w(L))
    <3> HIDE DEF A, f, w, D
    <3> QED
      BY <1>6, <1>m
  <2>1. Closed(j, f[c], o, M) /\ IsProgram(w(L))
    BY <1>1, <1>3
  <2> HIDE DEF f, T, A, B, C, w, D
  <2>2. \A v \in M : Sound(j, T, o, M, w(L), FALSE, o, v)
    BY <1>5
  <2>3. Before(f[c], w(L)) \subseteq T
    BY <1>a, <1>t
  <2> QED
    BY <2>1, <2>2, <2>3, BeforeSound
<1>7. \A h \in M : Sound(j, T, o, M, Nothing, FALSE, o, h)
  BY NothingIsProgram DEF Sound
<1>8. ASSUME NEW y, NEW b, NEW g, NEW h, <<y, b, g, h>> \in T
      PROVE  Sound(j, T, o, M, y, b, g, h)
  <2>1. CASE <<y, b, g, h>> \in A
    BY <1>6, <2>1
  <2>2. CASE <<y, b, g, h>> \in B
    <3> HIDE DEF w, T, B, D
    <3>1. PICK L \in SUBSET D, v \in M : <<y, b, g, h>> = <<w(L), FALSE, o, v>>
      BY <1>n, <2>2
    <3>2. y = w(L) /\ b = FALSE /\ g = o /\ h = v
      BY <3>1
    <3> QED
      BY <1>5, <3>2
  <2>3. CASE <<y, b, g, h>> \in C
    <3>1. y = Nothing /\ b = FALSE /\ g = o /\ h \in M
      BY <2>3
    <3> HIDE DEF w, T
    <3> QED
      BY <1>7, <3>1
  <2> HIDE DEF T, A, B, C
  <2> QED
    BY <1>8, <1>t, <2>1, <2>2, <2>3
<1>9. \A h \in M : <<w(D), FALSE, o, h>> \in T
  <2> HIDE DEF T, A, B, C, w
  <2> QED
    BY <1>n, <1>t
<1>10. IsProgram(w(D)) /\ w(D) = ForCrates(body)
  BY <1>3 DEF ForCrates
<1> HIDE DEF w, T
<1>11. Closed(j, T, o, M)
  BY <1>4, <1>8 DEF Closed
<1> QED
  BY <1>9, <1>10, <1>11 DEF Runs, Steady

\* After a return nothing that follows is run.
LEMMA RunsReturn ==
  ASSUME NEW j, NEW o, NEW M \in SUBSET Views, NEW rest, NEW o2, NEW M2, NEW o3, NEW M3,
         Runs(j, o, M, rest, o2, M2), Done(j, o2)
  PROVE  Runs(j, o, M, Return(rest), o3, M3)
<1>1. PICK S : Closed(j, S, o2, M2) /\ \A h \in M : <<rest, FALSE, o, h>> \in S
  BY DEF Runs
<1> DEFINE s == [op |-> "return", rest |-> rest]
           w == Return(rest)
           A == {<<e[1], TRUE, e[3], e[4]>> : e \in S}
           B == {<<w, FALSE, o, h>> : h \in M}
           T == A \cup B
<1>2. IsProgram(w) /\ w # Nothing /\ Head(w) = s /\ Tail(w) = Nothing
  BY StepIsProgram DEF Return
<1>3. ASSUME NEW x, NEW b, NEW g, NEW v, <<x, b, g, v>> \in S PROVE <<x, TRUE, g, v>> \in T
  <2> DEFINE e == <<x, b, g, v>>
  <2>1. e[1] = x /\ e[2] = b /\ e[3] = g /\ e[4] = v
    OBVIOUS
  <2>2. <<x, TRUE, g, v>> = <<e[1], TRUE, e[3], e[4]>>
    BY <2>1
  <2>3. e \in S
    BY <1>3
  <2> HIDE DEF e
  <2>4. <<e[1], TRUE, e[3], e[4]>> \in A
    BY <2>3
  <2> QED
    BY <2>2, <2>4
<1>4. ASSUME NEW y, NEW b, NEW g, NEW h, <<y, b, g, h>> \in A
      PROVE  b = TRUE /\ \E c : <<y, c, g, h>> \in S
  <2> PICK e \in S : <<y, b, g, h>> = <<e[1], TRUE, e[3], e[4]>>
    BY <1>4
  <2> PICK x, c, i, v : e = <<x, c, i, v>>
    BY <1>1 DEF Closed, IsConfiguration
  <2>1. b = TRUE /\ y = x /\ g = i /\ h = v
    OBVIOUS
  <2> QED
    BY <2>1
<1>5. \A e \in T : IsConfiguration(e)
  BY DEF IsConfiguration
<1>6. ASSUME NEW h \in M PROVE Sound(j, T, o3, M3, w, FALSE, o, h)
  <2>1. <<rest, TRUE, o, h>> \in T
    BY <1>1, <1>3
  <2>3. Legal(j, s, o, h)
    BY DEF Legal, Touched
  <2>4. \A g, v : ~Does(s, o, h, g, v)
    BY DEF Does, Asks
  <2>5. s.op = "return" /\ s.rest = rest
    OBVIOUS
  <2>6. h \in Views
    OBVIOUS
  <2> HIDE DEF s, w, T
  <2>7. Goes(j, T, w, FALSE, o, h)
    BY <1>2, <2>1, <2>3, <2>4, <2>5 DEF Goes
  <2> QED
    BY <1>2, <2>6, <2>7 DEF Sound
<1>7. ASSUME NEW y, NEW b, NEW g, NEW h, <<y, b, g, h>> \in A
      PROVE  Sound(j, T, o3, M3, y, b, g, h)
  <2>1. b = TRUE
    BY <1>4, <1>7
  <2> PICK c : <<y, c, g, h>> \in S
    BY <1>4, <1>7
  <2> HIDE DEF T, A
  <2>2. Sound(j, S, o2, M2, y, c, g, h)
    BY <1>1 DEF Closed
  <2>3. y = Nothing => Done(j, g)
    BY <2>2 DEF Sound
  <2>4. y # Nothing => Goes(j, T, y, TRUE, g, h)
    <3> SUFFICES ASSUME y # Nothing PROVE Goes(j, T, y, TRUE, g, h)
      OBVIOUS
    <3>1. Goes(j, S, y, c, g, h)
      BY <2>2 DEF Sound
    <3>2. \A x, d, i, v : <<x, d, i, v>> \in S => <<x, TRUE, i, v>> \in T
      BY <1>3
    <3> QED
      BY <3>1, <3>2 DEF Goes
  <2> QED
    BY <2>1, <2>2, <2>3, <2>4 DEF Sound
<1>8. ASSUME NEW y, NEW b, NEW g, NEW h, <<y, b, g, h>> \in T
      PROVE  Sound(j, T, o3, M3, y, b, g, h)
  <2>1. CASE <<y, b, g, h>> \in A
    BY <1>7, <2>1
  <2>2. CASE <<y, b, g, h>> \in B
    <3>1. y = w /\ b = FALSE /\ g = o /\ h \in M
      BY <2>2
    <3> HIDE DEF w, T
    <3> QED
      BY <1>6, <3>1
  <2> QED
    BY <1>8, <2>1, <2>2
<1>9. \A h \in M : <<w, FALSE, o, h>> \in T
  OBVIOUS
<1> HIDE DEF w, T
<1>10. Closed(j, T, o3, M3)
  BY <1>5, <1>8 DEF Closed
<1> QED
  BY <1>2, <1>9, <1>10 DEF Runs, w

-----------------------------------------------------------------------------
(* The steps.                                                               *)

\* The SBC may be lost at any request to it.
Fragile(M) == \A h \in M : Lost(h) \in M

\* A request to a crate.
LEMMA RunsAccess ==
  ASSUME NEW j, NEW D, NEW L, NEW F, NEW M \in SUBSET Views, NEW c \in D, c # Sbc
  PROVE  Steady(j, Owns(D, {}, L, F), M, do_xl3_cmd(c))
<1> DEFINE s == [op |-> "access", on |-> {c}]
           o == Owns(D, {}, L, F)
<1>1. s.op = "access" /\ s.on = {c}
  OBVIOUS
<1>2. o.held = D /\ o.lent = {} /\ o.live = L /\ o.freed = F
  BY DEF Owns
<1> HIDE DEF s, o
<1>3. \A h \in M : Legal(j, s, o, h)
  BY <1>1, <1>2 DEF Legal, Touched
<1>4. \A h \in M : \A g, v : Does(s, o, h, g, v) => g = o /\ v \in M
  BY <1>1, <1>2 DEF Does, Asks
<1>5. Runs(j, o, M, <<s>>, o, M)
  BY <1>1, <1>3, <1>4, RunsStep
<1> QED
  BY <1>5 DEF Steady, do_xl3_cmd, s, o

\* A request to the MTC.
LEMMA RunsMtcAccess ==
  ASSUME NEW j, NEW D, NEW L, NEW F, NEW M \in SUBSET Views, Sbc \in D, Fragile(M)
  PROVE  Steady(j, Owns(D, {}, L, F), M, mtc_access)
<1> DEFINE s == [op |-> "access", on |-> {Sbc}]
           o == Owns(D, {}, L, F)
<1>1. s.op = "access" /\ s.on = {Sbc}
  OBVIOUS
<1>2. o.held = D /\ o.lent = {} /\ o.live = L /\ o.freed = F
  BY DEF Owns
<1> HIDE DEF s, o
<1>3. \A h \in M : Legal(j, s, o, h)
  BY <1>1, <1>2 DEF Legal, Touched
<1>4. \A h \in M : \A g, v : Does(s, o, h, g, v) => g = o /\ v \in M
  BY <1>1, <1>2 DEF Does, Asks, Fragile
<1>5. Runs(j, o, M, <<s>>, o, M)
  BY <1>1, <1>3, <1>4, RunsStep
<1> QED
  BY <1>5 DEF Steady, mtc_access, s, o

\* Soft GTs, with the right mask.
LEMMA RunsGt ==
  ASSUME NEW j, NEW D, NEW N, NEW L, NEW F, NEW M \in SUBSET Views, Sbc \in D, Fragile(M),
         \A h \in M : h.up /\ j.crates # {} /\ ~PennTeststand
                       => h.mtc.pmsk \subseteq j.crates \cup {Tub}
  PROVE  Steady(j, Owns(D, N, L, F), M, send_softgt)
<1> DEFINE s == [op |-> "gt"]
           o == Owns(D, N, L, F)
<1>1. s.op = "gt"
  OBVIOUS
<1>2. o.held = D /\ o.lent = N /\ o.live = L /\ o.freed = F
  BY DEF Owns
<1> HIDE DEF s, o
<1>3. \A h \in M : Legal(j, s, o, h)
  BY <1>1, <1>2 DEF Legal, Touched
<1>4. \A h \in M : \A g, v : Does(s, o, h, g, v) => g = o /\ v \in M
  BY <1>1, <1>2 DEF Does, Asks, Fragile
<1>5. Runs(j, o, M, <<s>>, o, M)
  BY <1>1, <1>3, <1>4, RunsStep
<1> QED
  BY <1>5 DEF Steady, send_softgt, s, o

\* change_mode.
LEMMA RunsMode ==
  ASSUME NEW j, NEW D, NEW L, NEW F, NEW M \in SUBSET Views, NEW c,
         c \in D \/ ~EndsFirst(j), NEW to \in {"INIT_MODE", "NORMAL_MODE"}
  PROVE  Steady(j, Owns(D, {}, L, F), M, change_mode(to, c))
<1> DEFINE s == [op |-> "mode", crate |-> c, to |-> to]
           o == Owns(D, {}, L, F)
<1>1. s.op = "mode" /\ s.crate = c /\ s.to = to
  OBVIOUS
<1>2. o.held = D /\ o.lent = {} /\ o.live = L /\ o.freed = F
  BY DEF Owns
<1> HIDE DEF s, o
<1>3. \A h \in M : Legal(j, s, o, h)
  BY <1>1, <1>2 DEF Legal, Touched
<1>4. \A h \in M : \A g, v : Does(s, o, h, g, v) => g = o /\ v \in M
  BY <1>1, <1>2 DEF Does, Asks
<1>5. Runs(j, o, M, <<s>>, o, M)
  BY <1>1, <1>3, <1>4, RunsStep
<1> QED
  BY <1>5 DEF Steady, change_mode, s, o

\* Buffers are used.
LEMMA RunsStore ==
  ASSUME NEW j, NEW D, NEW L, NEW F, NEW M \in SUBSET Views, NEW B,
         IF j.name \in Unchecked THEN B \cap F = {} ELSE B \subseteq L
  PROVE  Steady(j, Owns(D, {}, L, F), M, Store(B))
<1> DEFINE s == [op |-> "store", bufs |-> B]
           o == Owns(D, {}, L, F)
<1>1. s.op = "store" /\ s.bufs = B
  OBVIOUS
<1>2. o.held = D /\ o.lent = {} /\ o.live = L /\ o.freed = F
  BY DEF Owns
<1> HIDE DEF s, o
<1>3. \A h \in M : Legal(j, s, o, h)
  BY <1>1, <1>2 DEF Legal, Touched
<1>4. \A h \in M : \A g, v : Does(s, o, h, g, v) => g = o /\ v \in M
  BY <1>1, <1>2 DEF Does, Asks
<1>5. Runs(j, o, M, <<s>>, o, M)
  BY <1>1, <1>3, <1>4, RunsStep
<1> QED
  BY <1>5 DEF Steady, Store, s, o

\* malloc.
LEMMA RunsMalloc ==
  ASSUME NEW j, NEW D, NEW L, NEW F, NEW M \in SUBSET Views, NEW B
  PROVE  Runs(j, Owns(D, {}, L, F), M, malloc(B), Owns(D, {}, L \cup B, F \ B), M)
<1> DEFINE s == [op |-> "malloc", bufs |-> B]
           o == Owns(D, {}, L, F)
<1>1. s.op = "malloc" /\ s.bufs = B
  OBVIOUS
<1>2. o.held = D /\ o.lent = {} /\ o.live = L /\ o.freed = F
  BY DEF Owns
<1> HIDE DEF s, o
<1>3. \A h \in M : Legal(j, s, o, h)
  BY <1>1, <1>2 DEF Legal, Touched
<1>4. \A h \in M : \A g, v : Does(s, o, h, g, v) => g = Owns(D, {}, L \cup B, F \ B) /\ v \in M
  BY <1>1, <1>2 DEF Does, Asks
<1>5. Runs(j, o, M, <<s>>, Owns(D, {}, L \cup B, F \ B), M)
  BY <1>1, <1>3, <1>4, RunsStep
<1> QED
  BY <1>5 DEF Steady, malloc, s, o

\* free.
LEMMA RunsFreeing ==
  ASSUME NEW j, NEW D, NEW L, NEW F, NEW M \in SUBSET Views, NEW B, B \cap F = {}
  PROVE  Runs(j, Owns(D, {}, L, F), M, free(B), Owns(D, {}, L \ B, F \cup (L \cap B)), M)
<1> DEFINE s == [op |-> "free", bufs |-> B]
           o == Owns(D, {}, L, F)
<1>1. s.op = "free" /\ s.bufs = B
  OBVIOUS
<1>2. o.held = D /\ o.lent = {} /\ o.live = L /\ o.freed = F
  BY DEF Owns
<1> HIDE DEF s, o
<1>3. \A h \in M : Legal(j, s, o, h)
  BY <1>1, <1>2 DEF Legal, Touched
<1>4. \A h \in M : \A g, v : Does(s, o, h, g, v) => g = Owns(D, {}, L \ B, F \cup (L \cap B)) /\ v \in M
  BY <1>1, <1>2 DEF Does, Asks
<1>5. Runs(j, o, M, <<s>>, Owns(D, {}, L \ B, F \cup (L \cap B)), M)
  BY <1>1, <1>3, <1>4, RunsStep
<1> QED
  BY <1>5 DEF Steady, free, s, o

\* temp_unlock.
LEMMA RunsLend ==
  ASSUME NEW j, NEW D, NEW L, NEW F, NEW M \in SUBSET Views, NEW c \in D
  PROVE  Runs(j, Owns(D, {}, L, F), M, temp_unlock(c), Owns(D, {c}, L, F), M)
<1> DEFINE s == [op |-> "lend", crate |-> c]
           o == Owns(D, {}, L, F)
<1>1. s.op = "lend" /\ s.crate = c
  OBVIOUS
<1>2. o.held = D /\ o.lent = {} /\ o.live = L /\ o.freed = F
  BY DEF Owns
<1> HIDE DEF s, o
<1>6. Owns(o.held, o.lent \cup {s.crate}, o.live, o.freed) = Owns(D, {c}, L, F)
  BY <1>1, <1>2 DEF Owns
<1>3. \A h \in M : Legal(j, s, o, h)
  BY <1>1, <1>2 DEF Legal, Touched
<1>4. \A h \in M : \A g, v : Does(s, o, h, g, v) => g = Owns(D, {c}, L, F) /\ v \in M
  BY <1>1, <1>6 DEF Does, Asks
<1>5. Runs(j, o, M, <<s>>, Owns(D, {c}, L, F), M)
  BY <1>1, <1>3, <1>4, RunsStep
<1> QED
  BY <1>5 DEF Steady, temp_unlock, s, o

\* relock.
LEMMA RunsRelock ==
  ASSUME NEW j, NEW D, NEW L, NEW F, NEW M \in SUBSET Views, NEW c \in D
  PROVE  Runs(j, Owns(D, {c}, L, F), M, relock(c), Owns(D, {}, L, F), M)
<1> DEFINE s == [op |-> "relock", crate |-> c]
           o == Owns(D, {c}, L, F)
<1>1. s.op = "relock" /\ s.crate = c
  OBVIOUS
<1>2. o.held = D /\ o.lent = {c} /\ o.live = L /\ o.freed = F
  BY DEF Owns
<1> HIDE DEF s, o
<1>6. Owns(o.held, o.lent \ {s.crate}, o.live, o.freed) = Owns(D, {}, L, F)
  BY <1>1, <1>2 DEF Owns
<1>3. \A h \in M : Legal(j, s, o, h)
  BY <1>1, <1>2 DEF Legal, Touched
<1>4. \A h \in M : \A g, v : Does(s, o, h, g, v) => g = Owns(D, {}, L, F) /\ v \in M
  BY <1>1, <1>6 DEF Does, Asks
<1>5. Runs(j, o, M, <<s>>, Owns(D, {}, L, F), M)
  BY <1>1, <1>3, <1>4, RunsStep
<1> QED
  BY <1>5 DEF Steady, relock, s, o

\* unthread_and_unlock of all that was locked: the MTC is no longer its own.
LEMMA RunsEnd ==
  ASSUME NEW j, NEW D, NEW L, NEW F, NEW M \in SUBSET Views,
         Sbc \in D => \A h \in M : h.calm /\ j.name \notin LeavePulses => ~Pulsing(h.mtc),
         Sbc \notin D => M \subseteq {Away}
  PROVE  Runs(j, Owns(D, {}, L, F), M, unthread_and_unlock(D), Owns({}, {}, L, F), {Away})
<1> DEFINE s == [op |-> "end", on |-> D]
           o == Owns(D, {}, L, F)
<1>1. s.op = "end" /\ s.on = D
  OBVIOUS
<1>2. o.held = D /\ o.lent = {} /\ o.live = L /\ o.freed = F
  BY DEF Owns
<1> HIDE DEF s, o
<1>6. Owns(o.held \ s.on, o.lent \ s.on, o.live, o.freed) = Owns({}, {}, L, F)
  BY <1>1, <1>2 DEF Owns
<1>7. {Away} \in SUBSET Views
  BY DEF Away, Views, View, MtcStates
<1>3. \A h \in M : Legal(j, s, o, h)
  BY <1>1, <1>2 DEF Legal, Touched
<1>4. \A h \in M : \A g, v : Does(s, o, h, g, v) => g = Owns({}, {}, L, F) /\ v \in {Away}
  BY <1>1, <1>6 DEF Does, Asks
<1>5. Runs(j, o, M, <<s>>, Owns({}, {}, L, F), {Away})
  BY <1>1, <1>3, <1>4, <1>7, RunsStep
<1> QED
  BY <1>5 DEF Steady, unthread_and_unlock, s, o

-----------------------------------------------------------------------------
(* Composing: what leaves everything as it was.                             *)

LEMMA SteadySeq ==
  ASSUME NEW j, NEW o, NEW M, NEW p, NEW q, Steady(j, o, M, p), Steady(j, o, M, q)
  PROVE  Steady(j, o, M, p \o q)
  BY RunsSeq DEF Steady

LEMMA SteadyMaybe ==
  ASSUME NEW j, NEW o, NEW M \in SUBSET Views, NEW p, Steady(j, o, M, p)
  PROVE  Steady(j, o, M, Maybe(p))
<1>1. \A q \in {p, Nothing} : Runs(j, o, M, q, o, M)
  BY RunsNothing DEF Steady
<1>2. Runs(j, o, M, Choose({p, Nothing}), o, M)
  BY <1>1, RunsChoose
<1> QED
  BY <1>2 DEF Steady, Maybe

\* p ends with nothing left behind.
Ends(j, o, M, p) == \E o2, M2 : Runs(j, o, M, p, o2, M2) /\ Done(j, o2)

LEMMA SteadyMayFail ==
  ASSUME NEW j, NEW o, NEW M \in SUBSET Views, NEW p, Ends(j, o, M, p)
  PROVE  Steady(j, o, M, MayFail(p))
<1>1. Runs(j, o, M, Return(p), o, M)
  BY RunsReturn DEF Ends
<1>2. Steady(j, o, M, Maybe(Return(p)))
  BY <1>1, SteadyMaybe DEF Steady
<1> QED
  BY <1>2 DEF MayFail

-----------------------------------------------------------------------------
(* The MTC as it is seen.  While the SBC has been there since a calm start  *)
(* the MTC is in X; while it is there the pedestal mask is within K.        *)

W(X, K) ==
  {h \in Views : /\ h.calm => h.up /\ h.mtc \in X
                 /\ h.up /\ ~PennTeststand => h.mtc.pmsk \subseteq K}

Any   == MtcStates
Still == {m \in MtcStates : ~Pulsing(m)}
Soft  == {m \in MtcStates : m.pulser = {}}            \* only soft GTs
Off   == {m \in MtcStates : "PULSE_EN" \notin m.control}

LEMMA SeenViews ==
  ASSUME NEW X, NEW K
  PROVE  W(X, K) \in SUBSET Views /\ Fragile(W(X, K))
<1>1. \A h \in Views : Lost(h) \in Views /\ ~Lost(h).calm /\ ~Lost(h).up
  BY DEF Lost, View, Views
<1> QED
  BY <1>1 DEF W, Fragile

LEMMA SeenMono ==
  ASSUME NEW X, NEW K, NEW Y, NEW N, X \subseteq Y, K \subseteq N
  PROVE  W(X, K) \subseteq W(Y, N)
  BY DEF W

LEMMA StillStates == Soft \subseteq Still /\ Off \subseteq Still /\ Still \subseteq Any
  BY DEF Soft, Off, Still, Any, Pulsing

\* A register is read, changed and written back.
Changed(m, reg, off, on) == [m EXCEPT ![reg] = (@ \ off) \cup on]

LEMMA RunsRmw ==
  ASSUME NEW j, NEW D, NEW L, NEW F, NEW reg, NEW off, NEW on, Sbc \in D,
         NEW X, NEW K, NEW Y, NEW N,
         \A m \in MtcStates :
           /\ Changed(m, reg, off, on) \in MtcStates
           /\ m \in X => Changed(m, reg, off, on) \in Y
           /\ ~PennTeststand /\ m.pmsk \subseteq K => Changed(m, reg, off, on).pmsk \subseteq N
  PROVE  Runs(j, Owns(D, {}, L, F), W(X, K), Rmw(reg, off, on), Owns(D, {}, L, F), W(Y, N))
<1> DEFINE s == [op |-> "mtc", reg |-> reg, off |-> off, on |-> on]
           o == Owns(D, {}, L, F)
<1>1. s.op = "mtc" /\ s.reg = reg /\ s.off = off /\ s.on = on
  OBVIOUS
<1>2. o.held = D /\ o.lent = {} /\ o.live = L /\ o.freed = F
  BY DEF Owns
<1> HIDE DEF s, o
<1>3. \A h \in W(X, K) : Legal(j, s, o, h)
  BY <1>1, <1>2 DEF Legal, Touched
<1>4. ASSUME NEW h \in W(X, K), NEW g, NEW v, Does(s, o, h, g, v)
      PROVE  g = o /\ v \in W(Y, N)
  <2>1. h \in Views /\ h.up \in BOOLEAN /\ h.mtc \in MtcStates /\ h.calm \in BOOLEAN
    BY DEF W, Views
  <2>2. \A up \in BOOLEAN, m \in MtcStates, quiet \in BOOLEAN :
          /\ View(up, m, quiet) \in Views
          /\ View(up, m, quiet).up = up
          /\ View(up, m, quiet).mtc = m
          /\ View(up, m, quiet).calm = quiet
    BY DEF View, Views
  <2>3. \/ h.up /\ g = o /\ v = View(FALSE, h.mtc, FALSE)
        \/ h.up /\ g = o /\ v = View(TRUE, Changed(h.mtc, reg, off, on), h.calm)
        \/ ~h.up /\ g = o /\ v = View(FALSE, h.mtc, h.calm)
    BY <1>1, <1>4, <2>1 DEF Does, Asks, Changed, Lost
  <2>4. CASE g = o /\ v = View(FALSE, h.mtc, FALSE)
    BY <2>1, <2>2, <2>4 DEF W
  <2>5. CASE h.up /\ g = o /\ v = View(TRUE, Changed(h.mtc, reg, off, on), h.calm)
    <3> DEFINE n == Changed(h.mtc, reg, off, on)
    <3>1. n \in MtcStates /\ (h.mtc \in X => n \in Y)
          /\ (~PennTeststand /\ h.mtc.pmsk \subseteq K => n.pmsk \subseteq N)
      BY <2>1
    <3>2. (h.calm => h.mtc \in X) /\ (~PennTeststand => h.mtc.pmsk \subseteq K)
      BY <2>5 DEF W
    <3> HIDE DEF n
    <3>3. v \in Views /\ v.up = TRUE /\ v.mtc = n /\ v.calm = h.calm
      BY <2>1, <2>2, <2>5, <3>1 DEF n
    <3> QED
      BY <2>5, <3>1, <3>2, <3>3 DEF W
  <2>6. CASE ~h.up /\ g = o /\ v = View(FALSE, h.mtc, h.calm)
    <3>1. ~h.calm
      BY <2>6 DEF W
    <3> QED
      BY <2>1, <2>2, <2>6, <3>1 DEF W
  <2> QED
    BY <2>3, <2>4, <2>5, <2>6
<1>5. Runs(j, o, W(X, K), <<s>>, o, W(Y, N))
  BY <1>1, <1>3, <1>4, SeenViews, RunsStep
<1> QED
  BY <1>5 DEF Rmw, s, o

LEMMA ChangedControl ==
  ASSUME NEW m \in MtcStates, NEW off, NEW on \in SUBSET {"PULSE_EN", "PED_EN"}
  PROVE  LET n == Changed(m, "control", off, on)
         IN /\ n \in MtcStates
            /\ n.control = (m.control \ off) \cup on
            /\ n.pmsk = m.pmsk
            /\ n.pulser = m.pulser
  BY DEF Changed, MtcStates

LEMMA ChangedPmsk ==
  ASSUME NEW m \in MtcStates, NEW off, NEW on \in SUBSET MASKALL
  PROVE  LET n == Changed(m, "pmsk", off, on)
         IN /\ n \in MtcStates
            /\ n.control = m.control
            /\ n.pmsk = (m.pmsk \ off) \cup on
            /\ n.pulser = m.pulser
  BY DEF Changed, MtcStates

LEMMA ChangedPulser ==
  ASSUME NEW m \in MtcStates, NEW off, NEW on \in SUBSET {"free"}
  PROVE  LET n == Changed(m, "pulser", off, on)
         IN /\ n \in MtcStates
            /\ n.control = m.control
            /\ n.pmsk = m.pmsk
            /\ n.pulser = (m.pulser \ off) \cup on
  BY DEF Changed, MtcStates

\* What the functions of the MTC's registers do to what is seen of it.
LEMMA ControlChanges ==
  ASSUME NEW j, NEW D, NEW L, NEW F, Sbc \in D, NEW K
  PROVE  LET o == Owns(D, {}, L, F)
         IN /\ \A X \in {Any, Soft} : /\ Steady(j, o, W(X, K), enable_pulser)
                                    /\ Steady(j, o, W(X, K), enable_pedestal)
            /\ \A X \in {Any, Still, Soft, Off} : /\ Steady(j, o, W(X, K), disable_pulser)
                                                /\ Steady(j, o, W(X, K), disable_pedestal)
            /\ Runs(j, o, W(Any, K), disable_pulser, o, W(Off, K))
            /\ Runs(j, o, W(Any, K), Rmw("control", {"PULSE_EN", "PED_EN"}, {}), o, W(Off, K))
<1> DEFINE o == Owns(D, {}, L, F)
<1>1. ASSUME NEW X \in {Any, Soft}
      PROVE  Steady(j, o, W(X, K), enable_pulser) /\ Steady(j, o, W(X, K), enable_pedestal)
  <2>1. Runs(j, o, W(X, K), Rmw("control", {}, {"PULSE_EN"}), o, W(X, K))
    <3>1. \A m \in MtcStates :
            /\ Changed(m, "control", {}, {"PULSE_EN"}) \in MtcStates
            /\ m \in X => Changed(m, "control", {}, {"PULSE_EN"}) \in X
            /\ ~PennTeststand /\ m.pmsk \subseteq K => Changed(m, "control", {}, {"PULSE_EN"}).pmsk \subseteq K
      BY ChangedControl DEF Any, Still, Soft, Off, Pulsing
    <3> QED
      BY <3>1, RunsRmw
  <2>2. Runs(j, o, W(X, K), Rmw("control", {}, {"PED_EN"}), o, W(X, K))
    <3>1. \A m \in MtcStates :
            /\ Changed(m, "control", {}, {"PED_EN"}) \in MtcStates
            /\ m \in X => Changed(m, "control", {}, {"PED_EN"}) \in X
            /\ ~PennTeststand /\ m.pmsk \subseteq K => Changed(m, "control", {}, {"PED_EN"}).pmsk \subseteq K
      BY ChangedControl DEF Any, Still, Soft, Off, Pulsing
    <3> QED
      BY <3>1, RunsRmw
  <2> QED
    BY <2>1, <2>2 DEF enable_pulser, enable_pedestal, Steady
<1>2. ASSUME NEW X \in {Any, Still, Soft, Off}
      PROVE  Steady(j, o, W(X, K), disable_pulser) /\ Steady(j, o, W(X, K), disable_pedestal)
  <2>1. Runs(j, o, W(X, K), Rmw("control", {"PULSE_EN"}, {}), o, W(X, K))
    <3>1. \A m \in MtcStates :
            /\ Changed(m, "control", {"PULSE_EN"}, {}) \in MtcStates
            /\ m \in X => Changed(m, "control", {"PULSE_EN"}, {}) \in X
            /\ ~PennTeststand /\ m.pmsk \subseteq K => Changed(m, "control", {"PULSE_EN"}, {}).pmsk \subseteq K
      BY ChangedControl DEF Any, Still, Soft, Off, Pulsing
    <3> QED
      BY <3>1, RunsRmw
  <2>2. Runs(j, o, W(X, K), Rmw("control", {"PED_EN"}, {}), o, W(X, K))
    <3>1. \A m \in MtcStates :
            /\ Changed(m, "control", {"PED_EN"}, {}) \in MtcStates
            /\ m \in X => Changed(m, "control", {"PED_EN"}, {}) \in X
            /\ ~PennTeststand /\ m.pmsk \subseteq K => Changed(m, "control", {"PED_EN"}, {}).pmsk \subseteq K
      BY ChangedControl DEF Any, Still, Soft, Off, Pulsing
    <3> QED
      BY <3>1, RunsRmw
  <2> QED
    BY <2>1, <2>2 DEF disable_pulser, disable_pedestal, Steady
<1>3. Runs(j, o, W(Any, K), disable_pulser, o, W(Off, K))
  <2>1. Runs(j, o, W(Any, K), Rmw("control", {"PULSE_EN"}, {}), o, W(Off, K))
    <3>1. \A m \in MtcStates :
            /\ Changed(m, "control", {"PULSE_EN"}, {}) \in MtcStates
            /\ m \in Any => Changed(m, "control", {"PULSE_EN"}, {}) \in Off
            /\ ~PennTeststand /\ m.pmsk \subseteq K => Changed(m, "control", {"PULSE_EN"}, {}).pmsk \subseteq K
      BY ChangedControl DEF Any, Still, Soft, Off, Pulsing
    <3> QED
      BY <3>1, RunsRmw
  <2> QED
    BY <2>1 DEF disable_pulser
<1>4. Runs(j, o, W(Any, K), Rmw("control", {"PULSE_EN", "PED_EN"}, {}), o, W(Off, K))
  <2>1. Runs(j, o, W(Any, K), Rmw("control", {"PULSE_EN", "PED_EN"}, {}), o, W(Off, K))
    <3>1. \A m \in MtcStates :
            /\ Changed(m, "control", {"PULSE_EN", "PED_EN"}, {}) \in MtcStates
            /\ m \in Any => Changed(m, "control", {"PULSE_EN", "PED_EN"}, {}) \in Off
            /\ ~PennTeststand /\ m.pmsk \subseteq K => Changed(m, "control", {"PULSE_EN", "PED_EN"}, {}).pmsk \subseteq K
      BY ChangedControl DEF Any, Still, Soft, Off, Pulsing
    <3> QED
      BY <3>1, RunsRmw
  <2> QED
    BY <2>1
<1> QED
  BY <1>1, <1>2, <1>3, <1>4

LEMMA MaskChanges ==
  ASSUME NEW j, NEW D, NEW L, NEW F, Sbc \in D, NEW K
  PROVE  LET o == Owns(D, {}, L, F)
         IN /\ \A X \in {Any, Soft} :
                 Runs(j, o, W(X, K), unset_ped_crate_mask(MASKALL), o, W(X, {}))
            /\ Runs(j, o, W(Any, MASKALL), unset_ped_crate_mask(MASKALL), o, W(Still, {}))
            /\ \A X \in {Any, Soft}, C \in SUBSET MASKALL :
                 Runs(j, o, W(X, {}), set_ped_crate_mask(C), o, W(X, C))
<1> DEFINE o == Owns(D, {}, L, F)
<1>1. ASSUME NEW X \in {Any, Soft}
      PROVE  Runs(j, o, W(X, K), unset_ped_crate_mask(MASKALL), o, W(X, {}))
  <2>1. Runs(j, o, W(X, K), Rmw("pmsk", MASKALL, {}), o, W(X, {}))
    <3>1. \A m \in MtcStates :
            /\ Changed(m, "pmsk", MASKALL, {}) \in MtcStates
            /\ m \in X => Changed(m, "pmsk", MASKALL, {}) \in X
            /\ ~PennTeststand /\ m.pmsk \subseteq K => Changed(m, "pmsk", MASKALL, {}).pmsk \subseteq {}
      BY ChangedPmsk DEF MtcStates, Any, Still, Soft, Off, Pulsing
    <3> QED
      BY <3>1, RunsRmw
  <2> QED
    BY <2>1 DEF unset_ped_crate_mask
<1>2. Runs(j, o, W(Any, MASKALL), unset_ped_crate_mask(MASKALL), o, W(Still, {}))
  <2>1. Runs(j, o, W(Any, MASKALL), Rmw("pmsk", MASKALL, {}), o, W(Still, {}))
    <3>1. \A m \in MtcStates :
            /\ Changed(m, "pmsk", MASKALL, {}) \in MtcStates
            /\ m \in Any => Changed(m, "pmsk", MASKALL, {}) \in Still
            /\ ~PennTeststand /\ m.pmsk \subseteq MASKALL => Changed(m, "pmsk", MASKALL, {}).pmsk \subseteq {}
      BY ChangedPmsk DEF MtcStates, Any, Still, Soft, Off, Pulsing
    <3> QED
      BY <3>1, RunsRmw
  <2> QED
    BY <2>1 DEF unset_ped_crate_mask
<1>3. ASSUME NEW X \in {Any, Soft}, NEW C \in SUBSET MASKALL
      PROVE  Runs(j, o, W(X, {}), set_ped_crate_mask(C), o, W(X, C))
  <2> DEFINE on == IF PennTeststand THEN MASKALL ELSE C
  <2>0. on \in SUBSET MASKALL /\ (~PennTeststand => on = C)
    OBVIOUS
  <2> HIDE DEF on
  <2>1. Runs(j, o, W(X, {}), Rmw("pmsk", {}, on), o, W(X, C))
    <3>1. \A m \in MtcStates :
            /\ Changed(m, "pmsk", {}, on) \in MtcStates
            /\ m \in X => Changed(m, "pmsk", {}, on) \in X
            /\ ~PennTeststand /\ m.pmsk \subseteq {} => Changed(m, "pmsk", {}, on).pmsk \subseteq C
      BY <2>0, ChangedPmsk DEF Any, Still, Soft, Off, Pulsing
    <3> QED
      BY <3>1, RunsRmw
  <2> QED
    BY <2>1 DEF set_ped_crate_mask, on
<1> QED
  BY <1>1, <1>2, <1>3

LEMMA PulserChanges ==
  ASSUME NEW j, NEW D, NEW L, NEW F, Sbc \in D, NEW K
  PROVE  LET o == Owns(D, {}, L, F)
         IN /\ \A X \in {Any, Off} : /\ Steady(j, o, W(X, K), Rmw("pulser", {"free"}, {"free"}))
                                    /\ Steady(j, o, W(X, K), Rmw("pulser", {"free"}, {}))
            /\ Runs(j, o, W(Any, K), Rmw("pulser", {"free"}, {}), o, W(Soft, K))
<1> DEFINE o == Owns(D, {}, L, F)
<1>1. ASSUME NEW X \in {Any, Off}
      PROVE  /\ Steady(j, o, W(X, K), Rmw("pulser", {"free"}, {"free"}))
             /\ Steady(j, o, W(X, K), Rmw("pulser", {"free"}, {}))
  <2>1. Runs(j, o, W(X, K), Rmw("pulser", {"free"}, {"free"}), o, W(X, K))
    <3>1. \A m \in MtcStates :
            /\ Changed(m, "pulser", {"free"}, {"free"}) \in MtcStates
            /\ m \in X => Changed(m, "pulser", {"free"}, {"free"}) \in X
            /\ ~PennTeststand /\ m.pmsk \subseteq K => Changed(m, "pulser", {"free"}, {"free"}).pmsk \subseteq K
      BY ChangedPulser DEF Any, Still, Soft, Off, Pulsing
    <3> QED
      BY <3>1, RunsRmw
  <2>2. Runs(j, o, W(X, K), Rmw("pulser", {"free"}, {}), o, W(X, K))
    <3>1. \A m \in MtcStates :
            /\ Changed(m, "pulser", {"free"}, {}) \in MtcStates
            /\ m \in X => Changed(m, "pulser", {"free"}, {}) \in X
            /\ ~PennTeststand /\ m.pmsk \subseteq K => Changed(m, "pulser", {"free"}, {}).pmsk \subseteq K
      BY ChangedPulser DEF Any, Still, Soft, Off, Pulsing
    <3> QED
      BY <3>1, RunsRmw
  <2> QED
    BY <2>1, <2>2 DEF Steady
<1>2. Runs(j, o, W(Any, K), Rmw("pulser", {"free"}, {}), o, W(Soft, K))
  <2>1. Runs(j, o, W(Any, K), Rmw("pulser", {"free"}, {}), o, W(Soft, K))
    <3>1. \A m \in MtcStates :
            /\ Changed(m, "pulser", {"free"}, {}) \in MtcStates
            /\ m \in Any => Changed(m, "pulser", {"free"}, {}) \in Soft
            /\ ~PennTeststand /\ m.pmsk \subseteq K => Changed(m, "pulser", {"free"}, {}).pmsk \subseteq K
      BY ChangedPulser DEF MtcStates, Any, Still, Soft, Off, Pulsing
    <3> QED
      BY <3>1, RunsRmw
  <2> QED
    BY <2>1
<1> QED
  BY <1>1, <1>2

-----------------------------------------------------------------------------
(* The functions the commands are made of.                                  *)

LEMMA SteadyClosed ==
  ASSUME NEW j, NEW o, NEW M \in SUBSET Views
  PROVE  /\ Steady(j, o, M, Nothing)
         /\ \A p, q : Steady(j, o, M, p) /\ Steady(j, o, M, q) => Steady(j, o, M, p \o q)
         /\ \A p : Steady(j, o, M, p) => Steady(j, o, M, While(p)) /\ Steady(j, o, M, Maybe(p))
  BY SteadySeq, SteadyMaybe, RunsWhile, RunsNothing

\* Requests to a crate one has.
LEMMA CrateSteady ==
  ASSUME NEW j, NEW D, NEW L, NEW F, NEW M \in SUBSET Views, NEW c \in D, c # Sbc
  PROVE  LET o == Owns(D, {}, L, F)
         IN /\ Steady(j, o, M, do_xl3_cmd(c)) /\ Steady(j, o, M, do_xl3_cmd_no_response(c))
            /\ Steady(j, o, M, wait_for_results(c))
            /\ Steady(j, o, M, xl3_rw(c)) /\ Steady(j, o, M, xl3_rws(c))
            /\ Steady(j, o, M, deselect_fecs(c)) /\ Steady(j, o, M, update_crate_config(c))
            /\ Steady(j, o, M, get_cmos_total_count(c))
            /\ Steady(j, o, M, multi_loadsDac(c)) /\ Steady(j, o, M, loadsDac(c))
            /\ Steady(j, o, M, fec_load_crate_addr(c)) /\ Steady(j, o, M, reset_slots(c))
            /\ \A x : Steady(j, o, M, set_crate_pedestals(c, x))
            /\ Steady(j, o, M, change_mode("INIT_MODE", c))
            /\ Steady(j, o, M, change_mode("NORMAL_MODE", c))
            /\ Steady(j, o, M, StartPedestals(c)) /\ Steady(j, o, M, ReadOut(c))
            /\ Steady(j, o, M, setup_chinj(c)) /\ Steady(j, o, M, check_fifo(c))
            /\ Steady(j, o, M, Documents(c)) /\ Steady(j, o, M, Document(c))
            /\ \A b : (IF j.name \in Unchecked THEN b \notin F ELSE b \in L)
                      => Steady(j, o, M, read_out_bundles(c, b))
<1> DEFINE o == Owns(D, {}, L, F)
           St(p) == Steady(j, o, M, p)
<1>1. St(do_xl3_cmd(c))
  BY RunsAccess
<1>2. St(change_mode("INIT_MODE", c)) /\ St(change_mode("NORMAL_MODE", c))
  BY RunsMode
<1>3. \A b : (IF j.name \in Unchecked THEN b \notin F ELSE b \in L) => St(Store({b}))
  <2> SUFFICES ASSUME NEW b, IF j.name \in Unchecked THEN b \notin F ELSE b \in L
               PROVE  St(Store({b}))
    OBVIOUS
  <2>1. IF j.name \in Unchecked THEN {b} \cap F = {} ELSE {b} \subseteq L
    OBVIOUS
  <2> QED
    BY <2>1, RunsStore
<1>4. /\ \A p, q : St(p) /\ St(q) => St(p \o q)
      /\ \A p : St(p) => St(While(p)) /\ St(Maybe(p))
  BY SteadyClosed
<1> HIDE DEF St
<1>5. /\ St(do_xl3_cmd_no_response(c)) /\ St(wait_for_results(c))
      /\ St(xl3_rw(c)) /\ St(xl3_rws(c)) /\ St(deselect_fecs(c)) /\ St(update_crate_config(c))
      /\ St(multi_loadsDac(c)) /\ St(loadsDac(c)) /\ St(check_fifo(c))
      /\ \A x : St(set_crate_pedestals(c, x))
  BY <1>1 DEF do_xl3_cmd_no_response, wait_for_results, xl3_rw, xl3_rws, deselect_fecs,
       update_crate_config, multi_loadsDac, loadsDac, check_fifo, set_crate_pedestals
<1>6. St(get_cmos_total_count(c)) /\ St(fec_load_crate_addr(c)) /\ St(reset_slots(c))
  BY <1>1, <1>4, <1>5 DEF get_cmos_total_count, fec_load_crate_addr, reset_slots
<1>7. St(StartPedestals(c))
  BY <1>2, <1>4, <1>5, <1>6 DEF StartPedestals
<1>8. St(ReadOut(c))
  BY <1>2 DEF ReadOut
<1>9. St(setup_chinj(c))
  BY <1>4, <1>5 DEF setup_chinj
<1>10. St(Documents(c)) /\ St(Document(c))
  BY <1>4, <1>5 DEF Documents, Document, post_debug_doc
<1>11. \A b : (IF j.name \in Unchecked THEN b \notin F ELSE b \in L) => St(read_out_bundles(c, b))
  BY <1>1, <1>3, <1>4, <1>5 DEF read_out_bundles
<1> QED
  BY <1>1, <1>2, <1>5, <1>6, <1>7, <1>8, <1>9, <1>10, <1>11 DEF St

\* Requests to the MTC.
LEMMA MtcSteady ==
  ASSUME NEW j, NEW D, NEW L, NEW F, NEW M \in SUBSET Views, Sbc \in D, Fragile(M)
  PROVE  LET o == Owns(D, {}, L, F)
         IN /\ Steady(j, o, M, mtc_access) /\ Steady(j, o, M, get_gt_count)
            /\ Steady(j, o, M, load_mtca_dacs)
            /\ Steady(j, o, M, unset_gt_mask) /\ Steady(j, o, M, set_gt_mask)
            /\ Steady(j, o, M, unset_gt_crate_mask) /\ Steady(j, o, M, set_gt_crate_mask)
            /\ Steady(j, o, M, reset_memory) /\ Steady(j, o, M, set_gt_counter)
            /\ Steady(j, o, M, set_fine_delay) /\ Steady(j, o, M, set_gt_delay)
            /\ \A x, p : Steady(j, o, M, p) \/ x # "bad" =>
                 /\ Steady(j, o, M, set_lockout_width(x, p))
                 /\ Steady(j, o, M, set_prescale(x, p))
                 /\ Steady(j, o, M, set_pedestal_width(x, p))
                 /\ Steady(j, o, M, set_coarse_delay(x, p))
<1> DEFINE o == Owns(D, {}, L, F)
           St(p) == Steady(j, o, M, p)
<1>1. St(mtc_access)
  BY RunsMtcAccess
<1>2. /\ St(Nothing)
      /\ \A p, q : St(p) /\ St(q) => St(p \o q)
      /\ \A p : St(p) => St(While(p)) /\ St(Maybe(p))
  BY SteadyClosed
<1> HIDE DEF St
<1>3. /\ St(get_gt_count) /\ St(load_mtca_dacs) /\ St(unset_gt_mask) /\ St(set_gt_mask)
      /\ St(unset_gt_crate_mask) /\ St(set_gt_crate_mask) /\ St(reset_memory)
      /\ St(set_gt_counter)
  BY <1>1 DEF get_gt_count, load_mtca_dacs, unset_gt_mask, set_gt_mask, unset_gt_crate_mask,
       set_gt_crate_mask, reset_memory, set_gt_counter
<1>4. \A x, p : St(p) \/ x # "bad" => /\ St(set_lockout_width(x, p)) /\ St(set_prescale(x, p))
                                      /\ St(set_pedestal_width(x, p)) /\ St(set_coarse_delay(x, p))
  BY <1>1 DEF set_lockout_width, set_prescale, set_pedestal_width, set_coarse_delay, Checked
<1>5. St(set_fine_delay)
  BY <1>1, <1>2 DEF set_fine_delay
<1>6. St(set_gt_delay)
  BY <1>2, <1>4, <1>5 DEF set_gt_delay
<1> QED
  BY <1>1, <1>3, <1>4, <1>5, <1>6 DEF St

LEMMA RunsThen ==
  ASSUME NEW j, NEW o, NEW M, NEW p, NEW o2, NEW M2, NEW q,
         Runs(j, o, M, p, o2, M2), Ends(j, o2, M2, q)
  PROVE  Ends(j, o, M, p \o q)
<1>1. PICK o3, M3 : Runs(j, o2, M2, q, o3, M3) /\ Done(j, o3)
  BY DEF Ends
<1>2. Runs(j, o, M, p \o q, o3, M3)
  BY <1>1, RunsSeq
<1> QED
  BY <1>1, <1>2 DEF Ends

LEMMA SteadyThen ==
  ASSUME NEW j, NEW o, NEW M, NEW p, NEW q, Steady(j, o, M, p), Ends(j, o, M, q)
  PROVE  Ends(j, o, M, p \o q)
  BY RunsThen DEF Steady

LEMMA EndsWeaker ==
  ASSUME NEW j, NEW o, NEW M, NEW p, NEW N, Ends(j, o, M, p), N \subseteq M
  PROVE  Ends(j, o, N, p)
<1>1. PICK o3, M3 : Runs(j, o, M, p, o3, M3) /\ Done(j, o3)
  BY DEF Ends
<1>2. Runs(j, o, N, p, o3, M3)
  BY <1>1, RunsWeaker
<1> QED
  BY <1>1, <1>2 DEF Ends

\* The last words of a thread that has no buffers left.
LEMMA ExitEnds ==
  ASSUME NEW j, NEW D, NEW L, NEW F, L = {} \/ j.name \in Leaky
  PROVE  LET o == Owns(D, {}, L, F)
         IN /\ Sbc \in D => \A X, K : (X \subseteq Still \/ j.name \in LeavePulses) =>
                              Ends(j, o, W(X, K), unthread_and_unlock(D))
            /\ Sbc \notin D => Ends(j, o, {Away}, unthread_and_unlock(D))
<1> DEFINE o == Owns(D, {}, L, F)
<1>1. Done(j, Owns({}, {}, L, F))
  BY DEF Done, Owns
<1>2. ASSUME Sbc \in D, NEW X, NEW K, X \subseteq Still \/ j.name \in LeavePulses
      PROVE  Ends(j, o, W(X, K), unthread_and_unlock(D))
  <2>1. \A h \in W(X, K) : h.calm /\ j.name \notin LeavePulses => ~Pulsing(h.mtc)
    BY <1>2 DEF W, Still
  <2>2. W(X, K) \in SUBSET Views
    BY SeenViews
  <2>3. Runs(j, o, W(X, K), unthread_and_unlock(D), Owns({}, {}, L, F), {Away})
    BY <1>2, <2>1, <2>2, RunsEnd
  <2> QED
    BY <1>1, <2>3 DEF Ends
<1>3. ASSUME Sbc \notin D
      PROVE  Ends(j, o, {Away}, unthread_and_unlock(D))
  <2>1. {Away} \in SUBSET Views
    BY DEF Away, Views, View, MtcStates
  <2>2. Runs(j, o, {Away}, unthread_and_unlock(D), Owns({}, {}, L, F), {Away})
    BY <1>3, <2>1, RunsEnd
  <2> QED
    BY <1>1, <2>2 DEF Ends
<1> QED
  BY <1>2, <1>3

\* setup_pedestals, for what its caller does after a failure.
LEMMA PedestalsSet ==
  ASSUME NEW j, NEW D, NEW L, NEW F, NEW freqs \in SUBSET {"soft", "free", "bad"},
         NEW widths \in SUBSET {"ok", "bad"}, NEW ped \in SUBSET MASKALL, NEW failed,
         Sbc \in D,
         "bad" \in freqs \cup widths => Ends(j, Owns(D, {}, L, F), W(Any, MASKALL), failed)
  PROVE  LET o == Owns(D, {}, L, F)
             p == setup_pedestals(freqs, widths, ped, failed)
         IN /\ Runs(j, o, W(Any, MASKALL), p, o, W(Any, ped))
            /\ freqs \subseteq {"soft", "bad"} => Runs(j, o, W(Any, MASKALL), p, o, W(Soft, ped))
<1> DEFINE o == Owns(D, {}, L, F)
           Freq  == Choose({set_pulser_frequency(f, Return(failed)) : f \in freqs})
           Width == Choose({set_pedestal_width(w, Return(failed)) : w \in widths})
           Delay == Choose({set_coarse_delay(w, Return(failed)) : w \in widths})
           p == setup_pedestals(freqs, widths, ped, failed)
<1>1. \A X, K : W(X, K) \in SUBSET Views /\ Fragile(W(X, K))
  BY SeenViews
<1>2. ASSUME "bad" \in freqs \cup widths, NEW X \in {Any, Soft}, NEW Y
      PROVE  Runs(j, o, W(X, MASKALL), Return(failed), o, W(Y, MASKALL))
  <2>1. W(X, MASKALL) \subseteq W(Any, MASKALL)
    BY SeenMono DEF Any, Soft
  <2>2. Ends(j, o, W(X, MASKALL), failed)
    BY <1>2, <2>1, EndsWeaker
  <2> HIDE DEF o
  <2> QED
    BY <1>1, <2>2, RunsReturn DEF Ends
<1>3. ASSUME NEW X \in {Any, Soft}
      PROVE  /\ Steady(j, o, W(X, MASKALL), Width) /\ Steady(j, o, W(X, MASKALL), Delay)
  <2>1. \A w \in widths : w = "bad" => Steady(j, o, W(X, MASKALL), Return(failed))
    BY <1>2 DEF Steady
  <2>2. \A w \in widths : /\ Steady(j, o, W(X, MASKALL), set_pedestal_width(w, Return(failed)))
                          /\ Steady(j, o, W(X, MASKALL), set_coarse_delay(w, Return(failed)))
    BY <1>1, <2>1, MtcSteady
  <2>3. /\ \A q \in {set_pedestal_width(w, Return(failed)) : w \in widths} :
             Runs(j, o, W(X, MASKALL), q, o, W(X, MASKALL))
        /\ \A q \in {set_coarse_delay(w, Return(failed)) : w \in widths} :
             Runs(j, o, W(X, MASKALL), q, o, W(X, MASKALL))
    BY <2>2 DEF Steady
  <2> HIDE DEF o
  <2> QED
    BY <1>1, <2>3, RunsChoose DEF Steady
<1>4. ASSUME NEW X \in {Any, Soft}, X = Any \/ freqs \subseteq {"soft", "bad"}
      PROVE  Runs(j, o, W(Any, MASKALL), Freq, o, W(X, MASKALL))
  <2>1. ASSUME NEW f \in freqs
        PROVE  Runs(j, o, W(Any, MASKALL), set_pulser_frequency(f, Return(failed)), o, W(X, MASKALL))
    <3>1. CASE f = "bad"
      BY <1>2, <3>1 DEF set_pulser_frequency
    <3>2. CASE f = "soft"
      <4>1. Runs(j, o, W(Any, MASKALL), Rmw("pulser", {"free"}, {}), o, W(Soft, MASKALL))
        BY PulserChanges
      <4>2. W(Soft, MASKALL) \subseteq W(X, MASKALL)
        BY SeenMono DEF Any, Soft
      <4>3. Runs(j, o, W(Any, MASKALL), Rmw("pulser", {"free"}, {}), o, W(X, MASKALL))
        BY <4>1, <4>2, RunsWeaker
      <4> QED
        BY <3>2, <4>3 DEF set_pulser_frequency
    <3>3. CASE f = "free"
      <4>1. Runs(j, o, W(Any, MASKALL), Rmw("pulser", {"free"}, {"free"}), o, W(Any, MASKALL))
        BY PulserChanges DEF Steady
      <4>2. X = Any
        BY <1>4, <3>3
      <4> QED
        BY <3>3, <4>1, <4>2 DEF set_pulser_frequency
    <3> QED
      BY <3>1, <3>2, <3>3
  <2>2. \A q \in {set_pulser_frequency(f, Return(failed)) : f \in freqs} :
          Runs(j, o, W(Any, MASKALL), q, o, W(X, MASKALL))
    BY <2>1
  <2> HIDE DEF o
  <2> QED
    BY <1>1, <2>2, RunsChoose
<1>5. ASSUME NEW X \in {Any, Soft}, X = Any \/ freqs \subseteq {"soft", "bad"}
      PROVE  Runs(j, o, W(Any, MASKALL), p, o, W(X, ped))
  <2>1. /\ Runs(j, o, W(Any, MASKALL), set_lockout_width("ok", Nothing), o, W(Any, MASKALL))
        /\ Runs(j, o, W(X, MASKALL), set_fine_delay, o, W(X, MASKALL))
        /\ Runs(j, o, W(X, {}), unset_gt_crate_mask, o, W(X, {}))
        /\ Runs(j, o, W(X, ped), set_gt_crate_mask, o, W(X, ped))
        /\ Runs(j, o, W(X, ped), set_gt_mask, o, W(X, ped))
    BY <1>1, MtcSteady DEF Steady
  <2>2. /\ Runs(j, o, W(X, MASKALL), enable_pulser, o, W(X, MASKALL))
        /\ Runs(j, o, W(X, MASKALL), enable_pedestal, o, W(X, MASKALL))
    BY ControlChanges DEF Steady
  <2>3. /\ Runs(j, o, W(X, MASKALL), unset_ped_crate_mask(MASKALL), o, W(X, {}))
        /\ Runs(j, o, W(X, {}), set_ped_crate_mask(ped), o, W(X, ped))
    BY MaskChanges
  <2>4. /\ Runs(j, o, W(Any, MASKALL), Freq, o, W(X, MASKALL))
        /\ Runs(j, o, W(X, MASKALL), Width, o, W(X, MASKALL))
        /\ Runs(j, o, W(X, MASKALL), Delay, o, W(X, MASKALL))
    BY <1>3, <1>4, <1>5 DEF Steady
  <2> HIDE DEF o, Freq, Width, Delay
  <2>5. Runs(j, o, W(Any, MASKALL), set_lockout_width("ok", Nothing) \o Freq \o Width \o Delay,
             o, W(X, MASKALL))
    BY <2>1, <2>4, RunsSeq
  <2>6. Runs(j, o, W(Any, MASKALL), set_lockout_width("ok", Nothing) \o Freq \o Width \o Delay
             \o set_fine_delay \o enable_pulser \o enable_pedestal
             \o unset_ped_crate_mask(MASKALL), o, W(X, {}))
    BY <2>1, <2>2, <2>3, <2>5, RunsSeq
  <2>7. Runs(j, o, W(Any, MASKALL), set_lockout_width("ok", Nothing) \o Freq \o Width \o Delay
             \o set_fine_delay \o enable_pulser \o enable_pedestal
             \o unset_ped_crate_mask(MASKALL) \o unset_gt_crate_mask
             \o set_ped_crate_mask(ped) \o set_gt_crate_mask \o set_gt_mask, o, W(X, ped))
    BY <2>1, <2>3, <2>6, RunsSeq
  <2> QED
    BY <2>7 DEF setup_pedestals, Freq, Width, Delay
<1> QED
  BY <1>5

LEMMA SoftPedestalsSet ==
  ASSUME NEW j, NEW D, NEW L, NEW F, NEW ped \in SUBSET MASKALL, Sbc \in D
  PROVE  LET o == Owns(D, {}, L, F)
         IN Runs(j, o, W(Any, MASKALL), setup_softgt_pedestals(ped), o, W(Soft, ped))
  BY PedestalsSet DEF setup_softgt_pedestals

\* unset_masks, which no pulses survive.
LEMMA MasksUnset ==
  ASSUME NEW j, NEW D, NEW L, NEW F, NEW X \in {Any, Still, Soft, Off}, NEW K \in SUBSET MASKALL,
         Sbc \in D
  PROVE  LET o == Owns(D, {}, L, F)
         IN Runs(j, o, W(X, K), unset_masks, o, W(Still, {}))
<1> DEFINE o == Owns(D, {}, L, F)
<1>1. W(X, K) \subseteq W(Any, MASKALL)
  BY SeenMono DEF Any, Still, Soft, Off
<1>2. Runs(j, o, W(Any, MASKALL), unset_ped_crate_mask(MASKALL), o, W(Still, {}))
  BY MaskChanges
<1>3. Runs(j, o, W(X, K), unset_ped_crate_mask(MASKALL), o, W(Still, {}))
  BY <1>1, <1>2, RunsWeaker
<1>4. Runs(j, o, W(Still, {}), unset_gt_crate_mask, o, W(Still, {}))
  BY SeenViews, MtcSteady DEF Steady
<1>5. Runs(j, o, W(X, K), unset_masks, o, W(Still, {}))
  <2> HIDE DEF o
  <2> QED
    BY <1>3, <1>4, RunsSeq DEF unset_masks
<1> QED
  BY <1>5

\* malloc_or, for what is done when one of the buffers cannot be had.
LEMMA RunsMallocOr ==
  ASSUME NEW j, NEW D, NEW L, NEW F, NEW M \in SUBSET Views, NEW B, NEW failed,
         \A b \in B : Ends(j, Owns(D, {}, L \cup (B \ {b}), F \ (B \ {b})), M, failed)
  PROVE  Runs(j, Owns(D, {}, L, F), M, malloc_or(B, failed), Owns(D, {}, L \cup B, F \ B), M)
<1> DEFINE o == Owns(D, {}, L, F)
           o2 == Owns(D, {}, L \cup B, F \ B)
           part(b) == malloc(B \ {b}) \o Return(failed)
<1>1. Runs(j, o, M, malloc(B), o2, M)
  BY RunsMalloc
<1>2. ASSUME NEW b \in B PROVE Runs(j, o, M, part(b), o2, M)
  <2> DEFINE g == Owns(D, {}, L \cup (B \ {b}), F \ (B \ {b}))
  <2>1. Runs(j, o, M, malloc(B \ {b}), g, M)
    BY RunsMalloc
  <2>2. Ends(j, g, M, failed)
    OBVIOUS
  <2> HIDE DEF g, o2, o
  <2>3. Runs(j, g, M, Return(failed), o2, M)
    BY <2>2, RunsReturn DEF Ends
  <2> QED
    BY <2>1, <2>3, RunsSeq
<1> HIDE DEF part, o, o2
<1>3. \A q \in {malloc(B)} \cup {part(b) : b \in B} : Runs(j, o, M, q, o2, M)
  BY <1>1, <1>2
<1>4. Runs(j, o, M, Choose({malloc(B)} \cup {part(b) : b \in B}), o2, M)
  BY <1>3, RunsChoose
<1> QED
  BY <1>4 DEF malloc_or, part, o, o2

\* malloc_unchecked: the rest of the thread runs with whatever could be had.
LEMMA UncheckedEnds ==
  ASSUME NEW j, NEW D, NEW L, NEW F, NEW M \in SUBSET Views, NEW B, NEW p,
         \A A \in SUBSET B : Ends(j, Owns(D, {}, L \cup A, F \ A), M, p)
  PROVE  Ends(j, Owns(D, {}, L, F), M, malloc_unchecked(B, p))
<1> DEFINE o == Owns(D, {}, L, F)
           o2 == Owns({}, {}, {}, {})
           part(A) == malloc(A) \o Return(p)
<1>1. ASSUME NEW A \in SUBSET B PROVE Runs(j, o, M, part(A), o2, M)
  <2> DEFINE g == Owns(D, {}, L \cup A, F \ A)
  <2>1. Runs(j, o, M, malloc(A), g, M)
    BY RunsMalloc
  <2>2. Ends(j, g, M, p)
    OBVIOUS
  <2> HIDE DEF g, o2, o
  <2>3. Runs(j, g, M, Return(p), o2, M)
    BY <2>2, RunsReturn DEF Ends
  <2> QED
    BY <2>1, <2>3, RunsSeq
<1>2. Done(j, o2)
  BY DEF Done, Owns
<1> HIDE DEF part, o, o2
<1>3. \A q \in {part(A) : A \in SUBSET B} : Runs(j, o, M, q, o2, M)
  BY <1>1
<1>4. Runs(j, o, M, Choose({part(A) : A \in SUBSET B}), o2, M)
  BY <1>3, RunsChoose
<1>5. Ends(j, o, M, Choose({part(A) : A \in SUBSET B}))
  BY <1>2, <1>4 DEF Ends
<1> QED
  BY <1>5 DEF malloc_unchecked, part, o

-----------------------------------------------------------------------------
(* The commands.                                                            *)

\* What a thread sees of the MTC when its handler has started it.
Begin(D, force) ==
  IF Sbc \notin D THEN {Away}
  ELSE IF force THEN {h \in Views : h.calm => ~Pulsing(h.mtc)}
  ELSE W(Still, MASKALL)

\* The handler H may start a thread for job j.
Safe(j, H) ==
  /\ H.devs \subseteq Devices
  /\ Ends(j, Owns(H.devs, {}, {}, {}), Begin(H.devs, H.force), H.program)

LEMMA HandlerSafe ==
  ASSUME NEW j, NEW D \in SUBSET Devices, NEW p,
         Ends(j, Owns(D, {}, {}, {}), IF Sbc \in D THEN W(Still, MASKALL) ELSE {Away}, p)
  PROVE  Safe(j, Handler(D, p))
<1>1. /\ Handler(D, p).devs = D /\ Handler(D, p).program = p
      /\ Handler(D, p).force = FALSE
  BY DEF Handler
<1>2. Begin(D, FALSE) = IF Sbc \in D THEN W(Still, MASKALL) ELSE {Away}
  BY DEF Begin
<1> HIDE DEF Handler
<1> QED
  BY <1>1, <1>2 DEF Safe

LEMMA MtcCommandSafe ==
  ASSUME NEW j, NEW p, NEW X, NEW K, NEW F, X \subseteq Still \/ j.name \in LeavePulses,
         Runs(j, Owns({Sbc}, {}, {}, {}), W(Still, MASKALL), p, Owns({Sbc}, {}, {}, F), W(X, K))
  PROVE  Safe(j, MtcCommand(p))
<1> DEFINE o == Owns({Sbc}, {}, {}, {})
           o2 == Owns({Sbc}, {}, {}, F)
<1>1. Ends(j, o2, W(X, K), unthread_and_unlock({Sbc}))
  BY ExitEnds
<1>2. Runs(j, o, W(Still, MASKALL), p, o2, W(X, K))
  OBVIOUS
<1>3. Ends(j, o, W(Still, MASKALL), p \o unthread_and_unlock({Sbc}))
  <2> HIDE DEF o, o2
  <2> QED
    BY <1>1, <1>2, RunsThen
<1>4. {Sbc} \in SUBSET Devices /\ Sbc \in {Sbc}
  BY DEF Devices
<1> QED
  BY <1>3, <1>4, HandlerSafe DEF MtcCommand

LEMMA CrateFacts ==
  ASSUME NEW c \in Crates
  PROVE  c # Sbc /\ {c} \in SUBSET Devices /\ {Sbc, c} \in SUBSET Devices /\ Sbc \notin {c}
         /\ {c, Tub} \in SUBSET MASKALL /\ {c} \in SUBSET MASKALL /\ {Away} \in SUBSET Views
<1>1. {Away} \in SUBSET Views
  BY DEF Away, Views, View, MtcStates
<1>2. c # 0
  BY StepsConstantsOK DEF Crates
<1> QED
  BY <1>1, <1>2 DEF Sbc, Devices, MASKALL

LEMMA Xl3CommandSafe ==
  ASSUME NEW j, NEW c \in Crates, NEW p, NEW L, NEW F, L = {} \/ j.name \in Leaky,
         Runs(j, Owns({c}, {}, {}, {}), {Away}, p, Owns({c}, {}, L, F), {Away})
  PROVE  Safe(j, Xl3Command(c, p))
<1> DEFINE o == Owns({c}, {}, {}, {})
           o2 == Owns({c}, {}, L, F)
<1>1. Ends(j, o2, {Away}, unthread_and_unlock({c}))
  BY CrateFacts, ExitEnds
<1>0. Runs(j, o, {Away}, p, o2, {Away})
  OBVIOUS
<1>2. Ends(j, o, {Away}, p \o unthread_and_unlock({c}))
  <2> HIDE DEF o, o2
  <2> QED
    BY <1>0, <1>1, RunsThen
<1> QED
  BY <1>2, CrateFacts, HandlerSafe DEF Xl3Command

\* Commands to one crate.
LEMMA CrateCommandsSafe ==
  ASSUME NEW j, NEW c \in Crates
  PROVE  /\ Safe(j, xrw(c)) /\ Safe(j, frw(c)) /\ Safe(j, sm_reset(c))
         /\ Safe(j, cmd_xl3_rw(c)) /\ Safe(j, xl3_queue_rw(c)) /\ Safe(j, debugging_mode(c))
         /\ Safe(j, read_local_voltage(c)) /\ Safe(j, hv_readback(c))
         /\ Safe(j, set_alarm_dac(c)) /\ Safe(j, cmd_change_mode(c)) /\ Safe(j, read_bundle(c))
         /\ Safe(j, cmd_load_dac(c)) /\ Safe(j, cmd_setup_chinj(c)) /\ Safe(j, crate_init(c))
         /\ Safe(j, fec_test(c)) /\ Safe(j, mem_test(c)) /\ Safe(j, vmon(c))
         /\ Safe(j, board_id(c)) /\ Safe(j, zdisc(c))
<1> DEFINE o == Owns({c}, {}, {}, {})
           St(p) == Steady(j, o, {Away}, p)
<1>0. {Away} \in SUBSET Views /\ c # Sbc /\ c \in {c}
  BY CrateFacts
<1>1. /\ St(do_xl3_cmd(c)) /\ St(do_xl3_cmd_no_response(c)) /\ St(wait_for_results(c))
      /\ St(xl3_rw(c)) /\ St(xl3_rws(c)) /\ St(update_crate_config(c)) /\ St(loadsDac(c))
      /\ St(change_mode("INIT_MODE", c)) /\ St(change_mode("NORMAL_MODE", c))
      /\ St(setup_chinj(c)) /\ St(Documents(c)) /\ St(Document(c))
  BY <1>0, CrateSteady
<1>2. /\ St(Nothing)
      /\ \A p, q : St(p) /\ St(q) => St(p \o q)
      /\ \A p : St(p) => St(While(p)) /\ St(Maybe(p))
  BY <1>0, SteadyClosed
<1>3. St(MayFail(Xl3Exit(c)))
  <2>1. Ends(j, o, {Away}, Xl3Exit(c))
    BY CrateFacts, ExitEnds DEF Xl3Exit
  <2> QED
    BY <1>0, <2>1, SteadyMayFail
<1>4. \A p : St(p) => Safe(j, Xl3Command(c, p))
  BY Xl3CommandSafe DEF Steady
<1>5. St(Choose({change_mode("INIT_MODE", c), change_mode("NORMAL_MODE", c)}))
  BY <1>0, <1>1, RunsChoose DEF Steady
<1> HIDE DEF St
<1>6. Safe(j, xrw(c)) /\ Safe(j, frw(c))
  BY <1>1, <1>2, <1>3, <1>4 DEF xrw, frw
<1>7. /\ Safe(j, sm_reset(c)) /\ Safe(j, cmd_xl3_rw(c)) /\ Safe(j, debugging_mode(c))
      /\ Safe(j, read_local_voltage(c)) /\ Safe(j, hv_readback(c))
      /\ Safe(j, set_alarm_dac(c)) /\ Safe(j, cmd_load_dac(c)) /\ Safe(j, cmd_setup_chinj(c))
  BY <1>1, <1>4 DEF sm_reset, cmd_xl3_rw, debugging_mode, read_local_voltage, hv_readback,
       set_alarm_dac, cmd_load_dac, cmd_setup_chinj
<1>8. Safe(j, cmd_change_mode(c))
  BY <1>4, <1>5 DEF cmd_change_mode
<1>9. Safe(j, xl3_queue_rw(c)) /\ Safe(j, read_bundle(c))
  BY <1>1, <1>2, <1>3, <1>4 DEF xl3_queue_rw, read_bundle
<1>10. Safe(j, crate_init(c))
  BY <1>1, <1>2, <1>3, <1>4 DEF crate_init
<1>11. Safe(j, fec_test(c)) /\ Safe(j, vmon(c)) /\ Safe(j, board_id(c))
  BY <1>1, <1>2, <1>4 DEF fec_test, vmon, board_id
<1>12. Safe(j, mem_test(c)) /\ Safe(j, zdisc(c))
  BY <1>1, <1>2, <1>4 DEF mem_test, zdisc, post_debug_doc_mem_test
<1> QED
  BY <1>6, <1>7, <1>8, <1>9, <1>10, <1>11, <1>12

LEMMA CaldTestSafe ==
  ASSUME NEW j, NEW c \in Crates, j.name = "cald_test"
  PROVE  Safe(j, cald_test(c))
<1> DEFINE B == {"point_buf", "adc_buf"}
           o(L, F) == Owns({c}, {}, L, F)
           M == {Away}
<1>0. M \in SUBSET Views /\ c # Sbc /\ c \in {c} /\ Sbc \notin {c} /\ j.name \in Leaky
  BY CrateFacts DEF Leaky
<1>1. \A L, F : Ends(j, o(L, F), M, Xl3Exit(c))
  BY <1>0, ExitEnds DEF Xl3Exit
<1>2. Runs(j, o({}, {}), M, malloc_or(B, Xl3Exit(c)), o({} \cup B, {} \ B), M)
  BY <1>0, <1>1, RunsMallocOr
<1>3. {} \cup B = B /\ {} \ B = {}
  OBVIOUS
<1>4. /\ Steady(j, o(B, {}), M, do_xl3_cmd_no_response(c))
      /\ Steady(j, o(B, {}), M, wait_for_results(c)) /\ Steady(j, o(B, {}), M, Documents(c))
  BY <1>0, CrateSteady
<1>5. Steady(j, o(B, {}), M, Store(B))
  BY <1>0, RunsStore
<1>6. Runs(j, o(B, {}), M, free(B), o(B \ B, {} \cup (B \cap B)), M)
  BY <1>0, RunsFreeing
<1> HIDE DEF B, M, o
<1>7. Runs(j, o({}, {}), M, malloc_or(B, Xl3Exit(c)) \o do_xl3_cmd_no_response(c)
             \o wait_for_results(c) \o Store(B) \o Documents(c) \o free(B),
           o(B \ B, {} \cup (B \cap B)), M)
  BY <1>2, <1>3, <1>4, <1>5, <1>6, RunsSeq DEF Steady
<1> QED
  BY <1>0, <1>7, Xl3CommandSafe DEF cald_test, B, M, o

LEMMA SteadyChoose ==
  ASSUME NEW j, NEW o, NEW M \in SUBSET Views, NEW alt, \A q \in alt : Steady(j, o, M, q)
  PROVE  Steady(j, o, M, Choose(alt))
  BY RunsChoose DEF Steady

\* Buffers are given back before the end.
LEMMA FreeEnds ==
  ASSUME NEW j, NEW D, NEW L, NEW F, NEW X, NEW K, NEW B,
         Sbc \in D, X \subseteq Still \/ j.name \in LeavePulses,
         B \cap F = {}, L \subseteq B \/ j.name \in Leaky
  PROVE  Ends(j, Owns(D, {}, L, F), W(X, K), free(B) \o unthread_and_unlock(D))
<1> DEFINE o == Owns(D, {}, L, F)
           o2 == Owns(D, {}, L \ B, F \cup (L \cap B))
<1>1. Runs(j, o, W(X, K), free(B), o2, W(X, K))
  BY SeenViews, RunsFreeing
<1>2. L \ B = {} \/ j.name \in Leaky
  OBVIOUS
<1>3. Ends(j, o2, W(X, K), unthread_and_unlock(D))
  BY <1>2, ExitEnds
<1>4. Ends(j, o, W(X, K), free(B) \o unthread_and_unlock(D))
  <2> HIDE DEF o, o2
  <2> QED
    BY <1>1, <1>3, RunsThen
<1> QED
  BY <1>4

\* The user's register and value.
LEMMA RunsPoke ==
  ASSUME NEW j, NEW D, NEW L, NEW F, Sbc \in D
  PROVE  Steady(j, Owns(D, {}, L, F), W(Any, MASKALL), mtc_poke)
<1> DEFINE s == [op |-> "poke"]
           o == Owns(D, {}, L, F)
           M == W(Any, MASKALL)
<1>1. s.op = "poke"
  OBVIOUS
<1>2. o.held = D /\ o.lent = {} /\ o.live = L /\ o.freed = F
  BY DEF Owns
<1>6. M \in SUBSET Views
  BY SeenViews
<1> HIDE DEF s, o
<1>3. \A h \in M : Legal(j, s, o, h)
  BY <1>1, <1>2 DEF Legal, Touched
<1>4. ASSUME NEW h \in M, NEW g, NEW v, Does(s, o, h, g, v)
      PROVE  g = o /\ v \in M
  <2>1. h \in Views /\ h.up \in BOOLEAN /\ h.mtc \in MtcStates /\ h.calm \in BOOLEAN
        /\ (h.calm => h.up)
    BY DEF W, Views
  <2>2. \A m \in MtcStates : m \in Any /\ m.pmsk \subseteq MASKALL
    BY DEF MtcStates, Any
  <2>3. \A up \in BOOLEAN, m \in MtcStates, quiet \in BOOLEAN :
          /\ View(up, m, quiet) \in Views
          /\ View(up, m, quiet).up = up
          /\ View(up, m, quiet).mtc = m
          /\ View(up, m, quiet).calm = quiet
    BY DEF View, Views
  <2>4. g = o /\ (v = View(FALSE, h.mtc, FALSE) \/ \E m \in MtcStates : v = View(h.up, m, h.calm))
    BY <1>1, <1>4 DEF Does, Asks, Lost
  <2>5. CASE v = View(FALSE, h.mtc, FALSE)
    BY <2>1, <2>3, <2>4, <2>5 DEF W
  <2>6. CASE \E m \in MtcStates : v = View(h.up, m, h.calm)
    <3> PICK m \in MtcStates : v = View(h.up, m, h.calm)
      BY <2>6
    <3>1. v \in Views /\ v.up = h.up /\ v.mtc = m /\ v.calm = h.calm
      BY <2>1, <2>3
    <3> QED
      BY <2>1, <2>2, <2>4, <3>1 DEF W
  <2> QED
    BY <2>4, <2>5, <2>6
<1>5. Runs(j, o, M, <<s>>, o, M)
  BY <1>1, <1>3, <1>4, <1>6, RunsStep
<1> QED
  BY <1>5 DEF Steady, mtc_poke, s, o

\* sbc_control, which is given the lock whether or not the SBC is there.
LEMMA SbcControlSafe ==
  ASSUME NEW j
  PROVE  Safe(j, sbc_control)
<1> DEFINE s == [op |-> "connect"]
           D == {Sbc}
           o == Owns(D, {}, {}, {})
           M == {h \in Views : h.calm => ~Pulsing(h.mtc)}
<1>1. s.op = "connect"
  OBVIOUS
<1>2. o.held = D /\ o.lent = {} /\ o.live = {} /\ o.freed = {}
  BY DEF Owns
<1>3. M \in SUBSET Views
  OBVIOUS
<1>4. \A h \in M : Legal(j, s, o, h)
  <2> HIDE DEF s, o
  <2> QED
    BY <1>1, <1>2 DEF Legal, Touched
<1>5. ASSUME NEW h \in M, NEW g, NEW v, Does(s, o, h, g, v)
      PROVE  g = o /\ v \in M
  <2>1. h.mtc \in MtcStates /\ h.calm \in BOOLEAN /\ (h.calm => ~Pulsing(h.mtc))
    BY DEF Views
  <2>3. \A up \in BOOLEAN, m \in MtcStates, quiet \in BOOLEAN :
          /\ View(up, m, quiet) \in Views
          /\ View(up, m, quiet).mtc = m
          /\ View(up, m, quiet).calm = quiet
    BY DEF View, Views
  <2> HIDE DEF s, o
  <2>4. g = o /\ \E u \in BOOLEAN : v = View(u, h.mtc, h.calm)
    BY <1>1, <1>5 DEF Does, Asks
  <2> QED
    BY <2>1, <2>3, <2>4
<1>6. Runs(j, o, M, <<s>>, o, M)
  <2> HIDE DEF s, o, M
  <2> QED
    BY <1>1, <1>3, <1>4, <1>5, RunsStep
<1>7. Ends(j, o, M, MtcExit)
  <2>1. Runs(j, o, M, unthread_and_unlock(D), Owns({}, {}, {}, {}), {Away})
    BY <1>3, RunsEnd
  <2>2. Done(j, Owns({}, {}, {}, {}))
    BY DEF Done, Owns
  <2> QED
    BY <2>1, <2>2 DEF Ends, MtcExit
<1>8. Ends(j, o, M, <<s>> \o MtcExit)
  <2> HIDE DEF s, o, M
  <2> QED
    BY <1>6, <1>7, RunsThen
<1>9. /\ sbc_control.devs = D /\ sbc_control.program = <<s>> \o MtcExit
      /\ sbc_control.force = TRUE
  BY DEF sbc_control
<1>10. Begin(D, TRUE) = M /\ D \in SUBSET Devices
  BY DEF Begin, Devices
<1> HIDE DEF s, D, M
<1> QED
  BY <1>8, <1>9, <1>10 DEF Safe

\* The commands of the MTC that are not meant to set up pulses.
LEMMA MtcCommandsSafe ==
  ASSUME NEW j
  PROVE  /\ Safe(j, mtc_read) /\ Safe(j, set_mtca_thresholds) /\ Safe(j, cmd_set_gt_mask)
         /\ Safe(j, cmd_set_gt_crate_mask) /\ Safe(j, cmd_disable_pulser)
         /\ Safe(j, cmd_disable_pedestal)
         /\ j.crates = {} => Safe(j, cmd_send_softgt) /\ Safe(j, cmd_multi_softgt)
<1> DEFINE o == Owns({Sbc}, {}, {}, {})
           St(p) == Steady(j, o, W(Still, MASKALL), p)
<1>0. W(Still, MASKALL) \in SUBSET Views /\ Fragile(W(Still, MASKALL)) /\ Sbc \in {Sbc}
  BY SeenViews
<1>1. /\ St(mtc_access) /\ St(load_mtca_dacs) /\ St(set_gt_mask) /\ St(set_gt_crate_mask)
  BY <1>0, MtcSteady
<1>2. St(disable_pulser) /\ St(disable_pedestal)
  BY <1>0, ControlChanges
<1>3. j.crates = {} => St(send_softgt)
  BY <1>0, RunsGt
<1>4. /\ \A p, q : St(p) /\ St(q) => St(p \o q)
      /\ \A p : St(p) => St(Maybe(p))
  BY <1>0, SteadyClosed
<1>5. \A p : St(p) => Safe(j, MtcCommand(p))
  BY MtcCommandSafe DEF Steady
<1> HIDE DEF St
<1>6. Safe(j, mtc_read) /\ Safe(j, set_mtca_thresholds)
  BY <1>1, <1>5 DEF mtc_read, set_mtca_thresholds
<1>7. Safe(j, cmd_set_gt_mask) /\ Safe(j, cmd_set_gt_crate_mask)
  BY <1>1, <1>4, <1>5 DEF cmd_set_gt_mask, cmd_set_gt_crate_mask
<1>8. Safe(j, cmd_disable_pulser) /\ Safe(j, cmd_disable_pedestal)
  BY <1>2, <1>5 DEF cmd_disable_pulser, cmd_disable_pedestal
<1>9. j.crates = {} => Safe(j, cmd_send_softgt) /\ Safe(j, cmd_multi_softgt)
  BY <1>3, <1>5 DEF cmd_send_softgt, cmd_multi_softgt, multi_softgt, send_softgt
<1> QED
  BY <1>6, <1>7, <1>8, <1>9

\* Those that are.
LEMMA PulseCommandsSafe ==
  ASSUME NEW j, j.name \in LeavePulses
  PROVE  /\ Safe(j, mrw) /\ Safe(j, mtc_write) /\ Safe(j, cmd_set_ped_crate_mask)
         /\ Safe(j, cmd_enable_pulser) /\ Safe(j, cmd_enable_pedestal) /\ Safe(j, set_pulser_freq)
<1> DEFINE o == Owns({Sbc}, {}, {}, {})
           M == W(Any, MASKALL)
           St(p) == Steady(j, o, M, p)
<1>0. M \in SUBSET Views /\ Fragile(M) /\ Sbc \in {Sbc} /\ W(Still, MASKALL) \subseteq M
  BY SeenViews, SeenMono, StillStates
<1>1. St(mtc_access) /\ St(mtc_poke) /\ St(Nothing)
  BY <1>0, MtcSteady, RunsPoke, RunsNothing
<1>2. St(enable_pulser) /\ St(enable_pedestal)
  BY <1>0, ControlChanges
<1>3. St(Rmw("pulser", {"free"}, {"free"})) /\ St(Rmw("pulser", {"free"}, {}))
  BY <1>0, PulserChanges
<1>4. \A p, q : St(p) /\ St(q) => St(p \o q)
  BY <1>0, SteadyClosed
<1>5. ASSUME NEW p, St(p) PROVE Safe(j, MtcCommand(p))
  <2>1. Runs(j, o, W(Still, MASKALL), p, o, M)
    BY <1>0, <1>5, RunsWeaker DEF Steady
  <2> QED
    BY <2>1, MtcCommandSafe
<1>6. St(Maybe(Return(MtcExit)))
  <2>1. Ends(j, o, M, MtcExit)
    BY <1>0, ExitEnds DEF MtcExit
  <2>2. St(MayFail(MtcExit))
    BY <1>0, <2>1, SteadyMayFail
  <2> QED
    BY <2>2 DEF MayFail
<1>7. \A alt : (\A q \in alt : St(q)) => St(Choose(alt))
  BY <1>0, SteadyChoose
<1>8. \A off \in {MASKALL, {}}, C \in SUBSET MASKALL : St(Rmw("pmsk", off, C))
  <2> SUFFICES ASSUME NEW off \in {MASKALL, {}}, NEW C \in SUBSET MASKALL
               PROVE  St(Rmw("pmsk", off, C))
    OBVIOUS
  <2>1. \A m \in MtcStates :
          /\ Changed(m, "pmsk", off, C) \in MtcStates
          /\ m \in Any => Changed(m, "pmsk", off, C) \in Any
          /\ ~PennTeststand /\ m.pmsk \subseteq MASKALL => Changed(m, "pmsk", off, C).pmsk \subseteq MASKALL
    BY ChangedPmsk DEF Any
  <2> QED
    BY <1>0, <2>1, RunsRmw DEF Steady
<1> HIDE DEF St
<1>9. Safe(j, mrw)
  <2>1. \A q \in {mtc_access, mtc_poke} : St(q)
    BY <1>1
  <2>2. St(Choose({mtc_access, mtc_poke}))
    BY <2>1, <1>7
  <2> QED
    BY <2>2, <1>4, <1>5, <1>6 DEF mrw
<1>10. Safe(j, mtc_write) /\ Safe(j, cmd_enable_pulser) /\ Safe(j, cmd_enable_pedestal)
  BY <1>1, <1>2, <1>5 DEF mtc_write, cmd_enable_pulser, cmd_enable_pedestal
<1>11. Safe(j, cmd_set_ped_crate_mask)
  <2> DEFINE alt == {Rmw("pmsk", off, C) : off \in {MASKALL, {}}, C \in SUBSET MASKALL}
  <2>1. \A q \in alt : St(q)
    BY <1>8
  <2> HIDE DEF alt
  <2>2. St(Choose(alt))
    BY <2>1, <1>7
  <2> QED
    BY <2>2, <1>5 DEF cmd_set_ped_crate_mask, alt
<1>12. Safe(j, set_pulser_freq)
  <2> DEFINE alt == {set_pulser_frequency(f, Nothing) : f \in {"soft", "free", "bad"}}
  <2>1. \A q \in alt : St(q)
    BY <1>1, <1>3 DEF set_pulser_frequency
  <2> HIDE DEF alt
  <2>2. St(Choose(alt))
    BY <2>1, <1>7
  <2> QED
    BY <2>2, <1>5 DEF set_pulser_freq, alt
<1> QED
  BY <1>9, <1>10, <1>11, <1>12

LEMMA MtcInitSafe ==
  ASSUME NEW j
  PROVE  Safe(j, mtc_init)
<1> DEFINE D == {Sbc}
           B == {"mtc"}
           o == Owns(D, {}, {}, {})
           o2 == Owns(D, {}, B, {})
           M == W(Still, MASKALL)
           FreeAndExit == free(B) \o MtcExit
<1>0. M \in SUBSET Views /\ Fragile(M) /\ Sbc \in D /\ \A X : X \subseteq X
  BY SeenViews
<1>1. Steady(j, o, M, LoadXilinx)
  <2> DEFINE St(p) == Steady(j, o, M, p)
  <2>1. Ends(j, o, M, MtcExit)
    BY <1>0, ExitEnds DEF MtcExit
  <2>2. St(MayFail(MtcExit)) /\ St(Return(MtcExit)) /\ St(Nothing) /\ St(mtc_access)
    BY <1>0, <2>1, SteadyMayFail, RunsReturn, RunsNothing, MtcSteady DEF Steady, Ends
  <2>3. /\ \A p, q : St(p) /\ St(q) => St(p \o q)
        /\ \A alt : (\A q \in alt : St(q)) => St(Choose(alt))
    BY <1>0, SteadyClosed, SteadyChoose
  <2> HIDE DEF St
  <2>4. St(mtc_xilinx_load(MtcExit))
    BY <2>2, <2>3 DEF mtc_xilinx_load
  <2>5. \A q \in {mtc_xilinx_load(MtcExit), Return(MtcExit), Nothing} : St(q)
    BY <2>2, <2>4
  <2>6. St(Choose({mtc_xilinx_load(MtcExit), Return(MtcExit), Nothing}))
    BY <2>3, <2>5
  <2> QED
    BY <2>6 DEF LoadXilinx, St
<1>2. Runs(j, o, M, malloc_or(B, FreeAndExit), o2, M)
  <2>1. ASSUME NEW b \in B
        PROVE  Ends(j, Owns(D, {}, {} \cup (B \ {b}), {} \ (B \ {b})), M, FreeAndExit)
    BY <1>0, FreeEnds DEF MtcExit
  <2>2. {} \cup B = B /\ {} \ B = {}
    OBVIOUS
  <2>3. Runs(j, o, M, malloc_or(B, FreeAndExit), Owns(D, {}, {} \cup B, {} \ B), M)
    <3> HIDE DEF B, FreeAndExit, M
    <3> QED
      BY <1>0, <2>1, RunsMallocOr
  <2> QED
    BY <2>2, <2>3
<1>3. Steady(j, o2, M, MayFail(FreeAndExit)) /\ Steady(j, o2, M, Store(B))
  <2>1. Ends(j, o2, M, FreeAndExit)
    BY <1>0, FreeEnds DEF MtcExit
  <2> QED
    BY <1>0, <2>1, SteadyMayFail, RunsStore
<1>4. /\ Steady(j, o2, M, unset_gt_mask)
      /\ Steady(j, o2, W(Still, {}), unset_gt_crate_mask)
      /\ Steady(j, o2, W(Still, {}), load_mtca_dacs)
      /\ Steady(j, o2, W(Off, {}), reset_memory)
  BY <1>0, SeenViews, MtcSteady
<1>5. Runs(j, o2, M, unset_ped_crate_mask(MASKALL), o2, W(Still, {}))
  <2>1. M \subseteq W(Any, MASKALL)
    BY SeenMono, StillStates
  <2>2. Runs(j, o2, W(Any, MASKALL), unset_ped_crate_mask(MASKALL), o2, W(Still, {}))
    BY <1>0, MaskChanges
  <2> QED
    BY <2>1, <2>2, RunsWeaker
<1>6. Runs(j, o2, W(Still, {}), Rmw("control", {"PULSE_EN", "PED_EN"}, {}), o2, W(Off, {}))
  <2>1. W(Still, {}) \subseteq W(Any, {})
    BY SeenMono, StillStates
  <2>2. Runs(j, o2, W(Any, {}), Rmw("control", {"PULSE_EN", "PED_EN"}, {}), o2, W(Off, {}))
    BY <1>0, ControlChanges
  <2> QED
    BY <2>1, <2>2, RunsWeaker
<1>7. Steady(j, o2, W(Off, {}), LoadMtcdValues)
  <2> DEFINE St(p) == Steady(j, o2, W(Off, {}), p)
             Values == {"ok", "bad"}
  <2>1. W(Off, {}) \in SUBSET Views /\ Fragile(W(Off, {}))
    BY SeenViews
  <2>2. St(Nothing)
    BY <2>1, RunsNothing
  <2>3. /\ \A x : St(set_lockout_width(x, Nothing)) /\ St(set_prescale(x, Nothing))
                  /\ St(set_pedestal_width(x, Nothing)) /\ St(set_coarse_delay(x, Nothing))
        /\ St(set_gt_counter) /\ St(set_fine_delay)
    BY <1>0, <2>1, <2>2, MtcSteady
  <2>4. St(Rmw("pulser", {"free"}, {"free"})) /\ St(Rmw("pulser", {"free"}, {}))
    BY <1>0, PulserChanges
  <2>5. /\ \A p, q : St(p) /\ St(q) => St(p \o q)
        /\ \A alt : (\A q \in alt : St(q)) => St(Choose(alt))
    BY <2>1, SteadyClosed, SteadyChoose
  <2> HIDE DEF St
  <2>6. /\ \A q \in {set_lockout_width(x, Nothing) : x \in Values} : St(q)
        /\ \A q \in {set_prescale(x, Nothing) : x \in Values} : St(q)
        /\ \A q \in {set_pedestal_width(x, Nothing) : x \in Values} : St(q)
        /\ \A q \in {set_coarse_delay(x, Nothing) : x \in Values} : St(q)
    BY <2>3
  <2>7. \A q \in {set_pulser_frequency(f, Nothing) : f \in {"soft", "free", "bad"}} : St(q)
    BY <2>2, <2>4 DEF set_pulser_frequency
  <2>8. /\ St(Choose({set_lockout_width(x, Nothing) : x \in Values}))
        /\ St(Choose({set_prescale(x, Nothing) : x \in Values}))
        /\ St(Choose({set_pedestal_width(x, Nothing) : x \in Values}))
        /\ St(Choose({set_coarse_delay(x, Nothing) : x \in Values}))
        /\ St(Choose({set_pulser_frequency(f, Nothing) : f \in {"soft", "free", "bad"}}))
    BY <2>5, <2>6, <2>7
  <2>9. St(LoadMtcdValues)
    BY <2>3, <2>5, <2>8 DEF LoadMtcdValues
  <2> QED
    BY <2>9 DEF St
<1>8. Runs(j, o2, W(Off, {}), free(B), Owns(D, {}, {}, B), W(Off, {}))
  <2>1. Runs(j, o2, W(Off, {}), free(B), Owns(D, {}, B \ B, {} \cup (B \cap B)), W(Off, {}))
    <3> HIDE DEF B
    <3> QED
      BY SeenViews, RunsFreeing
  <2>2. B \ B = {} /\ {} \cup (B \cap B) = B
    OBVIOUS
  <2> QED
    BY <2>1, <2>2
<1> DEFINE o3 == Owns(D, {}, {}, B)
           p == LoadXilinx \o malloc_or(B, FreeAndExit) \o MayFail(FreeAndExit) \o Store(B)
                \o unset_gt_mask \o unset_ped_crate_mask(MASKALL) \o unset_gt_crate_mask
                \o load_mtca_dacs \o Rmw("control", {"PULSE_EN", "PED_EN"}, {})
                \o LoadMtcdValues \o reset_memory \o free(B)
<1>9. Runs(j, o, M, p, o3, W(Off, {}))
  <2> HIDE DEF D, B, o, o2, o3, M, FreeAndExit
  <2>1. Runs(j, o, M,
             LoadXilinx \o malloc_or(B, FreeAndExit) \o MayFail(FreeAndExit) \o Store(B)
             \o unset_gt_mask \o unset_ped_crate_mask(MASKALL), o2, W(Still, {}))
    BY <1>1, <1>2, <1>3, <1>4, <1>5, RunsSeq DEF Steady
  <2>2. Runs(j, o, M,
             LoadXilinx \o malloc_or(B, FreeAndExit) \o MayFail(FreeAndExit) \o Store(B)
             \o unset_gt_mask \o unset_ped_crate_mask(MASKALL) \o unset_gt_crate_mask
             \o load_mtca_dacs \o Rmw("control", {"PULSE_EN", "PED_EN"}, {}), o2, W(Off, {}))
    BY <1>4, <1>6, <2>1, RunsSeq DEF Steady
  <2>3. Runs(j, o2, W(Off, {}), free(B), o3, W(Off, {}))
    BY <1>8 DEF o3
  <2> QED
    BY <1>4, <1>7, <2>2, <2>3, RunsSeq DEF Steady
<1>10. Off \subseteq Still
  BY StillStates
<1>11. mtc_init = MtcCommand(p)
  BY DEF mtc_init
<1> HIDE DEF p
<1> QED
  BY <1>9, <1>10, <1>11, MtcCommandSafe

-----------------------------------------------------------------------------
(* The tests of one crate with the MTC.                                     *)

LEMMA MtcTestSafe ==
  ASSUME NEW j, NEW c \in Crates, NEW p, NEW L, NEW F, NEW X, NEW K,
         L = {} \/ j.name \in Leaky,
         X \subseteq Still \/ j.name \in LeavePulses,
         Runs(j, Owns({Sbc, c}, {}, {}, {}), W(Still, MASKALL), p,
              Owns({Sbc, c}, {}, L, F), W(X, K))
  PROVE  Safe(j, MtcTest(c, p))
<1> DEFINE o == Owns({Sbc, c}, {}, {}, {})
           o2 == Owns({Sbc, c}, {}, L, F)
<1>1. Ends(j, o2, W(X, K), unthread_and_unlock({Sbc, c}))
  BY ExitEnds
<1>2. Runs(j, o, W(Still, MASKALL), p, o2, W(X, K))
  OBVIOUS
<1>3. Ends(j, o, W(Still, MASKALL), p \o unthread_and_unlock({Sbc, c}))
  <2> HIDE DEF o, o2
  <2> QED
    BY <1>1, <1>2, RunsThen
<1>4. {Sbc, c} \in SUBSET Devices /\ Sbc \in {Sbc, c}
  BY CrateFacts
<1> QED
  BY <1>3, <1>4, HandlerSafe DEF MtcTest, MtcExits

\* While the MTC sends its soft GTs to the crate and the TUB.
LEMMA SoftSteady ==
  ASSUME NEW j, NEW c \in Crates, NEW L, NEW F, c \in j.crates
  PROVE  LET o == Owns({Sbc, c}, {}, L, F)
             M == W(Soft, {c, Tub})
         IN /\ Steady(j, o, M, send_softgt) /\ Steady(j, o, M, multi_softgt)
            /\ Steady(j, o, M, FireUnlocked(c))
            /\ L = {} \/ j.name \in Leaky => Steady(j, o, M, MayFail(MtcExits(c)))
            /\ Runs(j, o, W(Still, MASKALL), StartCounting(c), o, M)
            /\ Runs(j, o, W(Still, MASKALL), setup_softgt_pedestals({c, Tub}), o, M)
            /\ Runs(j, o, W(Still, MASKALL), setup_softgt_pedestals({c}), o, M)
<1> DEFINE D == {Sbc, c}
           o == Owns(D, {}, L, F)
           M == W(Soft, {c, Tub})
<1>0. /\ M \in SUBSET Views /\ Fragile(M) /\ Sbc \in D /\ c \in D
      /\ W(Still, MASKALL) \in SUBSET Views /\ Fragile(W(Still, MASKALL))
  BY SeenViews
<1>1. \A h \in M : h.up /\ ~PennTeststand => h.mtc.pmsk \subseteq j.crates \cup {Tub}
  BY DEF W
<1>2. Steady(j, o, M, send_softgt) /\ Steady(j, o, M, multi_softgt)
  BY <1>0, <1>1, RunsGt DEF send_softgt, multi_softgt
<1>3. Steady(j, o, M, FireUnlocked(c))
  <2> DEFINE g == Owns(D, {c}, L, F)
  <2>1. Runs(j, o, M, temp_unlock(c), g, M) /\ Runs(j, g, M, relock(c), o, M)
    BY <1>0, RunsLend, RunsRelock
  <2>2. Steady(j, g, M, send_softgt)
    BY <1>0, <1>1, RunsGt
  <2> HIDE DEF g, M, o
  <2>3. Steady(j, g, M, While(multi_softgt))
    BY <1>0, <2>2, RunsWhile DEF send_softgt, multi_softgt
  <2> QED
    BY <2>1, <2>3, RunsSeq DEF FireUnlocked, Steady
<1>4. ASSUME L = {} \/ j.name \in Leaky
      PROVE  Steady(j, o, M, MayFail(MtcExits(c)))
  <2>1. Soft \subseteq Still
    BY StillStates
  <2>2. Ends(j, o, M, MtcExits(c))
    BY <1>0, <1>4, <2>1, ExitEnds DEF MtcExits
  <2> QED
    BY <1>0, <2>2, SteadyMayFail
<1>5. /\ Runs(j, o, W(Still, MASKALL), setup_softgt_pedestals({c, Tub}), o, M)
      /\ Runs(j, o, W(Still, MASKALL), setup_softgt_pedestals({c}), o, M)
  <2>1. {c, Tub} \in SUBSET MASKALL /\ {c} \in SUBSET MASKALL
    BY CrateFacts
  <2>2. W(Still, MASKALL) \subseteq W(Any, MASKALL) /\ W(Soft, {c}) \subseteq M
    BY SeenMono, StillStates
  <2>3. /\ Runs(j, o, W(Any, MASKALL), setup_softgt_pedestals({c, Tub}), o, M)
        /\ Runs(j, o, W(Any, MASKALL), setup_softgt_pedestals({c}), o, W(Soft, {c}))
    BY <1>0, <2>1, SoftPedestalsSet
  <2> HIDE DEF o, M
  <2> QED
    BY <2>2, <2>3, RunsWeaker
<1>6. Runs(j, o, W(Still, MASKALL), StartCounting(c), o, M)
  <2>1. Steady(j, o, W(Still, MASKALL), reset_memory) /\ Steady(j, o, W(Still, MASKALL), set_gt_counter)
    BY <1>0, MtcSteady
  <2> HIDE DEF o, M
  <2> QED
    BY <1>5, <2>1, RunsSeq DEF StartCounting, Steady
<1> QED
  BY <1>2, <1>3, <1>4, <1>5, <1>6

LEMMA SoftTestsSafe ==
  ASSUME NEW j, NEW c \in Crates, c \in j.crates
  PROVE  /\ Safe(j, disc_check(c)) /\ Safe(j, cgt_test(c)) /\ Safe(j, mb_stability_test(c))
         /\ Safe(j, get_ttot(c)) /\ Safe(j, set_ttot(c)) /\ Safe(j, cmos_m_gtvalid(c))
<1> DEFINE o == Owns({Sbc, c}, {}, {}, {})
           M0 == W(Still, MASKALL)
           M == W(Soft, {c, Tub})
           St(p) == Steady(j, o, M, p)
           Gets(p) == Runs(j, o, M0, p, o, M)
<1>0. /\ M \in SUBSET Views /\ Fragile(M) /\ Sbc \in {Sbc, c} /\ c \in {Sbc, c} /\ c # Sbc
      /\ M0 \in SUBSET Views
  BY SeenViews, CrateFacts
<1>1. /\ St(do_xl3_cmd(c)) /\ St(xl3_rw(c)) /\ St(xl3_rws(c)) /\ St(deselect_fecs(c))
      /\ St(get_cmos_total_count(c)) /\ St(multi_loadsDac(c)) /\ St(loadsDac(c))
      /\ \A x : St(set_crate_pedestals(c, x))
      /\ St(Documents(c)) /\ St(Document(c))
  BY <1>0, CrateSteady
<1>2. St(set_gt_delay)
  BY <1>0, MtcSteady
<1>3. /\ St(send_softgt) /\ St(multi_softgt) /\ St(FireUnlocked(c)) /\ St(MayFail(MtcExits(c)))
      /\ Gets(StartCounting(c)) /\ Gets(setup_softgt_pedestals({c, Tub}))
  BY SoftSteady
<1>4. /\ \A p, q : St(p) /\ St(q) => St(p \o q)
      /\ \A p : St(p) => St(While(p)) /\ St(Maybe(p))
  BY <1>0, SteadyClosed
<1>5. \A p, q : Gets(p) /\ St(q) => Gets(p \o q)
  <2> HIDE DEF o, M, M0
  <2> QED
    BY RunsSeq DEF Steady
<1>6. \A p : Gets(p) => Safe(j, MtcTest(c, p))
  BY StillStates, MtcTestSafe
<1>7. Gets(While(xl3_rw(c)) \o deselect_fecs(c) \o setup_softgt_pedestals({c}))
  <2>1. Steady(j, o, M0, xl3_rw(c)) /\ Steady(j, o, M0, deselect_fecs(c))
    BY <1>0, CrateSteady
  <2>2. Runs(j, o, M0, setup_softgt_pedestals({c}), o, M)
    BY SoftSteady
  <2> HIDE DEF o, M, M0
  <2>3. Steady(j, o, M0, While(xl3_rw(c)))
    BY <1>0, <2>1, RunsWhile
  <2> QED
    BY <2>1, <2>2, <2>3, RunsSeq DEF Steady
<1> HIDE DEF St, Gets
<1>8. Safe(j, disc_check(c))
  BY <1>1, <1>3, <1>4, <1>5, <1>6 DEF disc_check
<1>9. Safe(j, cgt_test(c))
  <2> DEFINE Rollover == multi_softgt \o While(xl3_rw(c)) \o do_xl3_cmd(c)
                         \o While(xl3_rw(c)) \o send_softgt \o While(xl3_rw(c))
  <2>1. St(Rollover)
    BY <1>1, <1>3, <1>4
  <2> HIDE DEF Rollover
  <2>2. Gets(StartCounting(c) \o While(xl3_rw(c)) \o deselect_fecs(c)
             \o set_crate_pedestals(c, TRUE) \o deselect_fecs(c)
             \o While(Rollover) \o Documents(c))
    BY <1>1, <1>3, <1>4, <1>5, <2>1
  <2> QED
    BY <1>6, <2>2 DEF cgt_test, Rollover
<1>10. Safe(j, mb_stability_test(c))
  <2> DEFINE Shot == While(xl3_rw(c)) \o deselect_fecs(c) \o send_softgt
                     \o While(xl3_rw(c)) \o While(xl3_rws(c))
  <2>1. St(Shot)
    BY <1>1, <1>3, <1>4
  <2> HIDE DEF Shot
  <2>2. Gets(StartCounting(c) \o While(xl3_rw(c)) \o deselect_fecs(c)
             \o set_crate_pedestals(c, TRUE) \o deselect_fecs(c)
             \o While(Shot) \o Documents(c))
    BY <1>1, <1>3, <1>4, <1>5, <2>1
  <2> QED
    BY <1>6, <2>2 DEF mb_stability_test, Shot
<1>11. St(CountHits(c))
  BY <1>1, <1>2, <1>3, <1>4 DEF CountHits
<1>12. St(disc_m_ttot(c)) /\ St(disc_check_ttot(c))
  BY <1>1, <1>4, <1>11 DEF disc_m_ttot, disc_check_ttot
<1>13. Safe(j, get_ttot(c))
  BY <1>1, <1>3, <1>5, <1>6, <1>12 DEF get_ttot
<1>14. Safe(j, set_ttot(c))
  <2> DEFINE Slot == multi_loadsDac(c) \o While(disc_check_ttot(c)) \o multi_loadsDac(c)
                     \o While(disc_check_ttot(c) \o multi_loadsDac(c)) \o multi_loadsDac(c)
                     \o disc_m_ttot(c) \o Document(c)
  <2>1. St(Slot)
    BY <1>1, <1>4, <1>12
  <2> HIDE DEF Slot
  <2>2. Gets(setup_softgt_pedestals({c, Tub}) \o While(Slot))
    BY <1>3, <1>4, <1>5, <2>1
  <2> QED
    BY <1>6, <2>2 DEF set_ttot, Slot
<1>15. St(get_gtdelay(c))
  BY <1>1, <1>2, <1>3, <1>4 DEF get_gtdelay
<1>16. Safe(j, cmos_m_gtvalid(c))
  <2> DEFINE LoadOrQuit == loadsDac(c) \o MayFail(MtcExits(c))
             Measure    == While(xl3_rw(c) \o get_gtdelay(c))
             Tac == Maybe(While(LoadOrQuit) \o do_xl3_cmd(c))
                    \o Measure
                    \o Maybe(While(LoadOrQuit \o xl3_rw(c) \o get_gtdelay(c)) \o Measure
                             \o While(loadsDac(c) \o xl3_rw(c) \o get_gtdelay(c))
                             \o While(Measure \o do_xl3_cmd(c)) \o Measure)
  <2>1. St(LoadOrQuit) /\ St(Measure)
    BY <1>1, <1>3, <1>4, <1>15
  <2>2. St(Tac)
    <3> HIDE DEF LoadOrQuit, Measure
    <3> QED
      BY <1>1, <1>4, <1>15, <2>1
  <2> HIDE DEF Tac
  <2>3. Gets(While(xl3_rw(c)) \o deselect_fecs(c) \o setup_softgt_pedestals({c})
             \o While(While(Tac) \o xl3_rw(c) \o Document(c)))
    BY <1>1, <1>4, <1>5, <1>7, <2>2
  <2> QED
    BY <1>6, <2>3 DEF cmos_m_gtvalid, Tac
<1> QED
  BY <1>8, <1>9, <1>10, <1>13, <1>14, <1>16

LEMMA FifoTestSafe ==
  ASSUME NEW j, NEW c \in Crates, c \in j.crates, j.name = "fifo_test"
  PROVE  Safe(j, fifo_test(c))
<1> DEFINE B == {"readout_data"}
           o == Owns({Sbc, c}, {}, {}, {})
           o2 == Owns({Sbc, c}, {}, B, {})
           M0 == W(Still, MASKALL)
           M == W(Soft, {c, Tub})
           St(p) == Steady(j, o2, M, p)
           Gets(p) == Runs(j, o, M0, p, o2, M)
<1>0. /\ M \in SUBSET Views /\ Fragile(M) /\ Sbc \in {Sbc, c} /\ c \in {Sbc, c} /\ c # Sbc
      /\ M0 \in SUBSET Views /\ j.name \in Leaky
  BY SeenViews, CrateFacts DEF Leaky
<1>1. /\ St(xl3_rw(c)) /\ St(deselect_fecs(c)) /\ St(check_fifo(c)) /\ St(Document(c))
      /\ \A x : St(set_crate_pedestals(c, x))
      /\ St(read_out_bundles(c, "readout_data"))
  BY <1>0, CrateSteady
<1>2. St(get_gt_count)
  BY <1>0, MtcSteady
<1>3. St(multi_softgt) /\ St(FireUnlocked(c)) /\ St(MayFail(MtcExits(c)))
  BY <1>0, SoftSteady
<1>4. /\ \A p, q : St(p) /\ St(q) => St(p \o q)
      /\ \A p : St(p) => St(While(p)) /\ St(Maybe(p))
  BY <1>0, SteadyClosed
<1>5. \A p, q : Gets(p) /\ St(q) => Gets(p \o q)
  <2> HIDE DEF o, o2, M, M0
  <2> QED
    BY RunsSeq DEF Steady
<1>6. Gets(malloc_or(B, MtcExits(c)) \o StartCounting(c))
  <2>1. \A b \in B : Ends(j, Owns({Sbc, c}, {}, {} \cup (B \ {b}), {} \ (B \ {b})), M0, MtcExits(c))
    BY <1>0, ExitEnds DEF MtcExits
  <2>2. Runs(j, o, M0, malloc_or(B, MtcExits(c)), Owns({Sbc, c}, {}, {} \cup B, {} \ B), M0)
    BY <1>0, <2>1, RunsMallocOr
  <2>3. {} \cup B = B /\ {} \ B = {}
    OBVIOUS
  <2>4. Runs(j, o, M0, malloc_or(B, MtcExits(c)), o2, M0)
    BY <2>2, <2>3
  <2>5. Runs(j, o2, M0, StartCounting(c), o2, M)
    BY SoftSteady
  <2> HIDE DEF o, o2, B, M0, M
  <2> QED
    BY <2>4, <2>5, RunsSeq
<1>7. \A p : Gets(p) => Safe(j, MtcTest(c, p))
  BY <1>0, StillStates, MtcTestSafe
<1> DEFINE Fill == multi_softgt \o check_fifo(c)
           Slot == get_gt_count \o check_fifo(c) \o set_crate_pedestals(c, TRUE)
                   \o FireUnlocked(c) \o check_fifo(c)
                   \o While(xl3_rw(c)) \o check_fifo(c) \o Fill
                   \o While(xl3_rw(c)) \o check_fifo(c)
                   \o read_out_bundles(c, "readout_data") \o check_fifo(c)
                   \o While(xl3_rw(c)) \o deselect_fecs(c) \o Document(c)
<1> HIDE DEF St, Gets, B
<1>8. St(Slot)
  <2>1. St(Fill)
    BY <1>1, <1>3, <1>4
  <2> HIDE DEF Fill
  <2> QED
    BY <1>1, <1>2, <1>3, <1>4, <2>1
<1> HIDE DEF Slot
<1>9. Gets(malloc_or(B, MtcExits(c)) \o StartCounting(c)
           \o While(xl3_rw(c) \o MayFail(MtcExits(c)))
           \o set_crate_pedestals(c, TRUE)
           \o While(check_fifo(c) \o get_gt_count)
           \o FireUnlocked(c)
           \o While(Slot))
  BY <1>1, <1>2, <1>3, <1>4, <1>5, <1>6, <1>8
<1> QED
  BY <1>7, <1>9 DEF fifo_test, Slot, B

LEMMA CrateCbalSafe ==
  ASSUME NEW j, NEW c \in Crates, c \in j.crates
  PROVE  Safe(j, crate_cbal(c))
<1> DEFINE D == {Sbc, c}
           B == {"pmt_buf"}
           o == Owns(D, {}, {}, {})
           o2 == Owns(D, {}, B, {})
           o3 == Owns(D, {}, {}, B)
           M0 == W(Still, MASKALL)
           M == W(Soft, {c, Tub})
           St(p) == Steady(j, o2, M, p)
<1>0. /\ M \in SUBSET Views /\ Fragile(M) /\ Sbc \in D /\ c \in D /\ c # Sbc
      /\ M0 \in SUBSET Views
  BY SeenViews, CrateFacts
<1>1. /\ St(do_xl3_cmd(c)) /\ St(xl3_rw(c)) /\ St(xl3_rws(c)) /\ St(wait_for_results(c))
      /\ St(deselect_fecs(c)) /\ St(Document(c)) /\ St(multi_loadsDac(c))
  BY <1>0, CrateSteady
<1>2. St(multi_softgt)
  BY SoftSteady
<1>3. St(Store(B))
  BY <1>0, RunsStore
<1>4. /\ \A p, q : St(p) /\ St(q) => St(p \o q)
      /\ \A p : St(p) => St(While(p)) /\ St(Maybe(p))
  BY <1>0, SteadyClosed
<1>5. Runs(j, o, M0, malloc_or(B, MtcExits(c)), o2, M0)
  <2>1. ASSUME NEW b \in B
        PROVE  Ends(j, Owns(D, {}, {} \cup (B \ {b}), {} \ (B \ {b})), M0, MtcExits(c))
    <3>1. {} \cup (B \ {b}) = {}
      OBVIOUS
    <3> QED
      BY <1>0, <3>1, ExitEnds DEF MtcExits
  <2>2. Runs(j, o, M0, malloc_or(B, MtcExits(c)), Owns(D, {}, {} \cup B, {} \ B), M0)
    BY <1>0, <2>1, RunsMallocOr
  <2>3. {} \cup B = B /\ {} \ B = {}
    OBVIOUS
  <2> QED
    BY <2>2, <2>3
<1>6. Runs(j, o2, M0, setup_softgt_pedestals({c, Tub}), o2, M)
  BY SoftSteady
<1>7. Runs(j, o2, M, free(B), o3, M)
  <2>1. Runs(j, o2, M, free(B), Owns(D, {}, B \ B, {} \cup (B \cap B)), M)
    <3> HIDE DEF B
    <3> QED
      BY <1>0, RunsFreeing
  <2>2. B \ B = {} /\ {} \cup (B \cap B) = B
    OBVIOUS
  <2> QED
    BY <2>1, <2>2
<1> DEFINE Gains == While(multi_loadsDac(c) \o get_pedestal(c) \o Maybe(xl3_rw(c)))
           Slot  == xl3_rw(c) \o multi_loadsDac(c)
                    \o Maybe(Gains \o xl3_rw(c) \o deselect_fecs(c) \o Document(c))
           p == malloc_or(B, MtcExits(c)) \o setup_softgt_pedestals({c, Tub}) \o While(Slot)
                \o free(B)
<1>8. St(While(Slot))
  <2> HIDE DEF St
  <2>1. St(get_pedestal(c))
    BY <1>1, <1>2, <1>3, <1>4 DEF get_pedestal
  <2>2. St(Gains)
    BY <1>1, <1>4, <2>1
  <2> HIDE DEF Gains
  <2> QED
    BY <1>1, <1>4, <2>2
<1>9. Runs(j, o, M0, p, o3, M)
  <2> HIDE DEF o, o2, o3, B, M, M0, Slot
  <2> QED
    BY <1>5, <1>6, <1>7, <1>8, RunsSeq DEF Steady
<1>10. crate_cbal(c) = MtcTest(c, p)
  BY DEF crate_cbal
<1> HIDE DEF p
<1> QED
  BY <1>9, <1>10, StillStates, MtcTestSafe

\* What the tests do when setup_pedestals fails.
LEMMA UnsetThen ==
  ASSUME NEW j, NEW D, NEW L, NEW F, Sbc \in D, NEW q,
         Ends(j, Owns(D, {}, L, F), W(Still, {}), q)
  PROVE  Ends(j, Owns(D, {}, L, F), W(Any, MASKALL), unset_masks \o q)
<1> DEFINE o == Owns(D, {}, L, F)
<1>1. Runs(j, o, W(Any, MASKALL), unset_masks, o, W(Still, {})) /\ Ends(j, o, W(Still, {}), q)
  BY MasksUnset
<1>2. Ends(j, o, W(Any, MASKALL), unset_masks \o q)
  <2> HIDE DEF o
  <2> QED
    BY <1>1, RunsThen
<1> QED
  BY <1>2

LEMMA ChinjScanSafe ==
  ASSUME NEW j, NEW c \in Crates, c \in j.crates
  PROVE  Safe(j, chinj_scan(c))
<1> DEFINE D == {Sbc, c}
           B == Readout \cup Results
           o == Owns(D, {}, {}, {})
           o2 == Owns(D, {}, B, {})
           o3 == Owns(D, {}, Results, Readout)
           o4 == Owns(D, {}, {}, B)
           M0 == W(Still, MASKALL)
           M == W(Soft, {c})
           Quit == free(B) \o MtcExits(c)
<1>0. /\ M0 \in SUBSET Views /\ M \in SUBSET Views /\ Fragile(M) /\ W(Still, {}) \in SUBSET Views
      /\ Sbc \in D /\ c \in D /\ c # Sbc /\ {c} \in SUBSET MASKALL
      /\ M0 \subseteq W(Any, MASKALL) /\ W(Still, {}) \subseteq M0
  BY SeenViews, SeenMono, StillStates, CrateFacts
<1>1. \A K : \A L \in SUBSET B : Ends(j, Owns(D, {}, L, {}), W(Still, K), Quit)
  BY <1>0, FreeEnds DEF MtcExits
<1>2. Runs(j, o, M0, malloc_or(B, Quit), o2, M0)
  <2>1. ASSUME NEW b \in B
        PROVE  Ends(j, Owns(D, {}, {} \cup (B \ {b}), {} \ (B \ {b})), M0, Quit)
    <3> DEFINE N == {} \cup (B \ {b})
    <3>1. N \in SUBSET B /\ {} \ (B \ {b}) = {}
      OBVIOUS
    <3> HIDE DEF N, B
    <3>2. Ends(j, Owns(D, {}, N, {}), M0, Quit)
      BY <1>1, <3>1
    <3> QED
      BY <3>1, <3>2 DEF N
  <2>2. {} \cup B = B /\ {} \ B = {}
    OBVIOUS
  <2> HIDE DEF B, Quit, M0
  <2>3. Runs(j, o, M0, malloc_or(B, Quit), Owns(D, {}, {} \cup B, {} \ B), M0)
    BY <1>0, <2>1, RunsMallocOr
  <2> QED
    BY <2>2, <2>3
<1> DEFINE scan == Scan(c, {"ok", "bad"}, {c}, unset_masks \o Quit)
           setup == setup_pedestals({"soft"}, {"ok", "bad"}, {c}, unset_masks \o Quit)
<1>3. Steady(j, o2, M0, While(scan))
  <2>1. /\ Steady(j, o2, M0, reset_slots(c)) /\ Steady(j, o2, M0, deselect_fecs(c))
        /\ Steady(j, o2, M0, fec_load_crate_addr(c)) /\ Steady(j, o2, M0, setup_chinj(c))
        /\ Steady(j, o2, M0, set_crate_pedestals(c, TRUE))
    BY <1>0, CrateSteady
  <2>2. Steady(j, o2, M0, Maybe(set_crate_pedestals(c, TRUE)))
    BY <1>0, <2>1, SteadyMaybe
  <2>3. Runs(j, o2, M0, setup, o2, M)
    <3>1. Ends(j, o2, W(Still, {}), Quit)
      <4>1. B \in SUBSET B
        OBVIOUS
      <4> QED
        BY <1>1, <4>1
    <3>2. Ends(j, o2, W(Any, MASKALL), unset_masks \o Quit)
      BY <1>0, <3>1, UnsetThen
    <3>3. /\ {"soft"} \in SUBSET {"soft", "free", "bad"} /\ {"soft"} \subseteq {"soft", "bad"}
          /\ {"ok", "bad"} \in SUBSET {"ok", "bad"}
      OBVIOUS
    <3> HIDE DEF Quit, B
    <3>4. Runs(j, o2, W(Any, MASKALL), setup, o2, M)
      BY <1>0, <3>2, <3>3, PedestalsSet
    <3> HIDE DEF o2, setup, M, M0
    <3> QED
      BY <1>0, <3>4, RunsWeaker
  <2>4. Steady(j, o2, M, multi_softgt)
    <3>1. \A h \in M : h.up /\ ~PennTeststand => h.mtc.pmsk \subseteq j.crates \cup {Tub}
      BY DEF W
    <3> QED
      BY <1>0, <3>1, RunsGt DEF send_softgt, multi_softgt
  <2> DEFINE bundles == read_out_bundles(c, "pmt_buffer") \o Store({"ped"}) \o Store(Results)
  <2>5. Steady(j, o2, M, While(bundles))
    <3>1. "pmt_buffer" \in B /\ {"ped"} \in SUBSET B /\ Results \in SUBSET B
      BY DEF Readout
    <3> HIDE DEF B
    <3>2. /\ Steady(j, o2, M, read_out_bundles(c, "pmt_buffer"))
          /\ Steady(j, o2, M, Store({"ped"})) /\ Steady(j, o2, M, Store(Results))
      BY <1>0, <3>1, CrateSteady, RunsStore
    <3> HIDE DEF o2, M
    <3>3. Steady(j, o2, M, bundles)
      BY <3>2, SteadySeq
    <3> QED
      BY <1>0, <3>3, RunsWhile
  <2>6. Runs(j, o2, M, unset_masks, o2, W(Still, {}))
    BY <1>0, MasksUnset
  <2>7. /\ Steady(j, o2, W(Still, {}), set_crate_pedestals(c, FALSE))
        /\ Steady(j, o2, W(Still, {}), deselect_fecs(c))
    BY <1>0, CrateSteady
  <2>8. Runs(j, o2, M0,
             reset_slots(c) \o deselect_fecs(c) \o fec_load_crate_addr(c)
             \o Maybe(set_crate_pedestals(c, TRUE)) \o deselect_fecs(c) \o setup_chinj(c)
             \o setup \o multi_softgt, o2, M)
    <3> HIDE DEF o2, setup, M, M0
    <3> QED
      BY <2>1, <2>2, <2>3, <2>4, RunsSeq DEF Steady
  <2>9. Runs(j, o2, M0, scan, o2, W(Still, {}))
    <3> HIDE DEF o2, setup, M, M0, bundles
    <3>1. Runs(j, o2, M0,
               reset_slots(c) \o deselect_fecs(c) \o fec_load_crate_addr(c)
               \o Maybe(set_crate_pedestals(c, TRUE)) \o deselect_fecs(c) \o setup_chinj(c)
               \o setup \o multi_softgt \o While(bundles) \o unset_masks
               \o set_crate_pedestals(c, FALSE) \o deselect_fecs(c), o2, W(Still, {}))
      BY <2>5, <2>6, <2>7, <2>8, RunsSeq DEF Steady
    <3> HIDE DEF Quit
    <3> QED
      BY <3>1 DEF Scan, setup, bundles
  <2> HIDE DEF scan, o2, M0
  <2>10. Steady(j, o2, M0, scan)
    BY <1>0, <2>9, RunsWeaker DEF Steady
  <2> QED
    BY <1>0, <2>10, RunsWhile
<1>4. Runs(j, o2, M0, free(Readout), o3, M0)
  <2>1. Runs(j, o2, M0, free(Readout), Owns(D, {}, B \ Readout, {} \cup (B \cap Readout)), M0)
    <3> HIDE DEF B
    <3> QED
      BY <1>0, RunsFreeing
  <2>2. B \ Readout = Results /\ {} \cup (B \cap Readout) = Readout
    BY DEF Readout, Results
  <2> QED
    BY <2>1, <2>2
<1>5. Steady(j, o3, M0, Documents(c))
  BY <1>0, CrateSteady
<1>6. Runs(j, o3, M0, free(Results), o4, M0)
  <2>1. Results \cap Readout = {}
    BY DEF Readout, Results
  <2>2. Runs(j, o3, M0, free(Results), Owns(D, {}, Results \ Results, Readout \cup (Results \cap Results)), M0)
    BY <1>0, <2>1, RunsFreeing
  <2>3. Results \ Results = {} /\ Readout \cup (Results \cap Results) = B
    OBVIOUS
  <2> QED
    BY <2>2, <2>3
<1> DEFINE p == malloc_or(B, Quit) \o While(scan) \o free(Readout) \o Documents(c) \o free(Results)
<1>7. Runs(j, o, M0, p, o4, M0)
  <2> HIDE DEF o, o2, o3, o4, B, M0, scan, Quit
  <2> QED
    BY <1>2, <1>3, <1>4, <1>5, <1>6, RunsSeq DEF Steady
<1>8. chinj_scan(c) = MtcTest(c, p)
  BY DEF chinj_scan
<1>9. Still \subseteq Still
  OBVIOUS
<1> HIDE DEF p
<1> QED
  BY <1>7, <1>8, <1>9, MtcTestSafe

LEMMA PedRunSafe ==
  ASSUME NEW j, NEW c \in Crates, c \in j.crates, j.name \in Unchecked
  PROVE  Safe(j, ped_run(c))
<1> DEFINE D == {Sbc, c}
           B == {"pmt_buffer", "ped"}
           M0 == W(Still, MASKALL)
           M == W(Any, {c})
           Failed == unset_masks \o free(B) \o MtcExits(c)
           Pulse(f) ==
             setup_pedestals({f}, {"ok", "bad"}, {c}, Failed)
             \o (IF f = "soft" THEN While(multi_softgt) ELSE Nothing)
           pulses == Choose({Pulse(f) : f \in {"soft", "free", "bad"}})
           bundles == read_out_bundles(c, "pmt_buffer") \o Store({"ped"}) \o Document(c)
           p == StartPedestals(c) \o pulses \o disable_pulser
                \o While(bundles) \o free(B) \o unset_masks
                \o set_crate_pedestals(c, FALSE) \o deselect_fecs(c) \o MtcExits(c)
<1>0. /\ M0 \in SUBSET Views /\ M \in SUBSET Views /\ Fragile(M)
      /\ W(Any, MASKALL) \in SUBSET Views
      /\ W(Off, {c}) \in SUBSET Views /\ W(Still, {}) \in SUBSET Views
      /\ Sbc \in D /\ c \in D /\ c # Sbc /\ {c} \in SUBSET MASKALL /\ D \in SUBSET Devices
      /\ M0 \subseteq W(Any, MASKALL)
  BY SeenViews, SeenMono, StillStates, CrateFacts
\* Whichever buffers it could have.
<1>1. ASSUME NEW A \in SUBSET B PROVE Ends(j, Owns(D, {}, A, {}), M0, p)
  <2> DEFINE o2 == Owns(D, {}, A, {})
             o3 == Owns(D, {}, {}, A)
  <2>1. Steady(j, o2, M0, StartPedestals(c))
    BY <1>0, CrateSteady
  <2>2. Runs(j, o2, M0, Choose({Pulse(f) : f \in {"soft", "free", "bad"}}), o2, M)
    <3>1. Ends(j, o2, W(Any, MASKALL), Failed)
      <4>1. /\ Runs(j, o2, W(Any, MASKALL), unset_masks, o2, W(Still, {}))
        BY <1>0, MasksUnset
      <4>2. Runs(j, o2, W(Still, {}), free(B), Owns(D, {}, A \ B, {} \cup (A \cap B)), W(Still, {}))
        <5> HIDE DEF B
        <5> QED
          BY <1>0, RunsFreeing
      <4>3. A \ B = {} /\ {} \cup (A \cap B) = A
        OBVIOUS
      <4>4. Runs(j, o2, W(Still, {}), free(B), o3, W(Still, {}))
        BY <4>2, <4>3
      <4>5. Ends(j, o3, W(Still, {}), MtcExits(c))
        BY <1>0, ExitEnds DEF MtcExits
      <4> HIDE DEF o2, o3, B
      <4> QED
        BY <4>1, <4>4, <4>5, RunsSeq, RunsThen
    <3>2. ASSUME NEW f \in {"soft", "free", "bad"}
          PROVE  Runs(j, o2, W(Any, MASKALL), Pulse(f), o2, M)
      <4> DEFINE setup == setup_pedestals({f}, {"ok", "bad"}, {c}, Failed)
                 shots == IF f = "soft" THEN While(multi_softgt) ELSE Nothing
      <4>1. {f} \in SUBSET {"soft", "free", "bad"} /\ {"ok", "bad"} \in SUBSET {"ok", "bad"}
        OBVIOUS
      <4>2. Runs(j, o2, W(Any, MASKALL), setup, o2, M)
        <5> HIDE DEF Failed, B
        <5> QED
          BY <1>0, <3>1, <4>1, PedestalsSet
      <4>3. Steady(j, o2, M, shots)
        <5>1. \A h \in M : h.up /\ ~PennTeststand => h.mtc.pmsk \subseteq j.crates \cup {Tub}
          BY DEF W
        <5>2. Steady(j, o2, M, multi_softgt)
          BY <1>0, <5>1, RunsGt DEF send_softgt, multi_softgt
        <5> HIDE DEF o2, M
        <5>3. Steady(j, o2, M, While(multi_softgt)) /\ Steady(j, o2, M, Nothing)
          BY <1>0, <5>2, RunsWhile, RunsNothing
        <5> QED
          BY <5>3
      <4>4. Pulse(f) = setup \o shots
        OBVIOUS
      <4> HIDE DEF o2, M, setup, shots, Pulse
      <4> QED
        BY <4>2, <4>3, <4>4, RunsSeq DEF Steady
    <3> HIDE DEF o2, M, M0, Pulse
    <3>3. \A q \in {Pulse(f) : f \in {"soft", "free", "bad"}} : Runs(j, o2, W(Any, MASKALL), q, o2, M)
      BY <3>2
    <3>4. Runs(j, o2, W(Any, MASKALL), Choose({Pulse(f) : f \in {"soft", "free", "bad"}}), o2, M)
      BY <1>0, <3>3, RunsChoose
    <3> QED
      BY <1>0, <3>4, RunsWeaker
  <2>3. Runs(j, o2, M, disable_pulser, o2, W(Off, {c}))
    BY <1>0, ControlChanges
  <2>4. Steady(j, o2, W(Off, {c}), While(bundles))
    <3>1. "pmt_buffer" \in B /\ {"ped"} \in SUBSET B
      OBVIOUS
    <3> HIDE DEF B
    <3>2. /\ Steady(j, o2, W(Off, {c}), read_out_bundles(c, "pmt_buffer"))
          /\ Steady(j, o2, W(Off, {c}), Store({"ped"})) /\ Steady(j, o2, W(Off, {c}), Document(c))
      BY <1>0, <3>1, CrateSteady, RunsStore
    <3> HIDE DEF o2
    <3>3. Steady(j, o2, W(Off, {c}), bundles)
      BY <3>2, SteadySeq
    <3> QED
      BY <1>0, <3>3, RunsWhile
  <2>5. Runs(j, o2, W(Off, {c}), free(B), o3, W(Off, {c}))
    <3>1. Runs(j, o2, W(Off, {c}), free(B), Owns(D, {}, A \ B, {} \cup (A \cap B)), W(Off, {c}))
      <4> HIDE DEF B
      <4> QED
        BY <1>0, RunsFreeing
    <3>2. A \ B = {} /\ {} \cup (A \cap B) = A
      OBVIOUS
    <3> QED
      BY <3>1, <3>2
  <2>6. Runs(j, o3, W(Off, {c}), unset_masks, o3, W(Still, {}))
    BY <1>0, MasksUnset
  <2>7. /\ Steady(j, o3, W(Still, {}), set_crate_pedestals(c, FALSE))
        /\ Steady(j, o3, W(Still, {}), deselect_fecs(c))
    BY <1>0, CrateSteady
  <2>8. Ends(j, o3, W(Still, {}), MtcExits(c))
    BY <1>0, ExitEnds DEF MtcExits
  <2>9. Runs(j, o2, M0, pulses, o2, M)
    BY <2>2 DEF pulses
  <2> HIDE DEF o2, o3, B, M0, M, pulses, bundles
  <2>10. Runs(j, o2, M0, StartPedestals(c) \o pulses \o disable_pulser, o2, W(Off, {c}))
    BY <2>1, <2>3, <2>9, RunsSeq DEF Steady
  <2>11. Runs(j, o2, M0, StartPedestals(c) \o pulses \o disable_pulser
                         \o While(bundles) \o free(B) \o unset_masks
                         \o set_crate_pedestals(c, FALSE) \o deselect_fecs(c), o3, W(Still, {}))
    BY <2>4, <2>5, <2>6, <2>7, <2>10, RunsSeq DEF Steady
  <2> QED
    BY <2>8, <2>11, RunsThen DEF o2
<1>2. \A A \in SUBSET B : Ends(j, Owns(D, {}, {} \cup A, {} \ A), M0, p)
  <2>1. \A A : {} \cup A = A /\ {} \ A = {}
    OBVIOUS
  <2> HIDE DEF p, B
  <2> QED
    BY <1>1, <2>1
<1>3. ped_run(c) = Handler(D, malloc_unchecked(B, p))
  BY DEF ped_run
<1> HIDE DEF p, B, M0, D
<1>4. Ends(j, Owns(D, {}, {}, {}), M0, malloc_unchecked(B, p))
  BY <1>0, <1>2, UncheckedEnds
<1> QED
  BY <1>0, <1>3, <1>4, HandlerSafe DEF M0

LEMMA SeeReflSafe ==
  ASSUME NEW j, NEW c \in Crates, j.name \in LeavePulses
  PROVE  Safe(j, see_refl(c))
<1> DEFINE D == {Sbc, c}
           o == Owns(D, {}, {}, {})
           M0 == W(Still, MASKALL)
           M == W(Any, {c})
           St(q) == Steady(j, o, M, q)
           Channel == set_crate_pedestals(c, TRUE) \o setup_chinj(c) \o MayFail(MtcExits(c))
           Pulse(f) == setup_pedestals({f}, {"ok"}, {c}, unset_masks \o MtcExits(c))
<1>0. /\ M0 \in SUBSET Views /\ M \in SUBSET Views /\ Fragile(M)
      /\ W(Any, MASKALL) \in SUBSET Views
      /\ Sbc \in D /\ c \in D /\ c # Sbc /\ {c} \in SUBSET MASKALL
      /\ M0 \subseteq W(Any, MASKALL)
  BY SeenViews, SeenMono, StillStates, CrateFacts
<1>1. \A X, K : Ends(j, o, W(X, K), MtcExits(c))
  BY <1>0, ExitEnds DEF MtcExits
<1>2. Runs(j, o, M0, Choose({Pulse(f) : f \in {"soft", "free", "bad"}}), o, M)
  <2>1. Ends(j, o, W(Any, MASKALL), unset_masks \o MtcExits(c))
    BY <1>0, <1>1, UnsetThen
  <2>2. ASSUME NEW f \in {"soft", "free", "bad"}
        PROVE  Runs(j, o, W(Any, MASKALL), Pulse(f), o, M)
    <3>1. {f} \in SUBSET {"soft", "free", "bad"} /\ {"ok"} \in SUBSET {"ok", "bad"}
      OBVIOUS
    <3> QED
      BY <1>0, <2>1, <3>1, PedestalsSet
  <2> HIDE DEF o, M, M0, Pulse
  <2>3. \A q \in {Pulse(f) : f \in {"soft", "free", "bad"}} : Runs(j, o, W(Any, MASKALL), q, o, M)
    BY <2>2
  <2>4. Runs(j, o, W(Any, MASKALL), Choose({Pulse(f) : f \in {"soft", "free", "bad"}}), o, M)
    BY <1>0, <2>3, RunsChoose
  <2> QED
    BY <1>0, <2>4, RunsWeaker
<1>3. /\ St(set_crate_pedestals(c, TRUE)) /\ St(setup_chinj(c)) /\ St(Document(c))
      /\ St(deselect_fecs(c))
  BY <1>0, CrateSteady
<1>4. St(MayFail(MtcExits(c)))
  BY <1>0, <1>1, SteadyMayFail
<1>5. St(disable_pulser)
  BY <1>0, ControlChanges
<1>6. /\ \A p, q : St(p) /\ St(q) => St(p \o q)
      /\ \A p : St(p) => St(While(p))
  BY <1>0, SteadyClosed
<1> DEFINE pulses == Choose({Pulse(f) : f \in {"soft", "free", "bad"}})
           look == While(While(Channel) \o setup_chinj(c) \o Document(c))
<1>7. St(look)
  <2> HIDE DEF St
  <2>1. St(Channel)
    BY <1>3, <1>4, <1>6
  <2> HIDE DEF Channel
  <2> QED
    BY <1>3, <1>6, <2>1
<1>8. Runs(j, o, M0, pulses \o look \o disable_pulser \o deselect_fecs(c), o, M)
  <2>1. Runs(j, o, M0, pulses, o, M)
    BY <1>2
  <2> HIDE DEF o, M0, M, pulses, look
  <2> QED
    BY <1>3, <1>5, <1>7, <2>1, RunsSeq DEF Steady
<1>9. see_refl(c) = MtcTest(c, pulses \o look \o disable_pulser \o deselect_fecs(c))
  BY DEF see_refl
<1> HIDE DEF pulses, look
<1> QED
  BY <1>8, <1>9, MtcTestSafe

-----------------------------------------------------------------------------
(* Commands for several crates.                                             *)

LEMMA CratesFacts ==
  ASSUME NEW C \in SUBSET Crates
  PROVE  /\ C \cup {Sbc} \in SUBSET Devices /\ C \in SUBSET Devices /\ Sbc \notin C
         /\ C \cup {Tub} \in SUBSET MASKALL /\ C \in SUBSET MASKALL
         /\ \A c \in C : c # Sbc
         /\ {Away} \in SUBSET Views
<1>1. {Away} \in SUBSET Views
  BY DEF Away, Views, View, MtcStates
<1>2. \A c \in Crates : c # 0
  BY StepsConstantsOK DEF Crates
<1> QED
  BY <1>1, <1>2 DEF Sbc, Devices, MASKALL

LEMMA TriggerScanSafe ==
  ASSUME NEW j, NEW C \in SUBSET Crates, C \subseteq j.crates
  PROVE  Safe(j, trigger_scan(C))
<1> DEFINE D == C \cup {Sbc}
           o == Owns(D, {}, {}, {})
           M0 == W(Still, MASKALL)
           M == W(Soft, C)
           St(q) == Steady(j, o, M, q)
           body == [c \in C |-> While(xl3_rw(c))]
           Masks     == ForCrates(body)
           Threshold == unset_gt_mask \o load_mtca_dacs \o set_gt_mask
           Nhit      == Masks \o get_gt_count \o multi_softgt \o get_gt_count
<1>0. /\ M0 \in SUBSET Views /\ M \in SUBSET Views /\ Fragile(M)
      /\ Sbc \in D /\ C \in SUBSET MASKALL /\ D \in SUBSET Devices
      /\ M0 \subseteq W(Any, MASKALL)
      /\ \A c \in C : c \in D /\ c # Sbc
  BY SeenViews, SeenMono, StillStates, CratesFacts
<1>1. Runs(j, o, M0, setup_softgt_pedestals(C), o, M)
  <2>1. Runs(j, o, W(Any, MASKALL), setup_softgt_pedestals(C), o, M)
    BY <1>0, SoftPedestalsSet
  <2> HIDE DEF o, M0, M
  <2> QED
    BY <1>0, <2>1, RunsWeaker
<1>2. St(unset_gt_mask) /\ St(load_mtca_dacs) /\ St(set_gt_mask) /\ St(get_gt_count)
  BY <1>0, MtcSteady
<1>3. St(multi_softgt)
  <2>1. \A h \in M : h.up /\ ~PennTeststand => h.mtc.pmsk \subseteq j.crates \cup {Tub}
    BY DEF W
  <2> QED
    BY <1>0, <2>1, RunsGt DEF send_softgt, multi_softgt
<1>4. /\ \A p, q : St(p) /\ St(q) => St(p \o q)
      /\ \A p : St(p) => St(While(p))
  BY <1>0, SteadyClosed
<1>5. St(Masks)
  <2>1. \A c \in C : St(xl3_rw(c))
    BY <1>0, CrateSteady
  <2>2. \A c \in C : St(While(xl3_rw(c)))
    BY <1>4, <2>1
  <2>3. \A c \in DOMAIN body : Steady(j, o, M, body[c])
    BY <2>2
  <2> HIDE DEF body, o, M
  <2> QED
    BY <1>0, <2>3, RunsEach
<1>6. St(While(Threshold \o While(Nhit)))
  <2> HIDE DEF St, Masks
  <2>1. St(Threshold) /\ St(Nhit)
    BY <1>2, <1>3, <1>4, <1>5
  <2> HIDE DEF Threshold, Nhit
  <2> QED
    BY <1>4, <2>1
<1>7. Ends(j, o, M, unthread_and_unlock(D))
  BY <1>0, StillStates, ExitEnds
<1> DEFINE p == setup_softgt_pedestals(C) \o Masks \o While(Threshold \o While(Nhit))
                \o unset_gt_mask \o unthread_and_unlock(D)
<1>8. Ends(j, o, M0, p)
  <2> HIDE DEF o, D, M0, M, Masks, Threshold, Nhit
  <2>1. Runs(j, o, M0, setup_softgt_pedestals(C) \o Masks \o While(Threshold \o While(Nhit))
                       \o unset_gt_mask, o, M)
    BY <1>1, <1>2, <1>5, <1>6, RunsSeq DEF Steady
  <2> QED
    BY <1>7, <2>1, RunsThen
<1>9. trigger_scan(C) = Handler(D, p)
  BY DEF trigger_scan
<1> HIDE DEF p
<1> QED
  BY <1>0, <1>8, <1>9, HandlerSafe

LEMMA FindNoiseSafe ==
  ASSUME NEW j, NEW C \in SUBSET Crates, C \subseteq j.crates, j.name \in Unchecked
  PROVE  Safe(j, find_noise(C))
<1> DEFINE D == C \cup {Sbc}
           Counts == {"base_noise", "readout_noise"}
           V == {"vthr_zeros"}
           B == V \cup Counts
           FreeAll == free(B)
           M0 == W(Still, MASKALL)
           M == W(Soft, C)
           Quit(x) == unthread_and_unlock(D) \o x
           loads  == [c \in C |-> While(multi_loadsDac(c) \o MayFail(Quit(FreeAll)))]
           resets == [c \in C |-> do_xl3_cmd(c) \o While(xl3_rw(c))]
           masks  == [c \in C |-> While(xl3_rw(c))]
           reads  == [c \in C |-> do_xl3_cmd(c) \o Store(Counts)]
           lowers == [c \in C |-> While(loadsDac(c))]
           docs   == [c \in C |-> Documents(c)]
           zeros == [c \in C |-> Maybe(update_crate_config(c)) \o MayFail(Quit(free(V))) \o Store(V)]
           AllZeros  == ForCrates(zeros)
           LoadZeros == ForCrates(loads)
           Reset     == ForCrates(resets)
           Mask      == ForCrates(masks)
           ReadNoise == ForCrates(reads)
           Lower     == ForCrates(lowers)
           Post      == ForCrates(docs)
           Rounds == While(Mask \o While(multi_softgt \o ReadNoise) \o Lower)
           Noise == setup_softgt_pedestals(C) \o LoadZeros \o Reset \o Mask \o Rounds \o Post
                    \o FreeAll \o unthread_and_unlock(D)
           Whole == AllZeros \o malloc_unchecked(Counts, Noise)
<1>0. /\ M0 \in SUBSET Views /\ M \in SUBSET Views /\ Fragile(M) /\ {Away} \in SUBSET Views
      /\ Sbc \in D /\ C \in SUBSET MASKALL /\ D \in SUBSET Devices
      /\ M0 \subseteq W(Any, MASKALL)
      /\ \A c \in C : c \in D /\ c # Sbc
  BY SeenViews, SeenMono, StillStates, CratesFacts
\* The buffers are given back after the devices.
<1>1. ASSUME NEW X \in {Still, Soft}, NEW K, NEW N, NEW L \in SUBSET N
      PROVE  Ends(j, Owns(D, {}, L, {}), W(X, K), Quit(free(N)))
  <2>1. Runs(j, Owns({}, {}, L, {}), {Away}, free(N), Owns({}, {}, L \ N, {} \cup (L \cap N)), {Away})
    BY <1>0, RunsFreeing
  <2>2. Done(j, Owns({}, {}, L \ N, {} \cup (L \cap N)))
    BY DEF Done, Owns
  <2>3. Ends(j, Owns({}, {}, L, {}), {Away}, free(N))
    BY <2>1, <2>2 DEF Ends
  <2>4. \A h \in W(X, K) : h.calm => ~Pulsing(h.mtc)
    BY StillStates DEF W, Still
  <2>5. W(X, K) \in SUBSET Views
    BY SeenViews
  <2>6. Runs(j, Owns(D, {}, L, {}), W(X, K), unthread_and_unlock(D), Owns({}, {}, L, {}), {Away})
    BY <1>0, <2>4, <2>5, RunsEnd
  <2> QED
    BY <2>3, <2>6, RunsThen
\* The thresholds, if malloc gave the buffers of A.
<1>2. ASSUME NEW A \in SUBSET V
      PROVE  Steady(j, Owns(D, {}, A, {}), M0, AllZeros)
  <2> DEFINE o1 == Owns(D, {}, A, {})
  <2>1. Steady(j, o1, M0, ForCrates(zeros))
    <3> DEFINE St(q) == Steady(j, o1, M0, q)
    <3>1. \A c \in C : St(update_crate_config(c))
      BY <1>0, CrateSteady
    <3>2. St(Store(V))
      BY <1>0, RunsStore
    <3>3. St(MayFail(Quit(free(V))))
      <4>1. Ends(j, o1, M0, Quit(free(V)))
        BY <1>1
      <4> HIDE DEF Quit
      <4> QED
        BY <1>0, <4>1, SteadyMayFail
    <3>4. /\ \A p, q : St(p) /\ St(q) => St(p \o q)
          /\ \A p : St(p) => St(Maybe(p))
      BY <1>0, SteadyClosed
    <3>5. \A c \in C : St(Maybe(update_crate_config(c)) \o MayFail(Quit(free(V))) \o Store(V))
      <4> HIDE DEF St, Quit, V
      <4> QED
        BY <3>1, <3>2, <3>3, <3>4
    <3>6. \A c \in DOMAIN zeros : Steady(j, o1, M0, zeros[c])
      BY <3>5
    <3> HIDE DEF zeros, o1, M0
    <3> QED
      BY <1>0, <3>6, RunsEach
  <2> QED
    BY <2>1
\* The noise.
<1>3. ASSUME NEW A \in SUBSET B PROVE Ends(j, Owns(D, {}, A, {}), M0, Noise)
  <2> DEFINE o2 == Owns(D, {}, A, {})
             o3 == Owns(D, {}, {}, A)
  <2>1. Runs(j, o2, M0, setup_softgt_pedestals(C), o2, M)
    <3>1. Runs(j, o2, W(Any, MASKALL), setup_softgt_pedestals(C), o2, M)
      BY <1>0, SoftPedestalsSet
    <3> HIDE DEF o2, M0, M
    <3> QED
      BY <1>0, <3>1, RunsWeaker
  <2> DEFINE St(q) == Steady(j, o2, M, q)
  <2>2. /\ \A p, q : St(p) /\ St(q) => St(p \o q)
        /\ \A p : St(p) => St(While(p)) /\ St(Maybe(p))
    BY <1>0, SteadyClosed
  <2>3. \A c \in C : /\ St(do_xl3_cmd(c)) /\ St(xl3_rw(c)) /\ St(multi_loadsDac(c))
                     /\ St(loadsDac(c)) /\ St(Documents(c))
    BY <1>0, CrateSteady
  <2>4. St(multi_softgt)
    <3>1. \A h \in M : h.up /\ ~PennTeststand => h.mtc.pmsk \subseteq j.crates \cup {Tub}
      BY DEF W
    <3> QED
      BY <1>0, <3>1, RunsGt DEF send_softgt, multi_softgt
  <2>5. St(MayFail(Quit(FreeAll)))
    <3>1. Ends(j, o2, M, Quit(FreeAll))
      BY <1>1
    <3> HIDE DEF Quit, FreeAll
    <3> QED
      BY <1>0, <3>1, SteadyMayFail
  <2>6. St(Store(Counts))
    BY <1>0, RunsStore
  <2>7. \A f : DOMAIN f = C /\ (\A c \in C : St(f[c])) => St(ForCrates(f))
    <3> HIDE DEF o2, M
    <3> QED
      BY <1>0, RunsEach
  <2>8. /\ St(LoadZeros) /\ St(Reset) /\ St(Mask) /\ St(ReadNoise) /\ St(Lower) /\ St(Post)
    <3> HIDE DEF St, Quit, FreeAll, Counts
    <3>1. \A c \in C : /\ St(While(multi_loadsDac(c) \o MayFail(Quit(FreeAll))))
                       /\ St(do_xl3_cmd(c) \o While(xl3_rw(c)))
                       /\ St(While(xl3_rw(c)))
                       /\ St(do_xl3_cmd(c) \o Store(Counts))
                       /\ St(While(loadsDac(c)))
                       /\ St(Documents(c))
      BY <2>2, <2>3, <2>5, <2>6
    <3>2. /\ DOMAIN loads = C /\ \A c \in C : St(loads[c])
          /\ DOMAIN resets = C /\ \A c \in C : St(resets[c])
          /\ DOMAIN masks = C /\ \A c \in C : St(masks[c])
          /\ DOMAIN reads = C /\ \A c \in C : St(reads[c])
          /\ DOMAIN lowers = C /\ \A c \in C : St(lowers[c])
          /\ DOMAIN docs = C /\ \A c \in C : St(docs[c])
      BY <3>1
    <3> HIDE DEF loads, resets, masks, reads, lowers, docs
    <3> QED
      BY <2>7, <3>2
  <2>9. St(Rounds)
    <3> HIDE DEF St, Mask, ReadNoise, Lower
    <3> QED
      BY <2>2, <2>4, <2>8
  <2>10. Runs(j, o2, M, FreeAll, o3, M)
    <3>1. Runs(j, o2, M, FreeAll, Owns(D, {}, A \ B, {} \cup (A \cap B)), M)
      <4> HIDE DEF B
      <4> QED
        BY <1>0, RunsFreeing
    <3>2. A \ B = {} /\ {} \cup (A \cap B) = A
      OBVIOUS
    <3> QED
      BY <3>1, <3>2
  <2>11. Ends(j, o3, M, unthread_and_unlock(D))
    BY <1>0, StillStates, ExitEnds
  <2> HIDE DEF o2, o3, D, V, Counts, B, M0, M, LoadZeros, Reset, Mask, Rounds, Post, FreeAll
  <2>12. Runs(j, o2, M0, setup_softgt_pedestals(C) \o LoadZeros \o Reset \o Mask, o2, M)
    BY <2>1, <2>8, RunsSeq DEF Steady
  <2>13. Runs(j, o2, M0, setup_softgt_pedestals(C) \o LoadZeros \o Reset \o Mask
                         \o Rounds \o Post \o FreeAll, o3, M)
    BY <2>8, <2>9, <2>10, <2>12, RunsSeq DEF Steady
  <2> QED
    BY <2>11, <2>13, RunsThen DEF o2
<1>4. \A A \in SUBSET V : Ends(j, Owns(D, {}, {} \cup A, {} \ A), M0, Whole)
  <2> SUFFICES ASSUME NEW A \in SUBSET V
               PROVE  Ends(j, Owns(D, {}, {} \cup A, {} \ A), M0, Whole)
    OBVIOUS
  <2> HIDE DEF Noise, AllZeros, M0, D
  <2>1. ASSUME NEW N \in SUBSET Counts
        PROVE  Ends(j, Owns(D, {}, A \cup N, {} \ N), M0, Noise)
    <3>1. A \cup N \in SUBSET B /\ {} \ N = {}
      OBVIOUS
    <3> HIDE DEF B, Counts, V
    <3> QED
      BY <1>3, <3>1
  <2>2. Ends(j, Owns(D, {}, A, {}), M0, malloc_unchecked(Counts, Noise))
    <3> HIDE DEF Counts
    <3> QED
      BY <1>0, <2>1, UncheckedEnds
  <2>3. Ends(j, Owns(D, {}, A, {}), M0, Whole)
    BY <1>2, <2>2, SteadyThen
  <2>4. {} \cup A = A /\ {} \ A = {}
    OBVIOUS
  <2> HIDE DEF Whole, V
  <2> QED
    BY <2>3, <2>4
<1>5. find_noise(C) = Handler(D, malloc_unchecked(V, Whole))
  BY DEF find_noise
<1> HIDE DEF Whole, M0, D, V
<1>6. Ends(j, Owns(D, {}, {}, {}), M0, malloc_unchecked(V, Whole))
  BY <1>0, <1>4, UncheckedEnds
<1> QED
  BY <1>0, <1>5, <1>6, HandlerSafe DEF M0

LEMMA RunPedestalsSafe ==
  ASSUME NEW j, NEW C \in SUBSET Crates, j.name \in LeavePulses
  PROVE  Safe(j, run_pedestals(TRUE, C))
<1> DEFINE D == C \cup {Sbc}
           o == Owns(D, {}, {}, {})
           M0 == W(Still, MASKALL)
           M == W(Any, C \cup {Tub})
           Failed == unset_masks \o unthread_and_unlock(D)
           starts == [c \in C |-> StartPedestals(c)]
           reads  == [c \in C |-> ReadOut(c)]
           setup == setup_pedestals({"soft", "free", "bad"}, {"ok", "bad"}, C \cup {Tub}, Failed)
<1>0. /\ M0 \in SUBSET Views /\ M \in SUBSET Views
      /\ Sbc \in D /\ C \cup {Tub} \in SUBSET MASKALL /\ D \in SUBSET Devices
      /\ M0 \subseteq W(Any, MASKALL)
      /\ \A c \in C : c \in D /\ c # Sbc
  BY SeenViews, SeenMono, StillStates, CratesFacts
<1>1. Steady(j, o, M0, ForCrates(starts))
  <2>1. \A c \in DOMAIN starts : Steady(j, o, M0, starts[c])
    BY <1>0, CrateSteady
  <2> HIDE DEF starts, o, M0
  <2> QED
    BY <1>0, <2>1, RunsEach
<1>2. Steady(j, o, M, ForCrates(reads))
  <2>1. \A c \in DOMAIN reads : Steady(j, o, M, reads[c])
    BY <1>0, CrateSteady
  <2> HIDE DEF reads, o, M
  <2> QED
    BY <1>0, <2>1, RunsEach
<1>3. \A X, K : Ends(j, o, W(X, K), unthread_and_unlock(D))
  BY <1>0, ExitEnds
<1>4. Runs(j, o, M0, setup, o, M)
  <2>1. Ends(j, o, W(Any, MASKALL), Failed)
    BY <1>0, <1>3, UnsetThen
  <2>2. /\ {"soft", "free", "bad"} \in SUBSET {"soft", "free", "bad"}
        /\ {"ok", "bad"} \in SUBSET {"ok", "bad"}
    OBVIOUS
  <2>3. Runs(j, o, W(Any, MASKALL), setup, o, M)
    <3> HIDE DEF Failed, D
    <3> QED
      BY <1>0, <2>1, <2>2, PedestalsSet
  <2> HIDE DEF o, setup, M, M0
  <2> QED
    BY <1>0, <2>3, RunsWeaker
<1> DEFINE p == ForCrates(starts) \o setup \o ForCrates(reads) \o unthread_and_unlock(D)
<1>5. Ends(j, o, M0, p)
  <2>1. Ends(j, o, M, unthread_and_unlock(D))
    BY <1>3
  <2> HIDE DEF o, D, M0, M, starts, reads, setup
  <2>2. Runs(j, o, M0, ForCrates(starts) \o setup \o ForCrates(reads), o, M)
    BY <1>1, <1>2, <1>4, RunsSeq DEF Steady
  <2> QED
    BY <2>1, <2>2, RunsThen
<1>6. run_pedestals(TRUE, C) = Handler(D, p)
  BY DEF run_pedestals
<1> HIDE DEF p
<1> QED
  BY <1>0, <1>5, <1>6, HandlerSafe

LEMMA RunPedestalsCrateSafe ==
  ASSUME NEW j, NEW C \in SUBSET Crates
  PROVE  Safe(j, run_pedestals(FALSE, C))
<1> DEFINE o == Owns(C, {}, {}, {})
           M == {Away}
           starts == [c \in C |-> StartPedestals(c)]
           reads  == [c \in C |-> ReadOut(c)]
<1>0. M \in SUBSET Views /\ Sbc \notin C /\ C \in SUBSET Devices /\ \A c \in C : c # Sbc
  BY CratesFacts
<1>1. Steady(j, o, M, ForCrates(starts)) /\ Steady(j, o, M, ForCrates(reads))
  <2>1. \A c \in C : Steady(j, o, M, StartPedestals(c)) /\ Steady(j, o, M, ReadOut(c))
    BY <1>0, CrateSteady
  <2>2. /\ \A c \in DOMAIN starts : Steady(j, o, M, starts[c])
        /\ \A c \in DOMAIN reads : Steady(j, o, M, reads[c])
    BY <2>1
  <2> HIDE DEF starts, reads, o, M
  <2> QED
    BY <1>0, <2>2, RunsEach
<1>2. Steady(j, o, M, Nothing)
  BY <1>0, RunsNothing
<1>3. Ends(j, o, M, unthread_and_unlock(C))
  BY <1>0, ExitEnds
<1> DEFINE p == ForCrates(starts) \o Nothing \o ForCrates(reads) \o unthread_and_unlock(C)
<1>4. Ends(j, o, M, p)
  <2> HIDE DEF o, M, starts, reads
  <2>1. Steady(j, o, M, ForCrates(starts) \o Nothing \o ForCrates(reads))
    BY <1>1, <1>2, SteadySeq
  <2> QED
    BY <1>3, <2>1, SteadyThen
<1>5. run_pedestals(FALSE, C) = Handler(C, p)
  <2>1. C \cup {} = C
    OBVIOUS
  <2> QED
    BY <2>1 DEF run_pedestals
<1> HIDE DEF p
<1> QED
  BY <1>0, <1>4, <1>5, HandlerSafe

\* The mode of the first crate is changed, whichever crates there are.
LEMMA RunPedestalsEndSafe ==
  ASSUME NEW j, NEW C \in SUBSET Crates, C = {} \/ FirstCrate \in C \/ ~EndsFirst(j)
  PROVE  Safe(j, run_pedestals_end(TRUE, C))
<1> DEFINE D == C \cup {Sbc}
           o == Owns(D, {}, {}, {})
           M0 == W(Still, MASKALL)
           stops == [c \in C |-> StopPedestals(c)]
<1>0. /\ M0 \in SUBSET Views /\ Sbc \in D /\ D \in SUBSET Devices
      /\ M0 \subseteq W(Any, MASKALL) /\ MASKALL \in SUBSET MASKALL
      /\ \A c \in C : c \in D /\ c # Sbc
  BY SeenViews, SeenMono, StillStates, CratesFacts
<1>1. Steady(j, o, M0, ForCrates(stops))
  <2>1. \A c \in C : Steady(j, o, M0, StopPedestals(c))
    <3> SUFFICES ASSUME NEW c \in C PROVE Steady(j, o, M0, StopPedestals(c))
      OBVIOUS
    <3>1. FirstCrate \in D \/ ~EndsFirst(j)
      OBVIOUS
    <3>2. /\ Steady(j, o, M0, change_mode("INIT_MODE", FirstCrate))
          /\ Steady(j, o, M0, set_crate_pedestals(c, FALSE))
      BY <1>0, <3>1, RunsMode, CrateSteady
    <3> QED
      BY <3>2, SteadySeq DEF StopPedestals
  <2>2. \A c \in DOMAIN stops : Steady(j, o, M0, stops[c])
    BY <2>1
  <2> HIDE DEF stops, o, M0
  <2> QED
    BY <1>0, <2>2, RunsEach
<1>2. Runs(j, o, M0, disable_pulser, o, W(Off, MASKALL))
  <2>1. Runs(j, o, W(Any, MASKALL), disable_pulser, o, W(Off, MASKALL))
    BY <1>0, ControlChanges
  <2> HIDE DEF o, M0
  <2> QED
    BY <1>0, <2>1, RunsWeaker
<1>3. Steady(j, o, W(Off, MASKALL), disable_pedestal)
  BY <1>0, ControlChanges
<1>4. Runs(j, o, W(Off, MASKALL), unset_masks, o, W(Still, {}))
  BY <1>0, MasksUnset
<1>5. Ends(j, o, W(Still, {}), unthread_and_unlock(D))
  BY <1>0, ExitEnds
<1> DEFINE p == ForCrates(stops) \o (disable_pulser \o disable_pedestal \o unset_masks)
                \o unthread_and_unlock(D)
<1>6. Ends(j, o, M0, p)
  <2> HIDE DEF o, D, M0, stops
  <2>1. Runs(j, o, M0, disable_pulser \o disable_pedestal \o unset_masks, o, W(Still, {}))
    BY <1>2, <1>3, <1>4, RunsSeq DEF Steady
  <2>2. Runs(j, o, M0, ForCrates(stops) \o (disable_pulser \o disable_pedestal \o unset_masks), o, W(Still, {}))
    BY <1>1, <2>1, RunsSeq DEF Steady
  <2> QED
    BY <1>5, <2>2, RunsThen
<1>7. run_pedestals_end(TRUE, C) = Handler(D, p)
  BY DEF run_pedestals_end
<1> HIDE DEF p
<1> QED
  BY <1>0, <1>6, <1>7, HandlerSafe

LEMMA RunPedestalsEndCrateSafe ==
  ASSUME NEW j, NEW C \in SUBSET Crates, C = {} \/ FirstCrate \in C \/ ~EndsFirst(j)
  PROVE  Safe(j, run_pedestals_end(FALSE, C))
<1> DEFINE o == Owns(C, {}, {}, {})
           M == {Away}
           stops == [c \in C |-> StopPedestals(c)]
<1>0. M \in SUBSET Views /\ Sbc \notin C /\ C \in SUBSET Devices /\ \A c \in C : c # Sbc
  BY CratesFacts
<1>1. Steady(j, o, M, ForCrates(stops))
  <2>1. \A c \in C : Steady(j, o, M, StopPedestals(c))
    <3> SUFFICES ASSUME NEW c \in C PROVE Steady(j, o, M, StopPedestals(c))
      OBVIOUS
    <3>1. FirstCrate \in C \/ ~EndsFirst(j)
      OBVIOUS
    <3>2. /\ Steady(j, o, M, change_mode("INIT_MODE", FirstCrate))
          /\ Steady(j, o, M, set_crate_pedestals(c, FALSE))
      BY <1>0, <3>1, RunsMode, CrateSteady
    <3> QED
      BY <3>2, SteadySeq DEF StopPedestals
  <2>2. \A c \in DOMAIN stops : Steady(j, o, M, stops[c])
    BY <2>1
  <2> HIDE DEF stops, o, M
  <2> QED
    BY <1>0, <2>2, RunsEach
<1>2. Steady(j, o, M, Nothing)
  BY <1>0, RunsNothing
<1>3. Ends(j, o, M, unthread_and_unlock(C))
  BY <1>0, ExitEnds
<1> DEFINE p == ForCrates(stops) \o Nothing \o unthread_and_unlock(C)
<1>4. Ends(j, o, M, p)
  <2> HIDE DEF o, M, stops
  <2>1. Steady(j, o, M, ForCrates(stops) \o Nothing)
    BY <1>1, <1>2, SteadySeq
  <2> QED
    BY <1>3, <2>1, SteadyThen
<1>5. run_pedestals_end(FALSE, C) = Handler(C, p)
  <2>1. C \cup {} = C
    OBVIOUS
  <2> QED
    BY <2>1 DEF run_pedestals_end
<1> HIDE DEF p
<1> QED
  BY <1>0, <1>4, <1>5, HandlerSafe

-----------------------------------------------------------------------------
(* The table.                                                               *)

LEMMA MtcTableSafe ==
  ASSUME NEW j, InTable(j), j.name \in OfTheMtc
  PROVE  Safe(j, Command(j.name, j.crates))
<1>0. j.crates = {} /\ {} \in SUBSET Crates
  BY DEF InTable
<1>1. CASE j.name = "sbc_control"
  BY <1>1, SbcControlSafe DEF Command
<1>2. CASE j.name = "mtc_init"
  BY <1>2, MtcInitSafe DEF Command
<1>3. CASE j.name = "run_pedestals_mtc"
  BY <1>0, <1>3, RunPedestalsSafe DEF Command, LeavePulses
<1>4. CASE j.name = "run_pedestals_end_mtc"
  BY <1>0, <1>4, RunPedestalsEndSafe DEF Command
<1>5. CASE j.name \in {"mrw", "mtc_write", "set_ped_crate_mask", "enable_pulser",
                       "enable_pedestal", "set_pulser_freq"}
  <2>1. j.name \in LeavePulses
    BY <1>5 DEF LeavePulses
  <2>2. CASE j.name = "mrw"
    BY <2>1, <2>2, PulseCommandsSafe DEF Command
  <2>3. CASE j.name = "mtc_write"
    BY <2>1, <2>3, PulseCommandsSafe DEF Command
  <2>4. CASE j.name = "set_ped_crate_mask"
    BY <2>1, <2>4, PulseCommandsSafe DEF Command
  <2>5. CASE j.name = "enable_pulser"
    BY <2>1, <2>5, PulseCommandsSafe DEF Command
  <2>6. CASE j.name = "enable_pedestal"
    BY <2>1, <2>6, PulseCommandsSafe DEF Command
  <2>7. CASE j.name = "set_pulser_freq"
    BY <2>1, <2>7, PulseCommandsSafe DEF Command
  <2> QED
    BY <1>5, <2>2, <2>3, <2>4, <2>5, <2>6, <2>7
<1>6. CASE j.name \in {"mtc_read", "set_mtca_thresholds", "set_gt_mask", "set_gt_crate_mask",
                       "disable_pulser", "disable_pedestal", "send_softgt", "multi_softgt"}
  <2>1. CASE j.name = "mtc_read"
    BY <2>1, MtcCommandsSafe DEF Command
  <2>2. CASE j.name = "set_mtca_thresholds"
    BY <2>2, MtcCommandsSafe DEF Command
  <2>3. CASE j.name = "set_gt_mask"
    BY <2>3, MtcCommandsSafe DEF Command
  <2>4. CASE j.name = "set_gt_crate_mask"
    BY <2>4, MtcCommandsSafe DEF Command
  <2>5. CASE j.name = "disable_pulser"
    BY <2>5, MtcCommandsSafe DEF Command
  <2>6. CASE j.name = "disable_pedestal"
    BY <2>6, MtcCommandsSafe DEF Command
  <2>7. CASE j.name = "send_softgt"
    BY <1>0, <2>7, MtcCommandsSafe DEF Command
  <2>8. CASE j.name = "multi_softgt"
    BY <1>0, <2>8, MtcCommandsSafe DEF Command
  <2> QED
    BY <1>6, <2>1, <2>2, <2>3, <2>4, <2>5, <2>6, <2>7, <2>8
<1> QED
  BY <1>1, <1>2, <1>3, <1>4, <1>5, <1>6 DEF OfTheMtc

LEMMA CrateTableSafe ==
  ASSUME NEW j, InTable(j), j.name \in OfACrate
  PROVE  Safe(j, Command(j.name, j.crates))
<1> DEFINE c == CHOOSE d \in j.crates : TRUE
<1>0. c \in Crates /\ c \in j.crates
  BY DEF InTable
<1> HIDE DEF c
<1>1. CASE j.name = "xrw"
  BY <1>0, <1>1, CrateCommandsSafe DEF Command, c
<1>2. CASE j.name = "frw"
  BY <1>0, <1>2, CrateCommandsSafe DEF Command, c
<1>3. CASE j.name = "debugging_mode"
  BY <1>0, <1>3, CrateCommandsSafe DEF Command, c
<1>4. CASE j.name = "change_mode"
  BY <1>0, <1>4, CrateCommandsSafe DEF Command, c
<1>5. CASE j.name = "crate_init"
  BY <1>0, <1>5, CrateCommandsSafe DEF Command, c
<1>6. CASE j.name = "sm_reset"
  BY <1>0, <1>6, CrateCommandsSafe DEF Command, c
<1>7. CASE j.name = "read_local_voltage"
  BY <1>0, <1>7, CrateCommandsSafe DEF Command, c
<1>8. CASE j.name = "hv_readback"
  BY <1>0, <1>8, CrateCommandsSafe DEF Command, c
<1>9. CASE j.name = "xl3_rw"
  BY <1>0, <1>9, CrateCommandsSafe DEF Command, c
<1>10. CASE j.name = "xl3_queue_rw"
  BY <1>0, <1>10, CrateCommandsSafe DEF Command, c
<1>11. CASE j.name = "set_alarm_dac"
  BY <1>0, <1>11, CrateCommandsSafe DEF Command, c
<1>12. CASE j.name = "load_dac"
  BY <1>0, <1>12, CrateCommandsSafe DEF Command, c
<1>13. CASE j.name = "read_bundle"
  BY <1>0, <1>13, CrateCommandsSafe DEF Command, c
<1>14. CASE j.name = "setup_chinj"
  BY <1>0, <1>14, CrateCommandsSafe DEF Command, c
<1>15. CASE j.name = "fec_test"
  BY <1>0, <1>15, CrateCommandsSafe DEF Command, c
<1>16. CASE j.name = "mem_test"
  BY <1>0, <1>16, CrateCommandsSafe DEF Command, c
<1>17. CASE j.name = "vmon"
  BY <1>0, <1>17, CrateCommandsSafe DEF Command, c
<1>18. CASE j.name = "board_id"
  BY <1>0, <1>18, CrateCommandsSafe DEF Command, c
<1>19. CASE j.name = "zdisc"
  BY <1>0, <1>19, CrateCommandsSafe DEF Command, c
<1>20. CASE j.name = "disc_check"
  BY <1>0, <1>20, SoftTestsSafe DEF Command, c
<1>21. CASE j.name = "cgt_test"
  BY <1>0, <1>21, SoftTestsSafe DEF Command, c
<1>22. CASE j.name = "mb_stability_test"
  BY <1>0, <1>22, SoftTestsSafe DEF Command, c
<1>23. CASE j.name = "get_ttot"
  BY <1>0, <1>23, SoftTestsSafe DEF Command, c
<1>24. CASE j.name = "set_ttot"
  BY <1>0, <1>24, SoftTestsSafe DEF Command, c
<1>25. CASE j.name = "cmos_m_gtvalid"
  BY <1>0, <1>25, SoftTestsSafe DEF Command, c
<1>26. CASE j.name = "cald_test"
  BY <1>0, <1>26, CaldTestSafe DEF Command, c
<1>27. CASE j.name = "ped_run"
  BY <1>0, <1>27, PedRunSafe DEF Command, c, Unchecked
<1>28. CASE j.name = "see_refl"
  BY <1>0, <1>28, SeeReflSafe DEF Command, c, LeavePulses
<1>29. CASE j.name = "fifo_test"
  BY <1>0, <1>29, FifoTestSafe DEF Command, c
<1>30. CASE j.name = "chinj_scan"
  BY <1>0, <1>30, ChinjScanSafe DEF Command, c
<1>31. CASE j.name = "crate_cbal"
  BY <1>0, <1>31, CrateCbalSafe DEF Command, c
<1> QED
  BY <1>1, <1>2, <1>3, <1>4, <1>5, <1>6, <1>7, <1>8, <1>9, <1>10,
     <1>11, <1>12, <1>13, <1>14, <1>15, <1>16, <1>17, <1>18, <1>19, <1>20,
     <1>21, <1>22, <1>23, <1>24, <1>25, <1>26, <1>27, <1>28, <1>29, <1>30, <1>31 DEF OfACrate

LEMMA CratesTableSafe ==
  ASSUME NEW j, InTable(j), j.name \in OfCrates
  PROVE  Safe(j, Command(j.name, j.crates))
<1>0. j.crates \in SUBSET Crates /\ j.crates \subseteq j.crates
  BY DEF InTable
<1>1. CASE j.name = "run_pedestals"
  BY <1>0, <1>1, RunPedestalsSafe DEF Command, LeavePulses
<1>2. CASE j.name = "run_pedestals_crate"
  BY <1>0, <1>2, RunPedestalsCrateSafe DEF Command
<1>3. CASE j.name = "run_pedestals_end"
  BY <1>0, <1>3, RunPedestalsEndSafe DEF Command, EndsFirst
<1>4. CASE j.name = "run_pedestals_end_crate"
  BY <1>0, <1>4, RunPedestalsEndCrateSafe DEF Command, EndsFirst
<1>5. CASE j.name = "trigger_scan"
  BY <1>0, <1>5, TriggerScanSafe DEF Command
<1>6. CASE j.name = "find_noise"
  BY <1>0, <1>6, FindNoiseSafe DEF Command, Unchecked
<1> QED
  BY <1>1, <1>2, <1>3, <1>4, <1>5, <1>6 DEF OfCrates

\* Every handler of the dispatch table, run by itself from any state of the MTC: on each
\* path through its thread function it talks to what it has locked only (but for
\* run_pedestals_end, see EndsFirst), uses no buffer that it has freed, or, but for
\* Unchecked, could not have, and frees none twice, fires soft GTs with the right mask
\* only, leaves no free running pulses if none ran before and it is not there to leave
\* them, and ends with nothing locked and, but for Leaky, no buffers left.
THEOREM HandlersSafe ==
  \A j : InTable(j) => Safe(j, Command(j.name, j.crates))
BY MtcTableSafe, CrateTableSafe, CratesTableSafe DEF InTable

-----------------------------------------------------------------------------
(* Threads together.                                                        *)

\* What thread t has, and what it sees of the MTC.
Own(t) == Owns(held[t], {d \in held[t] : lock[d] = 2}, bufs[t].live, bufs[t].freed)
Seen(t) == IF Sbc \in held[t] THEN View(sbc_up, mtc, calm[t]) ELSE Away

\* p is what is left of a program that runs safely for job j.
OnItsWay(j, p, o, h) ==
  \E S, b, o2, M2 : Closed(j, S, o2, M2) /\ Done(j, o2) /\ <<p, b, o, h>> \in S

\* The inductive invariant. The locks are those of the devices that the threads have,
\* each has its own, and each thread that runs is on its way.
WInv ==
  /\ WTypeOK
  /\ job = [t \in Threads |-> job[t]]
  /\ todo = [t \in Threads |-> todo[t]]
  /\ bufs = [t \in Threads |-> [live |-> bufs[t].live, freed |-> bufs[t].freed]]
  /\ \A d \in Devices : (lock[d] # 0) <=> \E t \in Threads : d \in held[t]
  /\ \A t, u \in Threads : t # u => held[t] \cap held[u] = {}
  /\ \A t \in Threads :
       IF job[t] = Idle
       THEN todo[t] = Nothing /\ held[t] = {} /\ bufs[t] = NoBuffers
       ELSE OnItsWay(job[t], todo[t], Own(t), Seen(t))

LEMMA OwnFields ==
  ASSUME NEW t
  PROVE  /\ Own(t).held = held[t] /\ Own(t).lent = {d \in held[t] : lock[d] = 2}
         /\ Own(t).live = bufs[t].live /\ Own(t).freed = bufs[t].freed
  BY DEF Own, Owns

LEMMA WaySound ==
  ASSUME NEW j, NEW p, NEW o, NEW h, OnItsWay(j, p, o, h)
  PROVE  /\ IsProgram(p) /\ h \in Views
         /\ p = Nothing => Done(j, o)
         /\ p # Nothing =>
              LET s == Head(p)
                  k == Tail(p)
              IN /\ Legal(j, s, o, h)
                 /\ \A o2, h2 : Does(s, o, h, o2, h2) => OnItsWay(j, k, o2, h2)
                 /\ s.op = "choose" => \A q \in s.alt : OnItsWay(j, q \o k, o, h)
                 /\ s.op = "loop" => OnItsWay(j, s.body \o p, o, h) /\ OnItsWay(j, k, o, h)
                 /\ s.op = "each" =>
                      /\ s.left = {} => OnItsWay(j, k, o, h)
                      /\ \A c \in s.left :
                           OnItsWay(j, s.body[c] \o <<Each(s.left \ {c}, s.body)>> \o k, o, h)
                 /\ s.op = "return" => OnItsWay(j, s.rest, o, h)
<1> PICK S, b, o3, M3 : Closed(j, S, o3, M3) /\ Done(j, o3) /\ <<p, b, o, h>> \in S
  BY DEF OnItsWay
<1>1. Sound(j, S, o3, M3, p, b, o, h)
  BY DEF Closed
<1>2. \A q, c, g, v : <<q, c, g, v>> \in S => OnItsWay(j, q, g, v)
  BY DEF OnItsWay
<1>3. IsProgram(p) /\ h \in Views /\ (p = Nothing => Done(j, o)) /\ (p # Nothing => Goes(j, S, p, b, o, h))
  BY <1>1 DEF Sound
<1> QED
  BY <1>2, <1>3 DEF Goes

LEMMA WayBegins ==
  ASSUME NEW j, NEW H, Safe(j, H), NEW h \in Begin(H.devs, H.force)
  PROVE  OnItsWay(j, H.program, Owns(H.devs, {}, {}, {}), h)
  BY DEF Safe, Ends, Runs, OnItsWay

\* What a step of thread t has to respect.
LEMMA OthersUndisturbed ==
  ASSUME WInv, NEW t \in Threads,
         WTypeOK',
         job' = [u \in Threads |-> job'[u]],
         todo' = [u \in Threads |-> todo'[u]],
         bufs' = [u \in Threads |-> [live |-> bufs'[u].live, freed |-> bufs'[u].freed]],
         \A u \in Threads \ {t} : /\ job'[u] = job[u] /\ todo'[u] = todo[u]
                                  /\ bufs'[u] = bufs[u] /\ held'[u] = held[u]
                                  /\ calm'[u] = calm[u],
         \A d \in Devices \ (held[t] \cup held'[t]) : lock'[d] = lock[d],
         \A d \in held[t] \ held'[t] : lock'[d] = 0,
         \A d \in held'[t] : lock'[d] # 0 /\ (d \in held[t] \/ lock[d] = 0),
         Sbc \notin held[t] => sbc_up' = sbc_up /\ mtc' = mtc,
         IF job'[t] = Idle
         THEN todo'[t] = Nothing /\ held'[t] = {} /\ bufs'[t] = NoBuffers
         ELSE OnItsWay(job'[t], todo'[t], Own(t)', Seen(t)')
  PROVE  WInv'
<1>1. \A u \in Threads : held[u] \in SUBSET Devices /\ held'[u] \in SUBSET Devices
  BY DEF WInv, WTypeOK
<1>2. \A u \in Threads \ {t} : held[t] \cap held[u] = {} /\ held'[t] \cap held[u] = {}
  BY <1>1 DEF WInv
<1>3. \A d \in Devices : (lock'[d] # 0) <=> \E u \in Threads : d \in held'[u]
  BY <1>1, <1>2 DEF WInv
<1>4. \A u, v \in Threads : u # v => held'[u] \cap held'[v] = {}
  BY <1>1, <1>2 DEF WInv
<1>5. ASSUME NEW u \in Threads \ {t}
      PROVE  IF job'[u] = Idle
             THEN todo'[u] = Nothing /\ held'[u] = {} /\ bufs'[u] = NoBuffers
             ELSE OnItsWay(job'[u], todo'[u], Own(u)', Seen(u)')
  <2>1. \A d \in held[u] : lock'[d] = lock[d]
    BY <1>1, <1>2
  <2>2. {d \in held'[u] : lock'[d] = 2} = {d \in held[u] : lock[d] = 2}
    BY <2>1
  <2>3. Own(u)' = Own(u)
    BY <2>2 DEF Own
  <2>4. Sbc \in held[u] => sbc_up' = sbc_up /\ mtc' = mtc
    BY <1>2
  <2>5. Seen(u)' = Seen(u)
    BY <2>4 DEF Seen
  <2> QED
    BY <2>3, <2>5 DEF WInv
<1>6. \A u \in Threads :
        IF job'[u] = Idle
        THEN todo'[u] = Nothing /\ held'[u] = {} /\ bufs'[u] = NoBuffers
        ELSE OnItsWay(job'[u], todo'[u], Own(u)', Seen(u)')
  BY <1>5
<1> QED
  BY <1>3, <1>4, <1>6 DEF WInv

LEMMA StepFacts ==
  ASSUME WInv, NEW t \in Threads, todo[t] # Nothing
  PROVE  LET s == Head(todo[t])
             k == Tail(todo[t])
             o == Own(t)
             h == Seen(t)
         IN /\ job[t] # Idle
            /\ OnItsWay(job[t], todo[t], o, h)
            /\ Legal(job[t], s, o, h)
            /\ s.op # "mode" \/ EndsFirst(job[t]) => Touched(s) \subseteq held[t]
            /\ \A o2, h2 : Does(s, o, h, o2, h2) => OnItsWay(job[t], k, o2, h2)
            /\ s.op = "choose" => \A q \in s.alt : OnItsWay(job[t], q \o k, o, h)
            /\ s.op = "loop" => OnItsWay(job[t], s.body \o todo[t], o, h) /\ OnItsWay(job[t], k, o, h)
            /\ s.op = "each" =>
                 /\ s.left = {} => OnItsWay(job[t], k, o, h)
                 /\ \A c \in s.left :
                      OnItsWay(job[t], s.body[c] \o <<Each(s.left \ {c}, s.body)>> \o k, o, h)
            /\ s.op = "return" => OnItsWay(job[t], s.rest, o, h)
<1>1. job[t] # Idle /\ OnItsWay(job[t], todo[t], Own(t), Seen(t))
  BY DEF WInv
<1>2. Legal(job[t], Head(todo[t]), Own(t), Seen(t))
  BY <1>1, WaySound
<1>3. Head(todo[t]).op # "mode" \/ EndsFirst(job[t]) => Touched(Head(todo[t])) \subseteq held[t]
  BY <1>2, OwnFields DEF Legal
<1> QED
  BY <1>1, <1>2, <1>3, WaySound

\* A step that changes nothing but what is left of the program.
LEMMA GoesOnKeeps ==
  ASSUME WInv, NEW t \in Threads, NEW p, job[t] # Idle,
         todo' = [todo EXCEPT ![t] = p],
         UNCHANGED <<lock, sbc_up, mtc, local>>,
         mode' \in [Crates -> {"INIT_MODE", "NORMAL_MODE"}],
         OnItsWay(job[t], p, Own(t), Seen(t))
  PROVE  WInv'
<1>1. lock' = lock /\ sbc_up' = sbc_up /\ mtc' = mtc /\ job' = job /\ bufs' = bufs
      /\ held' = held /\ calm' = calm
  BY DEF local
<1>2. WTypeOK'
  BY <1>1 DEF WInv, WTypeOK
<1>3. todo'[t] = p /\ (\A u \in Threads \ {t} : todo'[u] = todo[u])
      /\ todo' = [u \in Threads |-> todo'[u]]
  BY DEF WInv
<1>4. Own(t)' = Own(t) /\ Seen(t)' = Seen(t)
  BY <1>1 DEF Own, Seen
<1>5. /\ job' = [u \in Threads |-> job'[u]]
      /\ bufs' = [u \in Threads |-> [live |-> bufs'[u].live, freed |-> bufs'[u].freed]]
  BY <1>1 DEF WInv
<1>6. \A d \in held'[t] : lock'[d] # 0 /\ d \in held[t]
  BY <1>1 DEF WInv, WTypeOK
<1>7. OnItsWay(job'[t], todo'[t], Own(t)', Seen(t)') /\ job'[t] # Idle
  BY <1>1, <1>3, <1>4
<1> QED
  BY <1>1, <1>2, <1>3, <1>5, <1>6, <1>7, OthersUndisturbed

LEMMA AskKeeps ==
  ASSUME WInv, NEW t \in Threads, Ask(t)
  PROVE  WInv'
<1> DEFINE s == Head(todo[t])
<1>1. todo[t] # Nothing /\ s.op \in {"access", "gt"} /\ todo' = [todo EXCEPT ![t] = Tail(@)]
  BY DEF Ask, At, Advance
<1>2. Does(s, Own(t), Seen(t), Own(t), Seen(t))
  BY <1>1 DEF Does
<1>3. OnItsWay(job[t], Tail(todo[t]), Own(t), Seen(t)) /\ job[t] # Idle
  BY <1>1, <1>2, StepFacts
<1>4. UNCHANGED <<lock, sbc_up, mtc, local>> /\ mode' \in [Crates -> {"INIT_MODE", "NORMAL_MODE"}]
  BY DEF Ask, WInv, WTypeOK
<1> QED
  BY <1>1, <1>3, <1>4, GoesOnKeeps

LEMMA UseKeeps ==
  ASSUME WInv, NEW t \in Threads, Use(t)
  PROVE  WInv'
<1> DEFINE s == Head(todo[t])
<1>1. todo[t] # Nothing /\ s.op = "store" /\ todo' = [todo EXCEPT ![t] = Tail(@)]
  BY DEF Use, At, Advance
<1>2. Does(s, Own(t), Seen(t), Own(t), Seen(t))
  BY <1>1 DEF Does
<1>3. OnItsWay(job[t], Tail(todo[t]), Own(t), Seen(t)) /\ job[t] # Idle
  BY <1>1, <1>2, StepFacts
<1>4. UNCHANGED <<lock, sbc_up, mtc, local>> /\ mode' \in [Crates -> {"INIT_MODE", "NORMAL_MODE"}]
  BY DEF Use, WInv, WTypeOK
<1> QED
  BY <1>1, <1>3, <1>4, GoesOnKeeps

LEMMA ChangeModeKeeps ==
  ASSUME WInv, NEW t \in Threads, ChangeMode(t)
  PROVE  WInv'
<1> DEFINE s == Head(todo[t])
<1>1. todo[t] # Nothing /\ s.op = "mode" /\ todo' = [todo EXCEPT ![t] = Tail(@)]
  BY DEF ChangeMode, At, Advance
<1>2. Does(s, Own(t), Seen(t), Own(t), Seen(t))
  BY <1>1 DEF Does
<1>3. OnItsWay(job[t], Tail(todo[t]), Own(t), Seen(t)) /\ job[t] # Idle
  BY <1>1, <1>2, StepFacts
<1>4. s.to \in {"INIT_MODE", "NORMAL_MODE"}
  BY <1>1, StepFacts DEF Legal
<1>5. UNCHANGED <<lock, sbc_up, mtc, local>> /\ mode' = [mode EXCEPT ![s.crate] = s.to]
  BY DEF ChangeMode
<1>6. mode \in [Crates -> {"INIT_MODE", "NORMAL_MODE"}]
  BY DEF WInv, WTypeOK
<1>7. mode' \in [Crates -> {"INIT_MODE", "NORMAL_MODE"}]
  BY <1>4, <1>5, <1>6
<1> QED
  BY <1>1, <1>3, <1>5, <1>7, GoesOnKeeps

LEMMA BranchKeeps ==
  ASSUME WInv, NEW t \in Threads, Branch(t) \/ Loop(t) \/ ForEachCrate(t) \/ ReturnEarly(t)
  PROVE  WInv'
<1> DEFINE s == Head(todo[t])
           k == Tail(todo[t])
<1>1. todo[t] # Nothing
  BY DEF Branch, Loop, ForEachCrate, ReturnEarly, At
<1>2. job[t] # Idle
  BY <1>1, StepFacts
<1>3. UNCHANGED <<lock, sbc_up, mtc, local>> /\ mode' \in [Crates -> {"INIT_MODE", "NORMAL_MODE"}]
  BY DEF Branch, Loop, ForEachCrate, ReturnEarly, WInv, WTypeOK
<1>4. \E p : todo' = [todo EXCEPT ![t] = p] /\ OnItsWay(job[t], p, Own(t), Seen(t))
  <2>1. CASE Branch(t)
    <3>1. s.op = "choose" /\ \E q \in s.alt : todo' = [todo EXCEPT ![t] = q \o k]
      BY <2>1 DEF Branch, At
    <3>2. \A q \in s.alt : OnItsWay(job[t], q \o k, Own(t), Seen(t))
      BY <1>1, <3>1, StepFacts
    <3> QED
      BY <3>1, <3>2
  <2>2. CASE Loop(t)
    <3>1. s.op = "loop" /\ (todo' = [todo EXCEPT ![t] = s.body \o todo[t]]
                            \/ todo' = [todo EXCEPT ![t] = k])
      BY <2>2 DEF Loop, At, Advance
    <3>2. OnItsWay(job[t], s.body \o todo[t], Own(t), Seen(t)) /\ OnItsWay(job[t], k, Own(t), Seen(t))
      BY <1>1, <3>1, StepFacts
    <3> QED
      BY <3>1, <3>2
  <2>3. CASE ForEachCrate(t)
    <3>1. /\ s.op = "each"
          /\ \/ s.left = {} /\ todo' = [todo EXCEPT ![t] = k]
             \/ \E c \in s.left :
                  todo' = [todo EXCEPT ![t] = s.body[c] \o <<Each(s.left \ {c}, s.body)>> \o k]
      BY <2>3 DEF ForEachCrate, At, Advance
    <3>2. /\ s.left = {} => OnItsWay(job[t], k, Own(t), Seen(t))
          /\ \A c \in s.left :
               OnItsWay(job[t], s.body[c] \o <<Each(s.left \ {c}, s.body)>> \o k, Own(t), Seen(t))
      BY <1>1, <3>1, StepFacts
    <3> QED
      BY <3>1, <3>2
  <2>4. CASE ReturnEarly(t)
    <3>1. s.op = "return" /\ todo' = [todo EXCEPT ![t] = s.rest]
      BY <2>4 DEF ReturnEarly, At
    <3>2. OnItsWay(job[t], s.rest, Own(t), Seen(t))
      BY <1>1, <3>1, StepFacts
    <3> QED
      BY <3>1, <3>2
  <2> QED
    BY <2>1, <2>2, <2>3, <2>4
<1> QED
  BY <1>2, <1>3, <1>4, GoesOnKeeps

\* A step that changes the MTC, or what is known of it.
LEMMA MtcStepKeeps ==
  ASSUME WInv, NEW t \in Threads, job[t] # Idle, Sbc \in held[t],
         Advance(t), UNCHANGED <<lock, mode, job, bufs, held>>,
         NEW quiet \in BOOLEAN, calm' = [calm EXCEPT ![t] = quiet],
         OnItsWay(job[t], Tail(todo[t]), Own(t), View(sbc_up', mtc', quiet))
  PROVE  WInv'
<1>1. lock' = lock /\ mode' = mode /\ job' = job /\ bufs' = bufs /\ held' = held
  OBVIOUS
<1>2. calm'[t] = quiet /\ (\A u \in Threads \ {t} : calm'[u] = calm[u]) /\ calm' \in [Threads -> BOOLEAN]
  BY DEF WInv, WTypeOK
<1>3. sbc_up' \in BOOLEAN /\ mtc' \in MtcStates
  <2>1. View(sbc_up', mtc', quiet) \in Views
    BY WaySound
  <2>2. View(sbc_up', mtc', quiet).up = sbc_up' /\ View(sbc_up', mtc', quiet).mtc = mtc'
    BY DEF View
  <2> HIDE DEF View
  <2> QED
    BY <2>1, <2>2 DEF Views
<1>4. WTypeOK'
  BY <1>1, <1>2, <1>3 DEF WInv, WTypeOK, MtcStates
<1>5. todo'[t] = Tail(todo[t]) /\ (\A u \in Threads \ {t} : todo'[u] = todo[u])
      /\ todo' = [u \in Threads |-> todo'[u]]
  BY DEF WInv, Advance
<1>6. Own(t)' = Own(t)
  BY <1>1 DEF Own
<1>7. Seen(t)' = View(sbc_up', mtc', quiet)
  BY <1>1, <1>2 DEF Seen
<1>8. /\ job' = [u \in Threads |-> job'[u]]
      /\ bufs' = [u \in Threads |-> [live |-> bufs'[u].live, freed |-> bufs'[u].freed]]
  BY <1>1 DEF WInv
<1>9. \A d \in held'[t] : lock'[d] # 0 /\ d \in held[t]
  BY <1>1 DEF WInv, WTypeOK
<1>10. OnItsWay(job'[t], todo'[t], Own(t)', Seen(t)') /\ job'[t] # Idle
  BY <1>1, <1>5, <1>6, <1>7
<1> QED
  BY <1>1, <1>2, <1>4, <1>5, <1>8, <1>9, <1>10, OthersUndisturbed

LEMMA SeenWithSbc ==
  ASSUME NEW t, Sbc \in held[t]
  PROVE  /\ Seen(t) = View(sbc_up, mtc, calm[t])
         /\ Seen(t).up = sbc_up /\ Seen(t).mtc = mtc /\ Seen(t).calm = calm[t]
  BY DEF Seen, View

LEMMA MtcChangeKeeps ==
  ASSUME WInv, NEW t \in Threads, ChangeMtc(t) \/ Poke(t) \/ Connect(t)
  PROVE  WInv'
<1> DEFINE s == Head(todo[t])
<1>1. todo[t] # Nothing /\ s.op \in {"mtc", "poke", "connect"}
  BY DEF ChangeMtc, Poke, Connect, At
<1>2. job[t] # Idle /\ Sbc \in held[t]
  BY <1>1, StepFacts DEF Touched
<1>3. /\ Seen(t).up = sbc_up /\ Seen(t).mtc = mtc /\ Seen(t).calm = calm[t]
  BY <1>2, SeenWithSbc
<1>4. Advance(t) /\ UNCHANGED <<lock, mode, job, bufs, held, calm>>
  BY DEF ChangeMtc, Poke, Connect, local
<1>5. calm' = [calm EXCEPT ![t] = calm[t]] /\ calm[t] \in BOOLEAN
  BY <1>4 DEF WInv, WTypeOK
<1>6. Does(s, Own(t), Seen(t), Own(t), View(sbc_up', mtc', calm[t]))
  <2>1. CASE ChangeMtc(t)
    <3>1. /\ s.op = "mtc" /\ sbc_up' = sbc_up
          /\ mtc' = IF sbc_up THEN [mtc EXCEPT ![s.reg] = (@ \ s.off) \cup s.on] ELSE mtc
      BY <2>1 DEF ChangeMtc, At
    <3> HIDE DEF s
    <3> QED
      BY <1>3, <3>1 DEF Does
  <2>2. CASE Poke(t)
    <3>1. s.op = "poke" /\ sbc_up' = sbc_up /\ (sbc_up \/ mtc' = mtc)
      BY <2>2 DEF Poke, At
    <3>2. mtc' \in MtcStates
      <4>1. mtc \in MtcStates
        BY DEF WInv, WTypeOK, MtcStates
      <4>2. \/ mtc' = mtc
            \/ \E B \in SUBSET {"PULSE_EN", "PED_EN"} : mtc' = [mtc EXCEPT !.control = B]
            \/ \E C \in SUBSET MASKALL : mtc' = [mtc EXCEPT !.pmsk = C]
        BY <2>2 DEF Poke
      <4>3. CASE \E B \in SUBSET {"PULSE_EN", "PED_EN"} : mtc' = [mtc EXCEPT !.control = B]
        BY <4>1, <4>3 DEF MtcStates
      <4>4. CASE \E C \in SUBSET MASKALL : mtc' = [mtc EXCEPT !.pmsk = C]
        BY <4>1, <4>4 DEF MtcStates
      <4> QED
        BY <4>1, <4>2, <4>3, <4>4
    <3> HIDE DEF s
    <3> QED
      BY <1>3, <3>1, <3>2 DEF Does
  <2>3. CASE Connect(t)
    <3>1. s.op = "connect" /\ sbc_up' \in BOOLEAN /\ mtc' = mtc
      BY <2>3 DEF Connect, At
    <3> HIDE DEF s
    <3> QED
      BY <1>3, <3>1 DEF Does
  <2> QED
    BY <2>1, <2>2, <2>3
<1>7. OnItsWay(job[t], Tail(todo[t]), Own(t), View(sbc_up', mtc', calm[t]))
  BY <1>1, <1>6, StepFacts
<1> QED
  BY <1>2, <1>4, <1>5, <1>7, MtcStepKeeps

LEMMA LoseSbcKeeps ==
  ASSUME WInv, NEW t \in Threads, LoseSbc(t)
  PROVE  WInv'
<1> DEFINE s == Head(todo[t])
<1>1. todo[t] # Nothing /\ Asks(s) /\ sbc_up
  BY DEF LoseSbc, At, Asks
<1>2. job[t] # Idle /\ Sbc \in held[t]
  BY <1>1, StepFacts DEF Touched, Asks
<1>3. /\ Seen(t).up = sbc_up /\ Seen(t).mtc = mtc /\ Seen(t).calm = calm[t]
  BY <1>2, SeenWithSbc
<1>4. /\ Advance(t) /\ UNCHANGED <<lock, mode, job, bufs, held>>
      /\ calm' = [calm EXCEPT ![t] = FALSE] /\ sbc_up' = FALSE /\ mtc' = mtc
  BY DEF LoseSbc
<1>5. Does(s, Own(t), Seen(t), Own(t), View(sbc_up', mtc', FALSE))
  <2> HIDE DEF s
  <2> QED
    BY <1>1, <1>3, <1>4 DEF Does, Lost
<1>6. OnItsWay(job[t], Tail(todo[t]), Own(t), View(sbc_up', mtc', FALSE))
  BY <1>1, <1>5, StepFacts
<1> QED
  BY <1>2, <1>4, <1>6, MtcStepKeeps

\* A step that gives devices back, lends or takes back one.
LEMMA LockStepKeeps ==
  ASSUME WInv, NEW t \in Threads, Lend(t) \/ Relock(t) \/ End(t)
  PROVE  WInv'
<1> DEFINE s == Head(todo[t])
<1>1. todo[t] # Nothing /\ s.op \in {"lend", "relock", "end"} /\ Advance(t)
  BY DEF Lend, Relock, End, At
<1>2. job[t] # Idle /\ Touched(s) \subseteq held[t]
  BY <1>1, StepFacts
<1>3. /\ sbc_up' = sbc_up /\ mtc' = mtc /\ mode' = mode /\ job' = job /\ bufs' = bufs
      /\ calm' = calm
  BY DEF Lend, Relock, End, local
<1>t. lock \in [Devices -> 0 .. 2] /\ held \in [Threads -> SUBSET Devices]
  BY DEF WInv, WTypeOK
<1>4. /\ lock' \in [Devices -> 0 .. 2] /\ held' \in [Threads -> SUBSET Devices]
      /\ \A u \in Threads \ {t} : held'[u] = held[u]
      /\ held'[t] \subseteq held[t]
      /\ \A d \in Devices \ held[t] : lock'[d] = lock[d]
      /\ \A d \in held[t] \ held'[t] : lock'[d] = 0
      /\ \A d \in held'[t] : lock'[d] # 0
      /\ Does(s, Own(t), Seen(t), Own(t)', Seen(t)')
  <2>l. \A d \in held[t] : lock[d] # 0
    BY <1>t DEF WInv
  <2>1. CASE Lend(t)
    <3>1. s.op = "lend" /\ lock' = [lock EXCEPT ![s.crate] = 2] /\ held' = held
      BY <2>1 DEF Lend, At, local
    <3>2. s.crate \in held[t]
      BY <1>2, <3>1 DEF Touched
    <3>3. {d \in held'[t] : lock'[d] = 2} = {d \in held[t] : lock[d] = 2} \cup {s.crate}
      BY <1>t, <3>1, <3>2
    <3>4. Own(t)' = Owns(Own(t).held, Own(t).lent \cup {s.crate}, Own(t).live, Own(t).freed)
      BY <1>3, <3>1, <3>3, OwnFields DEF Own
    <3>5. Seen(t)' = Seen(t)
      BY <1>3, <3>1 DEF Seen
    <3>6. Does(s, Own(t), Seen(t), Own(t)', Seen(t)')
      BY <3>1, <3>4, <3>5 DEF Does
    <3> HIDE DEF s
    <3> QED
      BY <1>t, <2>l, <3>1, <3>2, <3>6
  <2>2. CASE Relock(t)
    <3>1. s.op = "relock" /\ lock' = [lock EXCEPT ![s.crate] = 1] /\ held' = held
      BY <2>2 DEF Relock, At, local
    <3>2. s.crate \in held[t]
      BY <1>2, <3>1 DEF Touched
    <3>3. {d \in held'[t] : lock'[d] = 2} = {d \in held[t] : lock[d] = 2} \ {s.crate}
      BY <1>t, <3>1, <3>2
    <3>4. Own(t)' = Owns(Own(t).held, Own(t).lent \ {s.crate}, Own(t).live, Own(t).freed)
      BY <1>3, <3>1, <3>3, OwnFields DEF Own
    <3>5. Seen(t)' = Seen(t)
      BY <1>3, <3>1 DEF Seen
    <3>6. Does(s, Own(t), Seen(t), Own(t)', Seen(t)')
      BY <3>1, <3>4, <3>5 DEF Does
    <3> HIDE DEF s
    <3> QED
      BY <1>t, <2>l, <3>1, <3>2, <3>6
  <2>3. CASE End(t)
    <3>1. /\ s.op = "end"
          /\ lock' = [d \in Devices |-> IF d \in s.on THEN 0 ELSE lock[d]]
          /\ held' = [held EXCEPT ![t] = @ \ s.on]
      BY <2>3 DEF End, At
    <3>2. s.on \subseteq held[t]
      BY <1>2, <3>1 DEF Touched
    <3>3. held'[t] = held[t] \ s.on
      BY <1>t, <3>1
    <3>4. {d \in held'[t] : lock'[d] = 2} = {d \in held[t] : lock[d] = 2} \ s.on
      BY <1>t, <3>1, <3>3
    <3>5. Own(t)' = Owns(Own(t).held \ s.on, Own(t).lent \ s.on, Own(t).live, Own(t).freed)
      BY <1>3, <3>3, <3>4, OwnFields DEF Own
    <3>6. Seen(t)' = IF Sbc \in s.on THEN Away ELSE Seen(t)
      BY <1>3, <3>3 DEF Seen
    <3>7. Does(s, Own(t), Seen(t), Own(t)', Seen(t)')
      BY <3>1, <3>5, <3>6 DEF Does
    <3> HIDE DEF s
    <3>8. lock' \in [Devices -> 0 .. 2]
      BY <1>t, <3>1
    <3>9. held' \in [Threads -> SUBSET Devices] /\ \A u \in Threads \ {t} : held'[u] = held[u]
      BY <1>t, <3>1
    <3> QED
      BY <1>t, <2>l, <3>1, <3>2, <3>3, <3>7, <3>8, <3>9
  <2> QED
    BY <2>1, <2>2, <2>3
<1>5. WTypeOK'
  BY <1>3, <1>4 DEF WInv, WTypeOK
<1>6. todo'[t] = Tail(todo[t]) /\ (\A u \in Threads \ {t} : todo'[u] = todo[u])
      /\ todo' = [u \in Threads |-> todo'[u]]
  BY <1>1 DEF WInv, Advance
<1>7. /\ job' = [u \in Threads |-> job'[u]]
      /\ bufs' = [u \in Threads |-> [live |-> bufs'[u].live, freed |-> bufs'[u].freed]]
  BY <1>3 DEF WInv
<1>8. OnItsWay(job'[t], todo'[t], Own(t)', Seen(t)') /\ job'[t] # Idle
  <2>1. \A o, h : Does(s, Own(t), Seen(t), o, h) => OnItsWay(job[t], Tail(todo[t]), o, h)
    BY <1>1, StepFacts
  <2>2. Does(s, Own(t), Seen(t), Own(t)', Seen(t)')
    BY <1>4
  <2>3. OnItsWay(job[t], Tail(todo[t]), Own(t)', Seen(t)')
    BY <2>1, <2>2
  <2> QED
    BY <1>2, <1>3, <1>6, <2>3
<1> HIDE DEF s
<1> QED
  BY <1>3, <1>4, <1>5, <1>6, <1>7, <1>8, OthersUndisturbed

\* A step that changes which buffers it has.
LEMMA BufferStepKeeps ==
  ASSUME WInv, NEW t \in Threads, Malloc(t) \/ Free(t)
  PROVE  WInv'
<1> DEFINE s == Head(todo[t])
<1>1. todo[t] # Nothing /\ s.op \in {"malloc", "free"} /\ Advance(t)
  BY DEF Malloc, Free, At
<1>2. job[t] # Idle
  BY <1>1, StepFacts
<1>3. /\ lock' = lock /\ sbc_up' = sbc_up /\ mtc' = mtc /\ mode' = mode /\ job' = job
      /\ held' = held /\ calm' = calm
  BY DEF Malloc, Free
<1>4. /\ bufs' = [u \in Threads |-> [live |-> bufs'[u].live, freed |-> bufs'[u].freed]]
      /\ \A u \in Threads \ {t} : bufs'[u] = bufs[u]
      /\ Does(s, Own(t), Seen(t), Own(t)', Seen(t)')
  <2>0. bufs = [u \in Threads |-> [live |-> bufs[u].live, freed |-> bufs[u].freed]]
    BY DEF WInv
  <2>1. Seen(t)' = Seen(t)
    BY <1>3 DEF Seen
  <2>4. Own(t)' = Owns(Own(t).held, Own(t).lent, bufs'[t].live, bufs'[t].freed)
    <3>1. Own(t)' = Owns(held[t], {d \in held[t] : lock[d] = 2}, bufs'[t].live, bufs'[t].freed)
      BY <1>3 DEF Own
    <3> QED
      BY <3>1, OwnFields
  <2>2. CASE Malloc(t)
    <3>1. s.op = "malloc"
          /\ bufs' = [bufs EXCEPT ![t] = [live  |-> bufs[t].live \cup s.bufs,
                                         freed |-> bufs[t].freed \ s.bufs]]
      BY <2>2 DEF Malloc, At
    <3>2. Own(t)' = Owns(Own(t).held, Own(t).lent, Own(t).live \cup s.bufs, Own(t).freed \ s.bufs)
      <4>1. bufs'[t] = [live |-> bufs[t].live \cup s.bufs, freed |-> bufs[t].freed \ s.bufs]
        BY <2>0, <3>1
      <4>2. bufs'[t].live = bufs[t].live \cup s.bufs /\ bufs'[t].freed = bufs[t].freed \ s.bufs
        BY <4>1
      <4> QED
        BY <2>4, <4>2, OwnFields
    <3>3. Does(s, Own(t), Seen(t), Own(t)', Seen(t)')
      BY <2>1, <3>1, <3>2 DEF Does
    <3> HIDE DEF s
    <3> QED
      BY <2>0, <3>1, <3>3
  <2>3. CASE Free(t)
    <3>1. s.op = "free"
          /\ bufs' = [bufs EXCEPT ![t] = [live  |-> bufs[t].live \ s.bufs,
                                         freed |-> bufs[t].freed \cup (bufs[t].live \cap s.bufs)]]
      BY <2>3 DEF Free, At
    <3>2. Own(t)' = Owns(Own(t).held, Own(t).lent, Own(t).live \ s.bufs,
                         Own(t).freed \cup (Own(t).live \cap s.bufs))
      <4>1. bufs'[t] = [live  |-> bufs[t].live \ s.bufs,
                        freed |-> bufs[t].freed \cup (bufs[t].live \cap s.bufs)]
        BY <2>0, <3>1
      <4>2. /\ bufs'[t].live = bufs[t].live \ s.bufs
            /\ bufs'[t].freed = bufs[t].freed \cup (bufs[t].live \cap s.bufs)
        BY <4>1
      <4> QED
        BY <2>4, <4>2, OwnFields
    <3>3. Does(s, Own(t), Seen(t), Own(t)', Seen(t)')
      BY <2>1, <3>1, <3>2 DEF Does
    <3> HIDE DEF s
    <3> QED
      BY <2>0, <3>1, <3>3
  <2> QED
    BY <2>2, <2>3
<1>5. WTypeOK'
  BY <1>3 DEF WInv, WTypeOK
<1>6. todo'[t] = Tail(todo[t]) /\ (\A u \in Threads \ {t} : todo'[u] = todo[u])
      /\ todo' = [u \in Threads |-> todo'[u]]
  BY <1>1 DEF WInv, Advance
<1>7. job' = [u \in Threads |-> job'[u]]
  BY <1>3 DEF WInv
<1>8. OnItsWay(job'[t], todo'[t], Own(t)', Seen(t)') /\ job'[t] # Idle
  <2>1. \A o, h : Does(s, Own(t), Seen(t), o, h) => OnItsWay(job[t], Tail(todo[t]), o, h)
    BY <1>1, StepFacts
  <2>2. Does(s, Own(t), Seen(t), Own(t)', Seen(t)')
    BY <1>4
  <2>3. OnItsWay(job[t], Tail(todo[t]), Own(t)', Seen(t)')
    BY <2>1, <2>2
  <2> QED
    BY <1>2, <1>3, <1>6, <2>3
<1>9. \A d \in held'[t] : lock'[d] # 0 /\ d \in held[t]
  BY <1>3 DEF WInv, WTypeOK
<1> HIDE DEF s
<1> QED
  BY <1>3, <1>4, <1>5, <1>6, <1>7, <1>8, <1>9, OthersUndisturbed

LEMMA StartKeeps ==
  ASSUME WInv, NEW t \in Threads, NEW j \in Jobs[t], Start(t, j)
  PROVE  WInv'
<1> DEFINE H == Handlers[j]
           D == H.devs
<1>1. InTable(j) /\ H = Command(j.name, j.crates)
  BY WorkersConstantsOK DEF Handlers
<1>2. Safe(j, H)
  BY <1>1, HandlersSafe
<1>3. D \subseteq Devices
  BY <1>2 DEF Safe
<1>4. /\ job[t] = Idle /\ (\A d \in D : lock[d] = 0) /\ (Sbc \in D => sbc_up \/ H.force)
      /\ lock' = [d \in Devices |-> IF d \in D THEN 1 ELSE lock[d]]
      /\ job' = [job EXCEPT ![t] = j] /\ todo' = [todo EXCEPT ![t] = H.program]
      /\ held' = [held EXCEPT ![t] = D] /\ calm' = [calm EXCEPT ![t] = ~RunsFree]
      /\ sbc_up' = sbc_up /\ mtc' = mtc /\ mode' = mode /\ bufs' = bufs
  BY DEF Start
<1>5. j # Idle
  BY <1>1 DEF InTable, Idle, OfTheMtc, OfACrate, OfCrates
<1>6. /\ lock \in [Devices -> 0 .. 2] /\ held \in [Threads -> SUBSET Devices]
      /\ calm \in [Threads -> BOOLEAN] /\ sbc_up \in BOOLEAN /\ mtc \in MtcStates
  BY DEF WInv, WTypeOK, MtcStates
<1>7. held[t] = {} /\ bufs[t] = NoBuffers
  BY <1>4 DEF WInv
<1>8. RunsFree \in BOOLEAN /\ (RunsFree <=> Pulsing(mtc))
  BY DEF RunsFree, Pulsing
<1> HIDE DEF H, D
<1>9. /\ held'[t] = D /\ calm'[t] = ~RunsFree /\ job'[t] = j /\ todo'[t] = H.program
      /\ \A u \in Threads \ {t} : /\ job'[u] = job[u] /\ todo'[u] = todo[u]
                                  /\ bufs'[u] = bufs[u] /\ held'[u] = held[u]
                                  /\ calm'[u] = calm[u]
      /\ job' = [u \in Threads |-> job'[u]] /\ todo' = [u \in Threads |-> todo'[u]]
  BY <1>4, <1>6 DEF WInv
<1>10. bufs' = [u \in Threads |-> [live |-> bufs'[u].live, freed |-> bufs'[u].freed]]
  BY <1>4 DEF WInv
<1>11. WTypeOK'
  <2>1. lock' \in [Devices -> 0 .. 2]
    BY <1>4, <1>6
  <2>2. held' \in [Threads -> SUBSET Devices]
    BY <1>3, <1>4, <1>6
  <2>3. calm' \in [Threads -> BOOLEAN]
    BY <1>4, <1>6, <1>8
  <2>4. \A u \in Threads : job'[u] \in Jobs[u] \cup {Idle}
    BY <1>9 DEF WInv, WTypeOK
  <2> QED
    BY <1>4, <2>1, <2>2, <2>3, <2>4 DEF WInv, WTypeOK
<1>12. Own(t)' = Owns(D, {}, {}, {})
  <2>1. {d \in held'[t] : lock'[d] = 2} = {}
    BY <1>3, <1>4, <1>9
  <2>2. bufs'[t].live = {} /\ bufs'[t].freed = {}
    BY <1>4, <1>7 DEF NoBuffers
  <2> QED
    BY <1>9, <2>1, <2>2 DEF Own
<1>13. Seen(t)' \in Begin(D, H.force)
  <2>1. CASE Sbc \notin D
    BY <1>9, <2>1 DEF Seen, Begin
  <2>2. CASE Sbc \in D
    <3> DEFINE h == View(sbc_up, mtc, ~RunsFree)
    <3>1. Seen(t)' = h
      BY <1>4, <1>9, <2>2 DEF Seen
    <3>2. h \in Views /\ h.up = sbc_up /\ h.mtc = mtc /\ h.calm = ~RunsFree
      BY <1>6, <1>8 DEF View, Views
    <3>3. mtc.pmsk \subseteq MASKALL /\ (~Pulsing(mtc) => mtc \in Still)
      BY <1>6 DEF MtcStates, Still
    <3> HIDE DEF h
    <3>4. CASE H.force
      BY <1>8, <2>2, <3>1, <3>2, <3>4 DEF Begin
    <3>5. CASE ~H.force
      <4>1. sbc_up
        BY <1>4, <2>2, <3>5
      <4>2. h \in W(Still, MASKALL)
        BY <1>8, <3>2, <3>3, <4>1 DEF W
      <4> QED
        BY <2>2, <3>1, <3>5, <4>2 DEF Begin
    <3> QED
      BY <3>4, <3>5
  <2> QED
    BY <2>1, <2>2
<1>14. OnItsWay(job'[t], todo'[t], Own(t)', Seen(t)') /\ job'[t] # Idle
  BY <1>2, <1>5, <1>9, <1>12, <1>13, WayBegins DEF D
<1>15. \A d \in Devices \ (held[t] \cup held'[t]) : lock'[d] = lock[d]
  BY <1>3, <1>4, <1>9
<1>16. \A d \in held'[t] : lock'[d] # 0 /\ (d \in held[t] \/ lock[d] = 0)
  BY <1>3, <1>4, <1>9
<1>17. \A d \in held[t] \ held'[t] : lock'[d] = 0
  BY <1>7
<1>18. Sbc \notin held[t] => sbc_up' = sbc_up /\ mtc' = mtc
  BY <1>4
<1>19. \A u \in Threads \ {t} : /\ job'[u] = job[u] /\ todo'[u] = todo[u]
                               /\ bufs'[u] = bufs[u] /\ held'[u] = held[u]
                               /\ calm'[u] = calm[u]
  <2>1. bufs' = bufs
    BY <1>4
  <2> QED
    BY <1>9, <2>1
<1>20. IF job'[t] = Idle
       THEN todo'[t] = Nothing /\ held'[t] = {} /\ bufs'[t] = NoBuffers
       ELSE OnItsWay(job'[t], todo'[t], Own(t)', Seen(t)')
  BY <1>14
<1>21. job' = [u \in Threads |-> job'[u]] /\ todo' = [u \in Threads |-> todo'[u]]
  BY <1>9
<1> QED
  BY <1>10, <1>11, <1>15, <1>16, <1>17, <1>18, <1>19, <1>20, <1>21, OthersUndisturbed

LEMMA FinishKeeps ==
  ASSUME WInv, NEW t \in Threads, Finish(t)
  PROVE  WInv'
<1>1. /\ job[t] # Idle /\ todo[t] = Nothing
      /\ job' = [job EXCEPT ![t] = Idle] /\ bufs' = [bufs EXCEPT ![t] = NoBuffers]
      /\ calm' = [calm EXCEPT ![t] = TRUE]
      /\ lock' = lock /\ sbc_up' = sbc_up /\ mtc' = mtc /\ mode' = mode /\ todo' = todo
      /\ held' = held
  BY DEF Finish
<1>2. held[t] = {}
  <2>1. OnItsWay(job[t], Nothing, Own(t), Seen(t))
    BY <1>1 DEF WInv
  <2>2. Done(job[t], Own(t))
    BY <2>1, WaySound
  <2> QED
    BY <2>2, OwnFields DEF Done
<1>3. /\ job'[t] = Idle /\ bufs'[t] = NoBuffers
      /\ \A u \in Threads \ {t} : /\ job'[u] = job[u] /\ todo'[u] = todo[u]
                                  /\ bufs'[u] = bufs[u] /\ held'[u] = held[u]
                                  /\ calm'[u] = calm[u]
      /\ job' = [u \in Threads |-> job'[u]] /\ todo' = [u \in Threads |-> todo'[u]]
  BY <1>1 DEF WInv, WTypeOK
<1>4. bufs' = [u \in Threads |-> [live |-> bufs'[u].live, freed |-> bufs'[u].freed]]
  <2>1. bufs = [u \in Threads |-> [live |-> bufs[u].live, freed |-> bufs[u].freed]]
    BY DEF WInv
  <2> QED
    BY <1>1, <2>1 DEF NoBuffers
<1>5. WTypeOK'
  <2>1. calm' \in [Threads -> BOOLEAN]
    BY <1>1 DEF WInv, WTypeOK
  <2>2. \A u \in Threads : job'[u] \in Jobs[u] \cup {Idle}
    BY <1>3 DEF WInv, WTypeOK
  <2> QED
    BY <1>1, <2>1, <2>2 DEF WInv, WTypeOK
<1> QED
  BY <1>1, <1>2, <1>3, <1>4, <1>5, OthersUndisturbed

LEMMA WInvInit == Init => WInv
<1> SUFFICES ASSUME Init PROVE WInv
  OBVIOUS
<1>1. WTypeOK
  <2>1. lock \in [Devices -> 0 .. 2] /\ mode \in [Crates -> {"INIT_MODE", "NORMAL_MODE"}]
    BY DEF Init
  <2>2. held \in [Threads -> SUBSET Devices] /\ calm \in [Threads -> BOOLEAN]
    BY DEF Init
  <2>3. sbc_up \in BOOLEAN /\ \A t \in Threads : job[t] \in Jobs[t] \cup {Idle}
    BY DEF Init
  <2>4. mtc \in [control : SUBSET {"PULSE_EN", "PED_EN"}, pmsk : SUBSET MASKALL,
                 pulser : SUBSET {"free"}]
    BY DEF Init
  <2> QED
    BY <2>1, <2>2, <2>3, <2>4 DEF WTypeOK
<1>2. /\ job = [t \in Threads |-> job[t]]
      /\ todo = [t \in Threads |-> todo[t]]
      /\ bufs = [t \in Threads |-> [live |-> bufs[t].live, freed |-> bufs[t].freed]]
  BY DEF Init, NoBuffers
<1>3. \A t \in Threads : job[t] = Idle /\ todo[t] = Nothing /\ held[t] = {} /\ bufs[t] = NoBuffers
  BY DEF Init
<1>4. \A d \in Devices : lock[d] = 0
  BY DEF Init
<1> QED
  BY <1>1, <1>2, <1>3, <1>4 DEF WInv

LEMMA WInvStep ==
  ASSUME WInv, [Next]_vars
  PROVE  WInv'
<1>1. CASE UNCHANGED vars
  <2>1. \A t : Own(t)' = Own(t) /\ Seen(t)' = Seen(t)
    BY <1>1 DEF vars, Own, Seen
  <2> QED
    BY <1>1, <2>1 DEF vars, WInv, WTypeOK
<1>2. ASSUME NEW t \in Threads, NEW j \in Jobs[t], Start(t, j) PROVE WInv'
  BY <1>2, StartKeeps
<1>3. ASSUME NEW t \in Threads,
             \/ Finish(t)
             \/ Ask(t) \/ ChangeMtc(t) \/ Poke(t) \/ ChangeMode(t) \/ Connect(t) \/ LoseSbc(t)
             \/ Lend(t) \/ Relock(t) \/ End(t)
             \/ Malloc(t) \/ Free(t) \/ Use(t)
             \/ Branch(t) \/ Loop(t) \/ ForEachCrate(t) \/ ReturnEarly(t)
      PROVE  WInv'
  BY <1>3, FinishKeeps, AskKeeps, MtcChangeKeeps, ChangeModeKeeps, LoseSbcKeeps,
     LockStepKeeps, BufferStepKeeps, UseKeeps, BranchKeeps
<1> QED
  BY <1>1, <1>2, <1>3 DEF Next

\* The inductive invariant holds throughout.
LEMMA WInvHolds == Spec => []WInv
<1>1. Init => WInv
  BY WInvInit
<1>2. WInv /\ [Next]_vars => WInv'
  BY WInvStep
<1> QED
  BY <1>1, <1>2, PTL DEF Spec


-----------------------------------------------------------------------------
(* The properties.                                                          *)

\* Each variable keeps to its type; the mask has no bit but those of crates and TUB.
THEOREM WorkersTypesOK == Spec => []WTypeOK
<1>1. WInv => WTypeOK
  BY DEF WInv
<1> QED
  BY <1>1, WInvHolds, PTL

\* run_pedestals_end is given masks with the first crate only.
PedestalsEndFirst == \A t \in Threads : \A j \in Jobs[t] : EndsFirst(j)

\* Whatever path it takes, a command talks to no device but those its handler locked
\* and it has not unlocked yet, and to no crate that it has lent to the main loop; if
\* run_pedestals_end, which takes its arguments in the wrong order, is kept to masks
\* with the crate that it then addresses.
THEOREM CommandsTouchTheirOwn ==
  ASSUME PedestalsEndFirst
  PROVE  Spec => []TouchesOwn
<1>1. ASSUME WInv PROVE TouchesOwn
  <2> SUFFICES ASSUME NEW t \in Threads, todo[t] # Nothing
               PROVE  LET s == Head(todo[t])
                      IN /\ Touched(s) \subseteq held[t]
                         /\ s.op \in {"access", "mode"} => \A d \in Touched(s) : lock[d] = 1
    BY DEF TouchesOwn
  <2> DEFINE s == Head(todo[t])
  <2>0. job[t] # Idle /\ job[t] \in Jobs[t] \cup {Idle}
    BY <1>1, StepFacts DEF WInv, WTypeOK
  <2>1. Touched(s) \subseteq held[t] /\ Legal(job[t], s, Own(t), Seen(t))
    BY <1>1, <2>0, StepFacts DEF PedestalsEndFirst
  <2> HIDE DEF s
  <2>2. ASSUME s.op \in {"access", "mode"}, NEW d \in Touched(s) PROVE lock[d] = 1
    <3>1. d \in held[t] /\ d \notin Own(t).lent
      BY <2>1, <2>2 DEF Legal
    <3>2. lock[d] # 2
      BY <3>1, OwnFields
    <3>3. d \in Devices /\ lock[d] # 0
      BY <1>1, <3>1 DEF WInv, WTypeOK
    <3>4. lock[d] \in 0 .. 2
      BY <1>1, <3>3 DEF WInv, WTypeOK
    <3> QED
      BY <3>2, <3>3, <3>4
  <2> QED
    BY <2>1, <2>2 DEF s
<1> QED
  BY <1>1, WInvHolds, PTL

\* A thread gives back each of its devices before it ends, on every path: a device is
\* locked exactly while one thread has it.
THEOREM CommandsGiveLocksBack == Spec => []LocksComeBack
<1>1. ASSUME WInv PROVE LocksComeBack
  <2>1. ASSUME NEW t \in Threads, todo[t] = Nothing PROVE held[t] = {}
    <3>1. CASE job[t] = Idle
      BY <1>1, <3>1 DEF WInv
    <3>2. CASE job[t] # Idle
      <4>1. OnItsWay(job[t], Nothing, Own(t), Seen(t))
        BY <1>1, <2>1, <3>2 DEF WInv
      <4>2. Done(job[t], Own(t))
        BY <4>1, WaySound
      <4> QED
        BY <4>2, OwnFields DEF Done
    <3> QED
      BY <3>1, <3>2
  <2> QED
    BY <1>1, <2>1 DEF WInv, LocksComeBack
<1> QED
  BY <1>1, WInvHolds, PTL

\* No command writes to a buffer that it has freed, or frees one twice; none but
\* ped_run and find_noise, which do not look at what malloc returns, writes to one that
\* it could not have; and all are given back, but for those of fifo_test and cald_test.
THEOREM BuffersUsedSoundly == Spec => []BuffersSound
<1>1. ASSUME WInv PROVE BuffersSound
  <2> SUFFICES ASSUME NEW t \in Threads
               PROVE  /\ At(t, {"store"}) =>
                           LET B == Head(todo[t]).bufs
                           IN IF job[t].name \in Unchecked THEN B \cap bufs[t].freed = {}
                                                           ELSE B \subseteq bufs[t].live
                      /\ At(t, {"free"}) => Head(todo[t]).bufs \cap bufs[t].freed = {}
                      /\ todo[t] = Nothing /\ job[t].name \notin Leaky => bufs[t].live = {}
    BY DEF BuffersSound
  <2> DEFINE s == Head(todo[t])
  <2>1. ASSUME todo[t] # Nothing
        PROVE  /\ s.op = "store" => IF job[t].name \in Unchecked THEN s.bufs \cap bufs[t].freed = {}
                                                                 ELSE s.bufs \subseteq bufs[t].live
               /\ s.op = "free" => s.bufs \cap bufs[t].freed = {}
    <3>1. Legal(job[t], s, Own(t), Seen(t))
      BY <1>1, <2>1, StepFacts
    <3> HIDE DEF s
    <3> QED
      BY <3>1, OwnFields DEF Legal
  <2>2. ASSUME todo[t] = Nothing, job[t].name \notin Leaky PROVE bufs[t].live = {}
    <3>1. CASE job[t] = Idle
      <4>1. bufs[t] = NoBuffers
        BY <1>1, <3>1 DEF WInv
      <4> QED
        BY <4>1 DEF NoBuffers
    <3>2. CASE job[t] # Idle
      <4>1. OnItsWay(job[t], Nothing, Own(t), Seen(t))
        BY <1>1, <2>2, <3>2 DEF WInv
      <4>2. Done(job[t], Own(t))
        BY <4>1, WaySound
      <4> QED
        BY <2>2, <4>2, OwnFields DEF Done
    <3> QED
      BY <3>1, <3>2
  <2> QED
    BY <2>1, <2>2 DEF At
<1> QED
  BY <1>1, WInvHolds, PTL

\* A test that fires soft GTs sends pedestals to its own crates (and the TUB) only,
\* whatever masks earlier commands have left; not at the Penn test stand, where
\* set_ped_crate_mask sets every bit.
THEOREM SoftGtsStayInTheirCrates ==
  ASSUME ~PennTeststand
  PROVE  Spec => []OwnPulses
<1>1. ASSUME WInv PROVE OwnPulses
  <2> SUFFICES ASSUME NEW t \in Threads, At(t, {"gt"}), sbc_up, job[t].crates # {}
               PROVE  mtc.pmsk \subseteq job[t].crates \cup {Tub}
    BY DEF OwnPulses
  <2> DEFINE s == Head(todo[t])
  <2>1. todo[t] # Nothing /\ s.op = "gt"
    BY DEF At
  <2>2. Legal(job[t], s, Own(t), Seen(t)) /\ Touched(s) \subseteq held[t]
    BY <1>1, <2>1, StepFacts
  <2>3. Sbc \in held[t]
    BY <2>1, <2>2 DEF Touched
  <2>4. Seen(t).up = sbc_up /\ Seen(t).mtc = mtc
    BY <2>3, SeenWithSbc
  <2> HIDE DEF s
  <2> QED
    BY <2>1, <2>2, <2>4 DEF Legal
<1> QED
  BY <1>1, WInvHolds, PTL

\* A command that is not given to set up pulses does not leave the MTC sending them
\* freely when it unlocks it, if none ran before and the SBC was there throughout.
THEOREM PulserLeftQuiet == Spec => []PulserQuiet
<1>1. ASSUME WInv PROVE PulserQuiet
  <2> SUFFICES ASSUME NEW t \in Threads, At(t, {"end"}), calm[t], Sbc \in Head(todo[t]).on,
                      job[t].name \notin LeavePulses
               PROVE  ~RunsFree
    BY DEF PulserQuiet
  <2> DEFINE s == Head(todo[t])
  <2>1. todo[t] # Nothing /\ s.op = "end" /\ Sbc \in s.on
    BY DEF At
  <2>2. Legal(job[t], s, Own(t), Seen(t)) /\ Touched(s) \subseteq held[t]
    BY <1>1, <2>1, StepFacts
  <2>3. Sbc \in held[t]
    BY <2>1, <2>2 DEF Touched
  <2>4. Seen(t).calm = calm[t] /\ Seen(t).mtc = mtc
    BY <2>3, SeenWithSbc
  <2> HIDE DEF s
  <2>5. ~Pulsing(mtc)
    BY <2>1, <2>2, <2>4 DEF Legal
  <2> QED
    BY <2>5 DEF RunsFree, Pulsing
<1> QED
  BY <1>1, WInvHolds, PTL
=============================================================================
