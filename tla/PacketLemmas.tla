------------------------------ MODULE PacketLemmas ------------------------------
(***************************************************************************)
(* What Xl3CmdProofs and CollectorProofs need to know of packet numbers    *)
(* that go round and of the packets in a queue.                            *)
(***************************************************************************)
EXTENDS Integers, Sequences, TLAPS

\* Division with remainder.
LEMMA DivMod ==
  ASSUME NEW m \in Nat \ {0}, NEW a \in Nat PROVE a = m * (a \div m) + (a % m)
OBVIOUS

\* Numbers less than m apart do not meet when they go round.
LEMMA ModDiffers ==
  ASSUME NEW m \in Nat \ {0}, NEW a \in Nat, NEW b \in Nat, b < a, a - b < m
  PROVE  a % m # b % m
<1>1. PICK p \in Int : p = a \div m
  OBVIOUS
<1>2. PICK q \in Int : q = b \div m
  OBVIOUS
<1>3. a = m * p + (a % m) /\ b = m * q + (b % m)
  BY <1>1, <1>2, DivMod
<1>4. \A r \in Int, k, i, j \in Int : i = k * p + r /\ j = k * q + r => i - j = k * (p - q)
  OBVIOUS
<1>5. \A k \in Int : k <= 0 => m * k <= 0
  OBVIOUS
<1>6. \A k \in Int : k > 0 => m * k >= m
  OBVIOUS
<1>7. SUFFICES ASSUME a % m = b % m PROVE FALSE
  OBVIOUS
<1>8. a - b = m * (p - q)
  <2>1. PICK r \in Int : r = a % m
    OBVIOUS
  <2>2. a = m * p + r /\ b = m * q + r
    BY <1>3, <1>7, <2>1
  <2>3. QED
    BY <1>4, <2>2
<1>9. QED
  <2>1. PICK d \in Int : d = a - b
    OBVIOUS
  <2>2. PICK k \in Int : k = p - q
    OBVIOUS
  <2>3. d = m * k /\ 0 < d /\ d < m
    BY <1>8, <2>1, <2>2
  <2>4. m * k <= 0 \/ m * k >= m
    BY <1>5, <1>6
  <2>5. QED
    BY <2>3, <2>4

\* A number that has gone round is below the modulus.
LEMMA ModRange ==
  ASSUME NEW m \in Nat \ {0}, NEW a \in Nat PROVE a % m \in 0 .. m - 1
OBVIOUS

-----------------------------------------------------------------------------
(* Queues, and the set of what is in one                                    *)

In(s) == {s[k] : k \in DOMAIN s}

\* A queue gains one element.
LEMMA AppendIn ==
  ASSUME NEW S, NEW s \in Seq(S), NEW e \in S
  PROVE  /\ Append(s, e) \in Seq(S)
         /\ Append(s, e) # <<>>
         /\ In(Append(s, e)) = In(s) \cup {e}
<1>1. /\ Append(s, e) \in Seq(S) /\ Len(Append(s, e)) = Len(s) + 1
      /\ \A k \in 1 .. Len(s) : Append(s, e)[k] = s[k]
      /\ Append(s, e)[Len(s) + 1] = e
  OBVIOUS
<1>2. DOMAIN Append(s, e) = 1 .. Len(s) + 1 /\ DOMAIN s = 1 .. Len(s) /\ Len(s) \in Nat
  BY <1>1
<1>3. In(Append(s, e)) = In(s) \cup {e}
  BY <1>1, <1>2 DEF In
<1>4. QED
  BY <1>1, <1>3

\* A queue loses its first element and no other.
LEMMA TailIn ==
  ASSUME NEW S, NEW s \in Seq(S), s # <<>>
  PROVE  /\ Tail(s) \in Seq(S) /\ In(Tail(s)) \subseteq In(s)
         /\ Head(s) \in In(s) /\ Head(s) \in S
<1>1. /\ Tail(s) \in Seq(S) /\ Len(Tail(s)) = Len(s) - 1 /\ Len(s) \in Nat \ {0}
      /\ \A k \in 1 .. Len(Tail(s)) : Tail(s)[k] = s[k + 1]
      /\ Head(s) = s[1]
  OBVIOUS
<1>2. DOMAIN Tail(s) = 1 .. Len(s) - 1 /\ DOMAIN s = 1 .. Len(s)
  BY <1>1
<1>3. QED
  BY <1>1, <1>2 DEF In

\* One element of a queue is replaced.
LEMMA ExceptIn ==
  ASSUME NEW S, NEW s \in Seq(S), NEW e \in S, NEW k \in DOMAIN s
  PROVE  /\ [s EXCEPT ![k] = e] \in Seq(S)
         /\ In([s EXCEPT ![k] = e]) \subseteq In(s) \cup {e}
<1>1. [s EXCEPT ![k] = e] \in Seq(S) /\ DOMAIN [s EXCEPT ![k] = e] = DOMAIN s
  OBVIOUS
<1>2. \A j \in DOMAIN s : [s EXCEPT ![k] = e][j] = IF j = k THEN e ELSE s[j]
  OBVIOUS
<1>3. QED
  BY <1>1, <1>2 DEF In

\* Nothing is in an empty queue.
LEMMA EmptyIn == In(<<>>) = {}
BY DEF In

\* What is in a queue has its type.
LEMMA InTyped == ASSUME NEW S, NEW s \in Seq(S) PROVE In(s) \subseteq S
BY DEF In
=============================================================================
