---------------------------- MODULE AccessProofs ----------------------------
(***************************************************************************)
(* Lemmas about the subs of Access: two callers never share one, and one   *)
(* that looks like an address belongs to a person.                         *)
(***************************************************************************)
EXTENDS Access, SequenceTheorems, TLAPS

\* Two texts around a doubled character, position by position.
LEMMA AroundDelimiter ==
  ASSUME NEW S, NEW ch \in S, NEW b \in Seq(S), NEW k \in Seq(S), NEW s,
         s = (b \o <<ch, ch>>) \o k
  PROVE  /\ s \in Seq(S) /\ Len(s) = Len(b) + 2 + Len(k)
         /\ \A i \in 1 .. Len(b) : s[i] = b[i]
         /\ s[Len(b) + 1] = ch /\ s[Len(b) + 2] = ch
         /\ \A i \in 1 .. Len(k) : s[Len(b) + 2 + i] = k[i]
<1> DEFINE d == <<ch, ch>>
           bd == b \o d
<1>1. d \in Seq(S) /\ Len(d) = 2 /\ d[1] = ch /\ d[2] = ch
  OBVIOUS
<1> HIDE DEF d
<1>2. Len(b) \in Nat /\ Len(k) \in Nat
  BY LenProperties
<1>3. /\ bd \in Seq(S) /\ Len(bd) = Len(b) + 2
      /\ \A i \in 1 .. Len(b) + 2 : bd[i] = IF i <= Len(b) THEN b[i] ELSE d[i - Len(b)]
  <2>1. /\ b \o d \in Seq(S) /\ Len(b \o d) = Len(b) + Len(d)
        /\ \A i \in 1 .. Len(b) + Len(d) :
             (b \o d)[i] = IF i <= Len(b) THEN b[i] ELSE d[i - Len(b)]
    BY <1>1, ConcatProperties
  <2> QED BY <1>1, <2>1
<1>4. /\ \A i \in 1 .. Len(b) : bd[i] = b[i]
      /\ bd[Len(b) + 1] = ch /\ bd[Len(b) + 2] = ch
  BY <1>1, <1>2, <1>3
<1>5. s = bd \o k
  BY DEF d
<1> HIDE DEF bd
<1>6. /\ s \in Seq(S) /\ Len(s) = Len(b) + 2 + Len(k)
      /\ \A i \in 1 .. (Len(b) + 2) + Len(k) :
           s[i] = IF i <= Len(b) + 2 THEN bd[i] ELSE k[i - (Len(b) + 2)]
  BY <1>3, <1>5, ConcatProperties
<1>7. /\ \A i \in 1 .. Len(b) : s[i] = b[i]
      /\ s[Len(b) + 1] = ch /\ s[Len(b) + 2] = ch
  BY <1>2, <1>4, <1>6
<1>8. ASSUME NEW i \in 1 .. Len(k) PROVE s[Len(b) + 2 + i] = k[i]
  <2>1. Len(b) + 2 + i \in 1 .. (Len(b) + 2) + Len(k) /\ ~(Len(b) + 2 + i <= Len(b) + 2)
        /\ (Len(b) + 2 + i) - (Len(b) + 2) = i
    BY <1>2
  <2> QED BY <1>6, <2>1
<1> QED BY <1>6, <1>7, <1>8

\* What a composed sub looks like, character by character.
LEMMA ComposedShape ==
  ASSUME NEW base \in Text, NEW key \in Text, key # NoKey
  PROVE  LET s == ComposeSub(base, key)
         IN  /\ s \in Text /\ Len(s) = Len(base) + 2 + Len(key)
             /\ \A i \in 1 .. Len(base) : s[i] = base[i]
             /\ s[Len(base) + 1] = ":" /\ s[Len(base) + 2] = ":"
             /\ \A i \in 1 .. Len(key) : s[Len(base) + 2 + i] = key[i]
<1>1. ":" \in Character
  BY CharacterAssumption
<1>2. ComposeSub(base, key) = (base \o <<":", ":">>) \o key
  BY DEF ComposeSub, Delimiter
<1> QED BY <1>1, <1>2, AroundDelimiter DEF Text

\* Texts with the same characters are the same.
LEMMA SameText ==
  ASSUME NEW s \in Text, NEW t \in Text, Len(s) = Len(t),
         \A i \in 1 .. Len(s) : s[i] = t[i]
  PROVE  s = t
BY SeqEqual DEF Text

\* Lengths are numbers, and only no key has none.
LEMMA TextLength ==
  ASSUME NEW s \in Text
  PROVE  /\ Len(s) \in Nat /\ DOMAIN s = 1 .. Len(s)
         /\ s # NoKey => Len(s) > 0
BY LenProperties, EmptySeq DEF Text, NoKey

\* A sub with a key has the delimiter, which a base without a key must not have.
LEMMA KeyedIsDelimited ==
  ASSUME NEW base \in Text, NEW key \in Text, key # NoKey
  PROVE  HasDelimiter(ComposeSub(base, key))
<1> DEFINE s == ComposeSub(base, key)
<1>1. Len(key) \in Nat /\ Len(key) > 0 /\ Len(base) \in Nat
  BY TextLength
<1>2. /\ Len(s) = Len(base) + 2 + Len(key)
      /\ s[Len(base) + 1] = ":" /\ s[Len(base) + 2] = ":"
  BY ComposedShape
<1>3. Len(base) + 1 \in 1 .. (Len(s) - 1) /\ Len(base) + 2 = (Len(base) + 1) + 1
  BY <1>1, <1>2
<1> HIDE DEF s
<1>4. HasDelimiter(s)
  BY <1>2, <1>3 DEF HasDelimiter
<1> QED BY <1>4 DEF s

\* The base and the key are determined by the sub: the delimiter stands behind the
\* base, and the key, which has no colon, behind the last colon.
LEMMA ComposeSubInjective ==
  ASSUME NEW b \in Text, NEW k \in Text, NEW c \in Text, NEW j \in Text,
         ~HasDelimiter(b), ~HasDelimiter(c), ValidAgentKey(k), ValidAgentKey(j),
         ComposeSub(b, k) = ComposeSub(c, j)
  PROVE  b = c /\ k = j
<1> DEFINE s == ComposeSub(b, k)
<1>1. CASE k = NoKey /\ j = NoKey
  BY <1>1 DEF ComposeSub
<1>2. CASE k = NoKey /\ j # NoKey
  BY <1>2, KeyedIsDelimited DEF ComposeSub
<1>3. CASE k # NoKey /\ j = NoKey
  BY <1>3, KeyedIsDelimited DEF ComposeSub
<1>4. CASE k # NoKey /\ j # NoKey
  <2>1. /\ Len(s) = Len(b) + 2 + Len(k)
        /\ \A i \in 1 .. Len(b) : s[i] = b[i]
        /\ s[Len(b) + 2] = ":"
        /\ \A i \in 1 .. Len(k) : s[Len(b) + 2 + i] = k[i]
    BY <1>4, ComposedShape
  <2>2. /\ Len(s) = Len(c) + 2 + Len(j)
        /\ \A i \in 1 .. Len(c) : s[i] = c[i]
        /\ s[Len(c) + 2] = ":"
        /\ \A i \in 1 .. Len(j) : s[Len(c) + 2 + i] = j[i]
    <3>1. s = ComposeSub(c, j)
      OBVIOUS
    <3> HIDE DEF s
    <3> QED BY <1>4, <3>1, ComposedShape
  <2>3. /\ \A i \in 1 .. Len(k) : k[i] # ":"
        /\ \A i \in 1 .. Len(j) : j[i] # ":"
    BY TextLength DEF ValidAgentKey, Contains
  <2>4. Len(b) \in Nat /\ Len(c) \in Nat /\ Len(k) \in Nat /\ Len(j) \in Nat
    BY TextLength
  <2> HIDE DEF s
  <2>5. ~(Len(b) < Len(c))
    <3> SUFFICES ASSUME Len(b) < Len(c) PROVE FALSE
      OBVIOUS
    <3> DEFINE i == Len(c) - Len(b)
    <3>1. i \in 1 .. Len(k) /\ Len(b) + 2 + i = Len(c) + 2
      BY <2>1, <2>2, <2>4
    <3> HIDE DEF i
    <3>2. s[Len(b) + 2 + i] = k[i] /\ k[i] # ":"
      BY <2>1, <2>2, <2>3, <3>1
    <3>3. s[Len(c) + 2] = ":"
      BY <2>1, <2>2
    <3> QED BY <3>1, <3>2, <3>3
  <2>6. ~(Len(c) < Len(b))
    <3> SUFFICES ASSUME Len(c) < Len(b) PROVE FALSE
      OBVIOUS
    <3> DEFINE i == Len(b) - Len(c)
    <3>1. i \in 1 .. Len(j) /\ Len(c) + 2 + i = Len(b) + 2
      BY <2>1, <2>2, <2>4
    <3> HIDE DEF i
    <3>2. s[Len(c) + 2 + i] = j[i] /\ j[i] # ":"
      BY <2>1, <2>2, <2>3, <3>1
    <3>3. s[Len(b) + 2] = ":"
      BY <2>1, <2>2
    <3> QED BY <3>1, <3>2, <3>3
  <2>7. Len(b) = Len(c) /\ Len(k) = Len(j)
    BY <2>1, <2>2, <2>4, <2>5, <2>6
  <2>8. b = c
    BY <2>1, <2>2, <2>7, SameText
  <2>9. k = j
    BY <2>1, <2>2, <2>7, SameText
  <2> QED BY <2>8, <2>9
<1> QED BY <1>1, <1>2, <1>3, <1>4

-----------------------------------------------------------------------------
(* Callers *)

\* The identity of a token is a text, or none.
LEMMA IdentityIsText ==
  ASSUME NEW caller, CallerShape(caller)
  PROVE  /\ ResolvedIdentity(caller.token) \subseteq Text
         /\ \A x, y \in ResolvedIdentity(caller.token) : x = y
BY DEF CallerShape, ResolvedIdentity

\* Two callers with one sub have one identity and one key.
LEMMA SubNamesCaller ==
  ASSUME NEW k, CallerShape(k), NEW j, CallerShape(j),
         NEW s \in SubsOf(k), s \in SubsOf(j)
  PROVE  ResolvedIdentity(k.token) = ResolvedIdentity(j.token) /\ k.key = j.key
<1>1. PICK b \in ResolvedIdentity(k.token) :
        ~HasDelimiter(b) /\ ValidAgentKey(k.key) /\ s = ComposeSub(b, k.key)
  BY DEF SubsOf
<1>2. PICK c \in ResolvedIdentity(j.token) :
        ~HasDelimiter(c) /\ ValidAgentKey(j.key) /\ s = ComposeSub(c, j.key)
  BY DEF SubsOf
<1>3. b \in Text /\ c \in Text /\ k.key \in Text /\ j.key \in Text
  BY IdentityIsText DEF CallerShape
<1>4. b = c /\ k.key = j.key
  BY <1>1, <1>2, <1>3, ComposeSubInjective
<1>5. ResolvedIdentity(k.token) = {b} /\ ResolvedIdentity(j.token) = {c}
  BY IdentityIsText
<1> QED BY <1>4, <1>5

\* A position behind the delimiter is one of the key.
LEMMA Behind ==
  ASSUME NEW x \in Nat, NEW y \in Nat, NEW i \in 1 .. (x + 2 + y), i > x + 2
  PROVE  i - (x + 2) \in 1 .. y /\ i = x + 2 + (i - (x + 2))
OBVIOUS

\* Only a person goes by an address: a sub with an at sign is not of an agent's token.
LEMMA AddressIsInteractive ==
  ASSUME NEW k, CallerShape(k), NEW s \in SubsOf(k), Contains(s, "@")
  PROVE  IsInteractive(k.token)
<1>1. PICK b \in ResolvedIdentity(k.token) :
        ValidAgentKey(k.key) /\ s = ComposeSub(b, k.key)
  BY DEF SubsOf
<1>2. b \in Text /\ k.key \in Text
  BY IdentityIsText DEF CallerShape
<1>3. Contains(b, "@")
  <2>1. CASE k.key = NoKey
    BY <1>1, <2>1 DEF ComposeSub
  <2>2. CASE k.key # NoKey
    <3>1. /\ s \in Text /\ Len(s) = Len(b) + 2 + Len(k.key)
          /\ \A i \in 1 .. Len(b) : s[i] = b[i]
          /\ s[Len(b) + 1] = ":" /\ s[Len(b) + 2] = ":"
          /\ \A i \in 1 .. Len(k.key) : s[Len(b) + 2 + i] = k.key[i]
      BY <1>1, <1>2, <2>2, ComposedShape
    <3>2. PICK i \in 1 .. Len(s) : s[i] = "@"
      BY <3>1, TextLength DEF Contains
    <3>3. \A n \in 1 .. Len(k.key) : k.key[n] # "@"
      BY <1>1, <1>2, TextLength DEF ValidAgentKey, Contains
    <3>4. Len(b) \in Nat /\ Len(k.key) \in Nat /\ DOMAIN b = 1 .. Len(b)
      BY <1>2, TextLength
    <3>5. ~(i > Len(b) + 2)
      <4> SUFFICES ASSUME i > Len(b) + 2 PROVE FALSE
        OBVIOUS
      <4> DEFINE n == i - (Len(b) + 2)
      <4>1. i \in 1 .. (Len(b) + 2 + Len(k.key))
        BY <3>1
      <4>2. n \in 1 .. Len(k.key) /\ i = Len(b) + 2 + n
        BY <3>4, <4>1, Behind
      <4> HIDE DEF n
      <4> QED BY <3>1, <3>2, <3>3, <4>2
    <3>6. i # Len(b) + 1 /\ i # Len(b) + 2
      BY <3>1, <3>2
    <3>7. i \in 1 .. Len(b)
      BY <3>4, <3>5, <3>6
    <3> QED BY <3>1, <3>2, <3>4, <3>7 DEF Contains
  <2> QED BY <2>1, <2>2
<1>4. SubShapeValid(k.token)
  BY <1>1 DEF ResolvedIdentity
<1>5. ResolvedIdentity(k.token) # k.token.sub
  BY <1>1, <1>3, <1>4 DEF SubShapeValid
<1>6. k.token.iss \notin {"none", "agent-jwt"}
  BY <1>4, <1>5, Zenon DEF ResolvedIdentity
<1> QED BY <1>6 DEF IsInteractive
=============================================================================
