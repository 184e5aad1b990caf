------------------------ MODULE DocumentBuild_proofs -------------------------
(***************************************************************************)
(* The documents' contents, for every sequence of requests.  First what    *)
(* the recursive definitions compute, by an induction that takes a set     *)
(* instead of a predicate; then the templates, the documents and the       *)
(* amounts; last the invariants.                                           *)
(***************************************************************************)
EXTENDS DocumentBuild, SequenceTheorems, WellFoundedInduction, TLAPS

-----------------------------------------------------------------------------
(* Induction, and sequences of anything. *)

\* Induction up to N: a set that holds 0 and, with a number, the next one.
LEMMA Induction ==
    ASSUME NEW N \in Nat, NEW T, 0 \in T,
           \A n \in 0 .. N : n < N /\ n \in T => n + 1 \in T
    PROVE  \A n \in 0 .. N : n \in T
<1> DEFINE R == OpToRel(<, Nat)
           F == {n \in 0 .. N : n \notin T}
<1> SUFFICES ASSUME F # {} PROVE FALSE  OBVIOUS
<1>1. IsWellFoundedOn(R, Nat)  BY NatLessThanWellFounded
<1>2. F \subseteq Nat  OBVIOUS
<1>3. \E x \in F : \A y \in F : ~ (<<y, x>> \in R)
  <2> HIDE DEF R, F
  <2> QED BY <1>1, <1>2, WFMin
<1>4. PICK m \in F : \A y \in F : ~ (<<y, m>> \in R)  BY <1>3
<1>5. m # 0  OBVIOUS
<1>6. m - 1 \in 0 .. N /\ m - 1 < N /\ (m - 1) + 1 = m  BY <1>5
<1>7. m - 1 \notin T  BY <1>6, <1>4
<1>8. m - 1 \in F  BY <1>6, <1>7
<1>9. <<m - 1, m>> \in R  BY <1>6 DEF OpToRel
<1> QED BY <1>4, <1>8, <1>9

\* A function that starts with base and goes on by step.
Goes(f, N, base, step) ==
    f[0] = base /\ \A n \in 1 .. N : f[n] = step[n][f[n - 1]]

\* Such a function exists.
LEMMA Recursion ==
    ASSUME NEW N \in Nat, NEW S, NEW base \in S, NEW step \in [1 .. N -> [S -> S]]
    PROVE  \E f \in [0 .. N -> S] : Goes(f, N, base, step)
<1> DEFINE P(n) == \E f \in [0 .. n -> S] :
              f[0] = base /\ \A k \in 1 .. n : f[k] = step[k][f[k - 1]]
           T == {n \in 0 .. N : P(n)}
<1>1. P(0)
  <2>1. [k \in 0 .. 0 |-> base] \in [0 .. 0 -> S]  OBVIOUS
  <2>2. [k \in 0 .. 0 |-> base][0] = base  OBVIOUS
  <2>3. 1 .. 0 = {}  OBVIOUS
  <2> QED BY <2>1, <2>2, <2>3
<1>2. ASSUME NEW n \in 0 .. N, n < N, P(n)  PROVE P(n + 1)
  <2>1. PICK f \in [0 .. n -> S] :
              f[0] = base /\ \A k \in 1 .. n : f[k] = step[k][f[k - 1]]
    BY <1>2
  <2> DEFINE g == [k \in 0 .. n + 1 |-> IF k <= n THEN f[k] ELSE step[n + 1][f[n]]]
  <2>2. step[n + 1][f[n]] \in S  BY <2>1, <1>2
  <2>3. g \in [0 .. n + 1 -> S]  BY <2>1, <2>2
  <2>4. g[0] = base  BY <2>1
  <2>5. ASSUME NEW k \in 1 .. n + 1 PROVE g[k] = step[k][g[k - 1]]
    BY <2>1
  <2> HIDE DEF g
  <2> QED BY <2>3, <2>4, <2>5
<1> HIDE DEF P
<1>3. \A n \in 0 .. N : n < N /\ n \in T => n + 1 \in T  BY <1>2
<1>4. 0 \in T  BY <1>1
<1>5. \A n \in 0 .. N : n \in T
  <2> HIDE DEF T
  <2> QED BY <1>3, <1>4, Induction
<1>6. P(N)  BY <1>5
<1> QED BY <1>6 DEF P, Goes

\* A sequence, of whatever elements.
IsSeq(s) == \E S : s \in Seq(S)

\* What every sequence has.
LEMMA SeqFacts ==
    ASSUME NEW s, IsSeq(s)
    PROVE  Len(s) \in Nat /\ DOMAIN s = 1 .. Len(s)
<1>1. PICK S : s \in Seq(S)  BY DEF IsSeq
<1> QED BY <1>1

\* Append leaves the elements where they are.
LEMMA AppendFacts ==
    ASSUME NEW s, IsSeq(s), NEW x
    PROVE  /\ IsSeq(Append(s, x))
           /\ Len(Append(s, x)) = Len(s) + 1
           /\ DOMAIN Append(s, x) = 1 .. Len(s) + 1
           /\ \A i \in 1 .. Len(s) : Append(s, x)[i] = s[i]
           /\ Append(s, x)[Len(s) + 1] = x
<1>1. PICK S : s \in Seq(S)  BY DEF IsSeq
<1> DEFINE T == S \cup {x}
<1>2. s \in Seq(T) /\ x \in T  BY <1>1, SeqMonotonic
<1> HIDE DEF T
<1>3. Append(s, x) \in Seq(T)  BY <1>2, AppendProperties
<1>4. IsSeq(Append(s, x))  BY <1>3 DEF IsSeq
<1>5. Len(Append(s, x)) = Len(s) + 1  BY <1>2, AppendProperties
<1> QED BY <1>2, <1>3, <1>4, <1>5, SeqFacts, AppendProperties

\* Sequences with the same elements are the same.
LEMMA SeqEquality ==
    ASSUME NEW s, NEW t, IsSeq(s), IsSeq(t), Len(s) = Len(t),
           \A i \in 1 .. Len(s) : s[i] = t[i]
    PROVE  s = t
<1>1. PICK S : s \in Seq(S)  BY DEF IsSeq
<1>2. PICK T : t \in Seq(T)  BY DEF IsSeq
<1>3. s \in Seq(S \cup T) /\ t \in Seq(S \cup T)  BY <1>1, <1>2, SeqMonotonic
<1> QED BY <1>3, SeqEqual

\* Functions on 1 .. n are sequences.
LEMMA FunctionIsSeq ==
    ASSUME NEW n \in Nat, NEW f, f = [i \in 1 .. n |-> f[i]]
    PROVE  IsSeq(f) /\ Len(f) = n
<1> DEFINE S == {f[i] : i \in 1 .. n}
<1>1. f \in [1 .. n -> S]  OBVIOUS
<1>2. f \in Seq(S)  BY <1>1
<1>3. Len(f) = n  BY <1>1
<1> QED BY <1>2, <1>3 DEF IsSeq

\* The first element of all.
LEMMA AppendToEmpty ==
    ASSUME NEW x PROVE Append(<<>>, x) = <<x>>
<1>1. <<>> \in Seq({x}) /\ <<x>> \in Seq({x})  OBVIOUS
<1>2. IsSeq(<<>>) /\ IsSeq(<<x>>)  BY <1>1 DEF IsSeq
<1>3. Len(<<>>) = 0 /\ Len(<<x>>) = 1 /\ <<x>>[1] = x  OBVIOUS
<1>4. IsSeq(Append(<<>>, x)) /\ Len(Append(<<>>, x)) = 1 /\ Append(<<>>, x)[1] = x
  BY <1>2, <1>3, AppendFacts
<1>5. \A i \in 1 .. 1 : i = 1  OBVIOUS
<1> QED BY <1>2, <1>3, <1>4, <1>5, SeqEquality

-----------------------------------------------------------------------------
(* Templates. *)

\* A set of natural numbers has a least element.
LEMMA LeastNat ==
    ASSUME NEW T, T \subseteq Nat, T # {}
    PROVE  \E m \in T : \A k \in T : m <= k
<1> DEFINE R == OpToRel(<, Nat)
<1>1. IsWellFoundedOn(R, Nat)  BY NatLessThanWellFounded
<1>2. \E x \in T : \A y \in T : ~ (<<y, x>> \in R)
  <2> HIDE DEF R
  <2> QED BY <1>1, WFMin
<1>3. PICK m \in T : \A y \in T : ~ (<<y, m>> \in R)  BY <1>2
<1>4. \A y \in T : ~ (y < m)  BY <1>3 DEF OpToRel
<1>5. \A y \in T : y \in Nat  OBVIOUS
<1>6. \A y \in T : m <= y  BY <1>4, <1>5
<1> QED BY <1>6

\* The minimum of a set of natural numbers is in it.
LEMMA MinIsIn ==
    ASSUME NEW T, T \subseteq Nat, T # {}
    PROVE  Min(T) \in T
<1>1. PICK m \in T : \A k \in T : m <= k  BY LeastNat
<1> QED BY <1>1 DEF Min

\* The words of a prefix are those of the whole.
LEMMA PrefixWords ==
    ASSUME NEW s, NEW t, IsSeq(s), IsSeq(t), IsPrefix(s, t)
    PROVE  Len(s) <= Len(t) /\ \A i \in 1 .. Len(s) : s[i] = t[i]
<1> DEFINE n == Len(s)
           S == {s[i] : i \in 1 .. n} \cup {t[i] : i \in 1 .. n}
<1>1. n \in Nat  BY SeqFacts
<1>2. Len(s) <= Len(t) /\ SubSeq(s, 1, n) = SubSeq(t, 1, n)  BY DEF IsPrefix
<1> HIDE DEF n
<1>3. \A i \in 1 .. n : s[i] \in S /\ t[i] \in S  OBVIOUS
<1> HIDE DEF S
<1>4. \A i \in 1 .. n - 1 + 1 : SubSeq(s, 1, n)[i] = s[1 + i - 1]
  BY <1>1, <1>3, SubSeqProperties
<1>5. \A i \in 1 .. n - 1 + 1 : SubSeq(t, 1, n)[i] = t[1 + i - 1]
  BY <1>1, <1>3, SubSeqProperties
<1>6. ASSUME NEW i \in 1 .. n PROVE s[i] = t[i]
  <2>1. i \in 1 .. n - 1 + 1 /\ 1 + i - 1 = i  BY <1>1
  <2> QED BY <2>1, <1>2, <1>4, <1>5
<1> QED BY <1>2, <1>6 DEF n

SlotSet == Range(Slots)

\* The slots, one by one.
LEMMA SlotSetIs ==
    SlotSet = {"UBLExtensions", "ID", "UUID", "IssueDate", "IssueTime",
               "InvoiceTypeCode", "BillingReference", "ICV", "PIH", "QR", "CRN",
               "StreetName", "BuildingNumber", "PlotIdentification",
               "CitySubdivisionName", "CityName", "PostalZone", "CompanyID",
               "RegistrationName", "Customer"}
BY DEF SlotSet, Range, Slots

\* Short tuples are sequences.
LEMMA TupleIsSeq ==
    ASSUME NEW a, NEW b, NEW c, NEW d
    PROVE  /\ IsSeq(<<>>) /\ IsSeq(<<a>>) /\ IsSeq(<<a, b>>)
           /\ IsSeq(<<a, b, c>>) /\ IsSeq(<<a, b, c, d>>)
<1> DEFINE S == {a, b, c, d}
<1>1. a \in S /\ b \in S /\ c \in S /\ d \in S  OBVIOUS
<1> HIDE DEF S
<1>2. <<>> \in Seq(S) /\ <<a>> \in Seq(S) /\ <<a, b>> \in Seq(S)  BY <1>1
<1>3. <<a, b, c>> \in Seq(S) /\ <<a, b, c, d>> \in Seq(S)  BY <1>1
<1> QED BY <1>2, <1>3 DEF IsSeq

\* Every slot has a token of two to four words.
LEMMA TokenIsSeq ==
    ASSUME NEW s \in SlotSet
    PROVE  IsSeq(Token[s]) /\ Len(Token[s]) \in 2 .. 4
<1>1. \/ Token[s] = <<Token[s][1], Token[s][2]>>
      \/ Token[s] = <<Token[s][1], Token[s][2], Token[s][3]>>
      \/ Token[s] = <<Token[s][1], Token[s][2], Token[s][3], Token[s][4]>>
  BY SlotSetIs DEF Token
<1>2. Len(Token[s]) \in 2 .. 4  BY SlotSetIs DEF Token
<1> QED BY <1>1, <1>2, TupleIsSeq

\* No token is a prefix of another but SET_CITY of SET_CITY_SUBDIVISION.
LEMMA TokenPrefix ==
    ASSUME NEW s \in SlotSet, NEW t \in SlotSet, IsPrefix(Token[s], Token[t])
    PROVE  s = t \/ (s = "CityName" /\ t = "CitySubdivisionName")
<1>1. Len(Token[s]) <= Len(Token[t]) /\ \A i \in 1 .. Len(Token[s]) : Token[s][i] = Token[t][i]
  BY TokenIsSeq, PrefixWords
<1>2. Token[s][1] = Token[t][1] /\ Token[s][2] = Token[t][2]
  BY <1>1, TokenIsSeq
<1>3. s \notin {"ID", "ICV", "InvoiceTypeCode", "IssueDate", "IssueTime", "CityName",
                "CitySubdivisionName", "CompanyID", "RegistrationName"} => s = t
  BY <1>2, SlotSetIs DEF Token
<1>4. CASE s = "CityName"
  BY <1>4, <1>2, SlotSetIs DEF Token
<1>5. CASE s \in {"ID", "ICV", "InvoiceTypeCode", "IssueDate", "IssueTime",
                  "CitySubdivisionName", "CompanyID", "RegistrationName"}
  <2>1. Len(Token[s]) >= 3
    <3>1. /\ Len(Token["ID"]) = 4 /\ Len(Token["ICV"]) = 4
          /\ Len(Token["InvoiceTypeCode"]) = 3 /\ Len(Token["IssueDate"]) = 3
          /\ Len(Token["IssueTime"]) = 3 /\ Len(Token["CitySubdivisionName"]) = 3
          /\ Len(Token["CompanyID"]) = 3 /\ Len(Token["RegistrationName"]) = 3
      BY DEF Token
    <3>2. Len(Token[s]) \in {3, 4}  BY <1>5, <3>1
    <3> QED BY <3>2
  <2>2. Token[s][3] = Token[t][3] /\ Len(Token[t]) >= 3
    BY <1>1, <2>1, TokenIsSeq
  <2>3. t # "CityName"
    <3>1. Len(Token["CityName"]) = 2  BY DEF Token
    <3> QED BY <3>1, <2>2
  <2>4. CASE s \in {"ID", "ICV", "InvoiceTypeCode"}
    <3>1. t \in {"ID", "ICV", "InvoiceTypeCode"}  BY <2>4, <1>2, SlotSetIs DEF Token
    <3> QED BY <2>4, <3>1, <2>2 DEF Token
  <2>5. CASE s \in {"IssueDate", "IssueTime"}
    <3>1. t \in {"IssueDate", "IssueTime"}  BY <2>5, <1>2, SlotSetIs DEF Token
    <3> QED BY <2>5, <3>1, <2>2 DEF Token
  <2>6. CASE s \in {"CompanyID", "RegistrationName"}
    <3>1. t \in {"CompanyID", "RegistrationName"}  BY <2>6, <1>2, SlotSetIs DEF Token
    <3> QED BY <2>6, <3>1, <2>2 DEF Token
  <2>7. CASE s = "CitySubdivisionName"
    <3>1. t \in {"CitySubdivisionName", "CityName"}  BY <2>7, <1>2, SlotSetIs DEF Token
    <3> QED BY <2>7, <3>1, <2>3
  <2> QED BY <1>5, <2>4, <2>5, <2>6, <2>7
<1> QED BY <1>3, <1>4, <1>5

\* A template of which the slots in done are filled with the values of V.
Filling(subtype, slots, V, done) ==
    [subtype |-> subtype,
     text |-> [s \in SlotSet |->
                 IF s \in done THEN [written |-> <<V[s]>>, left |-> <<>>]
                 ELSE [written |-> <<>>,
                       left |-> IF s \in slots THEN Token[s] ELSE <<>>]]]

\* String.replace fills the slot of the token: it is the only place where the
\* token begins, if the subdivision of the city goes before the city.
LEMMA ReplaceFills ==
    ASSUME NEW subtype, NEW slots \in SUBSET SlotSet, NEW V, NEW done,
           NEW s \in slots, s \notin done,
           s = "CityName" => "CitySubdivisionName" \in done
    PROVE  Replace(Filling(subtype, slots, V, done), Token[s], V[s])
             = Filling(subtype, slots, V, done \cup {s})
<1> DEFINE t == Filling(subtype, slots, V, done)
           At == SelectInSeq(Slots, LAMBDA x : IsPrefix(Token[s], t.text[x].left))
           I  == {i \in 1 .. Len(Slots) : IsPrefix(Token[s], t.text[Slots[i]].left)}
<1>1. s \in SlotSet  OBVIOUS
<1>2. \A x \in SlotSet :
         t.text[x].left = IF x \in slots \ done THEN Token[x] ELSE <<>>
  BY DEF Filling
<1>3. IsSeq(Token[s]) /\ Len(Token[s]) \in 2 .. 4  BY <1>1, TokenIsSeq
<1>4. ~IsPrefix(Token[s], <<>>)
  <2>1. Len(<<>>) = 0  OBVIOUS
  <2> QED BY <2>1, <1>3 DEF IsPrefix
<1>5. IsPrefix(Token[s], Token[s])  BY <1>3 DEF IsPrefix
<1>6. t.text[s] = [written |-> <<>>, left |-> Token[s]]  BY <1>1 DEF Filling
<1>7. ASSUME NEW x \in SlotSet, IsPrefix(Token[s], t.text[x].left)
      PROVE  x = s
  <2>1. x \notin done /\ x \in slots
    <3> HIDE DEF t
    <3> QED BY <1>2, <1>7, <1>4
  <2>2. IsPrefix(Token[s], Token[x])
    <3> HIDE DEF t
    <3> QED BY <1>2, <1>7, <2>1
  <2>3. x = s \/ (s = "CityName" /\ x = "CitySubdivisionName")
    BY <1>1, <2>2, TokenPrefix
  <2> QED BY <2>1, <2>3
<1>8. I \subseteq Nat /\ I # {} /\ \A i \in I : Slots[i] = s
  <2>1. \A i \in 1 .. Len(Slots) : Slots[i] \in SlotSet  BY DEF SlotSet, Range, Slots
  <2>2. \E i \in 1 .. Len(Slots) : Slots[i] = s
    BY <1>1 DEF SlotSet, Range, Slots
  <2>3. I \subseteq Nat  BY DEF Slots
  <2>4. \A i \in I : Slots[i] = s
    <3> HIDE DEF t
    <3> QED BY <1>7, <2>1
  <2>5. I # {}
    <3>1. PICK i \in 1 .. Len(Slots) : Slots[i] = s  BY <2>2
    <3>2. t.text[Slots[i]].left = Token[s]
      <4> HIDE DEF t
      <4> QED BY <3>1, <1>6
    <3> HIDE DEF t
    <3>3. IsPrefix(Token[s], t.text[Slots[i]].left)  BY <3>2, <1>5
    <3> QED BY <3>3
  <2> QED BY <2>3, <2>4, <2>5
<1>9. At = Min(I)
  <2> HIDE DEF t
  <2> QED BY <1>8 DEF SelectInSeq
<1>10. Slots[At] = s /\ At # 0
  <2> HIDE DEF I, At
  <2>1. Min(I) \in I  BY <1>8, MinIsIn
  <2>2. 0 \notin I  BY DEF I
  <2> QED BY <1>8, <1>9, <2>1, <2>2
<1>11. Append(<<>>, V[s]) = <<V[s]>>  BY AppendToEmpty
<1>12. SubSeq(Token[s], Len(Token[s]) + 1, Len(Token[s])) = <<>>
  BY <1>3, SubSeqEmpty
<1>13. Replace(t, Token[s], V[s])
         = [t EXCEPT !.text[s] = [written |-> <<V[s]>>, left |-> <<>>]]
  <2>1. Replace(t, Token[s], V[s])
          = IF At = 0 THEN t
            ELSE [t EXCEPT !.text[Slots[At]] =
                    [written |-> Append(@.written, V[s]),
                     left    |-> SubSeq(@.left, Len(Token[s]) + 1, Len(@.left))]]
    <3> HIDE DEF t
    <3> QED BY DEF Replace
  <2> HIDE DEF At, t
  <2>2. [t EXCEPT !.text[Slots[At]] =
           [written |-> Append(@.written, V[s]),
            left    |-> SubSeq(@.left, Len(Token[s]) + 1, Len(@.left))]]
        = [t EXCEPT !.text[s] =
           [written |-> Append(@.written, V[s]),
            left    |-> SubSeq(@.left, Len(Token[s]) + 1, Len(@.left))]]
    BY <1>10
  <2>3. /\ Append(t.text[s].written, V[s]) = <<V[s]>>
        /\ SubSeq(t.text[s].left, Len(Token[s]) + 1, Len(t.text[s].left)) = <<>>
    BY <1>6, <1>11, <1>12
  <2>4. Replace(t, Token[s], V[s])
        = [t EXCEPT !.text[s] =
           [written |-> Append(@.written, V[s]),
            left    |-> SubSeq(@.left, Len(Token[s]) + 1, Len(@.left))]]
    BY <2>1, <2>2, <1>10
  <2> QED BY <2>3, <2>4
<1>14. [t EXCEPT !.text[s] = [written |-> <<V[s]>>, left |-> <<>>]]
         = Filling(subtype, slots, V, done \cup {s})
  <2> DEFINE w == [written |-> <<V[s]>>, left |-> <<>>]
             x == t.text
             y == Filling(subtype, slots, V, done \cup {s}).text
  <2>1. [x EXCEPT ![s] = w] = y  BY <1>1 DEF Filling
  <2>2. t = [subtype |-> subtype, text |-> x]  BY DEF Filling
  <2>3. Filling(subtype, slots, V, done \cup {s}) = [subtype |-> subtype, text |-> y]
    BY DEF Filling
  <2>4. [t EXCEPT !.text[s] = w] = [t EXCEPT !.text = [x EXCEPT ![s] = w]]  OBVIOUS
  <2> HIDE DEF w, x, y, t
  <2>5. [t EXCEPT !.text[s] = w] = Filling(subtype, slots, V, done \cup {s})
    BY <2>1, <2>2, <2>3, <2>4
  <2> QED BY <2>5 DEF w
<1> QED BY <1>13, <1>14

\* Replacements that write the values of V to slots, in an order that names none
\* twice and the subdivision of the city before the city.
WritesInOrder(subs, order, slots, V) ==
    \A n \in 1 .. Len(subs) :
       /\ order[n] \in slots
       /\ \A k \in 1 .. n - 1 : order[k] # order[n]
       /\ order[n] = "CityName" =>
             \E k \in 1 .. n - 1 : order[k] = "CitySubdivisionName"
       /\ subs[n][1] = Token[order[n]]
       /\ subs[n][2] = V[order[n]]

\* The first n slots of an order.
FirstOf(order, n) == {order[k] : k \in 1 .. n}

\* A chain of replacements fills the slots of its tokens, each once.
LEMMA ApplyFills ==
    ASSUME NEW subtype, NEW slots, slots \subseteq SlotSet, NEW V, NEW subs,
           Len(subs) \in Nat, NEW order, WritesInOrder(subs, order, slots, V)
    PROVE  ApplyAll(Filling(subtype, slots, V, {}), subs)
             = Filling(subtype, slots, V, FirstOf(order, Len(subs)))
<1> DEFINE N == Len(subs)
           Done(n) == FirstOf(order, n)
           G(n) == Filling(subtype, slots, V, Done(n))
           g == [n \in 0 .. N |-> G(n)]
           F(f) == [n \in 0 .. N |->
                      IF n = 0 THEN Filling(subtype, slots, V, {})
                      ELSE Replace(f[n - 1], subs[n][1], subs[n][2])]
<1>1. Done(0) = {}  BY DEF FirstOf
<1>2. ASSUME NEW n \in 1 .. N
      PROVE  Replace(G(n - 1), subs[n][1], subs[n][2]) = G(n)
  <2>1. order[n] \in slots /\ subs[n][1] = Token[order[n]] /\ subs[n][2] = V[order[n]]
    BY DEF WritesInOrder
  <2>2. order[n] \notin Done(n - 1)  BY DEF WritesInOrder, FirstOf
  <2>3. order[n] = "CityName" => "CitySubdivisionName" \in Done(n - 1)
    BY DEF WritesInOrder, FirstOf
  <2>4. Done(n) = Done(n - 1) \cup {order[n]}  BY DEF FirstOf
  <2> HIDE DEF Done
  <2> QED BY <2>1, <2>2, <2>3, <2>4, ReplaceFills
<1> HIDE DEF Done
<1>3. g = F(g)
  <2>1. ASSUME NEW n \in 0 .. N PROVE g[n] = F(g)[n]
    <3>1. CASE n = 0  BY <3>1, <1>1
    <3>2. CASE n # 0
      <4>1. n \in 1 .. N /\ n - 1 \in 0 .. N  BY <3>2
      <4>2. g[n] = G(n) /\ g[n - 1] = G(n - 1)  BY <4>1
      <4>3. F(g)[n] = Replace(g[n - 1], subs[n][1], subs[n][2])  BY <3>2
      <4> HIDE DEF g, G, F, N
      <4> QED BY <4>1, <4>2, <4>3, <1>2
    <3> QED BY <3>1, <3>2
  <2> DEFINE h == F(g)
  <2>2. g = [n \in 0 .. N |-> g[n]] /\ h = [n \in 0 .. N |-> h[n]]  OBVIOUS
  <2>3. \A n \in 0 .. N : g[n] = h[n]  BY <2>1
  <2> HIDE DEF g, h, N
  <2>4. g = h  BY <2>2, <2>3
  <2> QED BY <2>4 DEF h
<1> DEFINE f == Replaced(Filling(subtype, slots, V, {}), subs)
<1>4. f = CHOOSE h : h = F(h)  BY DEF Replaced
<1>5. f = F(f)
  <2> HIDE DEF F, f, g
  <2> QED BY <1>3, <1>4
<1>6. f[0] = Filling(subtype, slots, V, {})
  <2> HIDE DEF f
  <2> QED BY <1>5
<1>7. \A n \in 1 .. N : f[n] = Replace(f[n - 1], subs[n][1], subs[n][2])
  <2> HIDE DEF f
  <2> QED BY <1>5
<1> DEFINE T == {n \in 0 .. N : f[n] = G(n)}
<1>8. 0 \in T
  <2>1. G(0) = Filling(subtype, slots, V, {})  BY <1>1
  <2> HIDE DEF f, G
  <2> QED BY <1>6, <2>1
<1>9. ASSUME NEW n \in 0 .. N, n < N, n \in T  PROVE n + 1 \in T
  <2>1. n + 1 \in 1 .. N /\ (n + 1) - 1 = n  BY <1>9
  <2> HIDE DEF f, G
  <2> QED BY <2>1, <1>9, <1>2, <1>7
<1>10. \A n \in 0 .. N : n \in T
  <2> HIDE DEF T, N
  <2> QED BY <1>8, <1>9, Induction DEF N
<1>11. f[N] = G(N)
  <2> HIDE DEF f, G
  <2> QED BY <1>10
<1> QED BY <1>11 DEF ApplyAll, Done

\* The values of the slots, the buyer's name in the customer's.
Value(in) == [s \in SlotSet |-> IF s = "Customer" THEN in.buyerName ELSE Own(in)[s]]

\* The order in which every populator fills the slots.
Order == <<"InvoiceTypeCode", "BillingReference", "ID", "UUID", "IssueDate",
           "IssueTime", "PIH", "ICV", "CRN", "StreetName", "BuildingNumber",
           "PlotIdentification", "CitySubdivisionName", "CityName",
           "PostalZone", "CompanyID", "RegistrationName", "Customer">>

\* The elements of a concatenation.
LEMMA ConcatFacts ==
    ASSUME NEW s, NEW t, IsSeq(s), IsSeq(t)
    PROVE  /\ IsSeq(s \o t)
           /\ Len(s \o t) = Len(s) + Len(t)
           /\ \A i \in 1 .. Len(s) : (s \o t)[i] = s[i]
           /\ \A i \in Len(s) + 1 .. Len(s) + Len(t) : (s \o t)[i] = t[i - Len(s)]
<1>1. PICK S : s \in Seq(S)  BY DEF IsSeq
<1>2. PICK T : t \in Seq(T)  BY DEF IsSeq
<1> DEFINE U == S \cup T
<1>3. s \in Seq(U) /\ t \in Seq(U)  BY <1>1, <1>2, SeqMonotonic
<1> HIDE DEF U
<1>4. s \o t \in Seq(U) /\ Len(s \o t) = Len(s) + Len(t)  BY <1>3, ConcatProperties
<1>5. \A i \in 1 .. Len(s) + Len(t) :
         (s \o t)[i] = IF i <= Len(s) THEN s[i] ELSE t[i - Len(s)]
  BY <1>3, ConcatProperties
<1>6. Len(s) \in Nat /\ Len(t) \in Nat  BY SeqFacts
<1>7. IsSeq(s \o t)  BY <1>4 DEF IsSeq
<1>8. \A i \in 1 .. Len(s) : (s \o t)[i] = s[i]  BY <1>5, <1>6
<1>9. \A i \in Len(s) + 1 .. Len(s) + Len(t) : (s \o t)[i] = t[i - Len(s)]
  BY <1>5, <1>6
<1> QED BY <1>4, <1>7, <1>8, <1>9

\* The replacements of a populator are those of the order.
LEMMA SubstitutionsAre ==
    ASSUME NEW in, NEW default, NEW subs, subs = Substitutions(in, default)
    PROVE  /\ IsSeq(subs) /\ Len(subs) = 17
           /\ subs[1] = <<Token.InvoiceTypeCode, TypeCode(in, default)>>
           /\ subs[2] = <<Token.BillingReference, BillingReference(in)>>
           /\ subs[3] = <<Token.ID, in.invoiceSerialNumber>>
           /\ subs[4] = <<Token.UUID, in.egsInfo.uuid>>
           /\ subs[5] = <<Token.IssueDate, in.issueDate>>
           /\ subs[6] = <<Token.IssueTime, in.issueTime>>
           /\ subs[7] = <<Token.PIH, in.previousInvoiceHash>>
           /\ subs[8] = <<Token.ICV, in.invoiceCounterNumber>>
           /\ subs[9] = <<Token.CRN, in.egsInfo.crnNumber>>
           /\ subs[10] = <<Token.StreetName, in.egsInfo.street>>
           /\ subs[11] = <<Token.BuildingNumber, in.egsInfo.building>>
           /\ subs[12] = <<Token.PlotIdentification, in.egsInfo.plotIdentification>>
           /\ subs[13] = <<Token.CitySubdivisionName, in.egsInfo.citySubdivision>>
           /\ subs[14] = <<Token.CityName, in.egsInfo.cityName>>
           /\ subs[15] = <<Token.PostalZone, in.egsInfo.postalZone>>
           /\ subs[16] = <<Token.CompanyID, in.egsInfo.vatNumber>>
           /\ subs[17] = <<Token.RegistrationName, in.egsInfo.vatName>>
<1> DEFINE A == <<<<Token.InvoiceTypeCode, TypeCode(in, default)>>,
               <<Token.BillingReference, BillingReference(in)>>,
               <<Token.ID, in.invoiceSerialNumber>>,
               <<Token.UUID, in.egsInfo.uuid>>,
               <<Token.IssueDate, in.issueDate>>,
               <<Token.IssueTime, in.issueTime>>,
               <<Token.PIH, in.previousInvoiceHash>>,
               <<Token.ICV, in.invoiceCounterNumber>>,
               <<Token.CRN, in.egsInfo.crnNumber>>>>
           B == LocationSubstitutions(in.egsInfo)
           C == <<<<Token.CompanyID, in.egsInfo.vatNumber>>,
               <<Token.RegistrationName, in.egsInfo.vatName>>>>
<1>1. subs = (A \o B) \o C  BY DEF Substitutions
<1>2. Len(A) = 9 /\ IsSeq(A)
  <2>1. A = [i \in 1 .. 9 |-> A[i]]  OBVIOUS
  <2>2. Len(A) = 9  OBVIOUS
  <2> HIDE DEF A
  <2> QED BY <2>1, <2>2, FunctionIsSeq
<1>3. Len(B) = 6 /\ IsSeq(B)
  <2>1. B = [i \in 1 .. 6 |-> B[i]]  BY DEF LocationSubstitutions
  <2>2. Len(B) = 6  BY DEF LocationSubstitutions
  <2> HIDE DEF B
  <2> QED BY <2>1, <2>2, FunctionIsSeq
<1>4. Len(C) = 2 /\ IsSeq(C)  BY TupleIsSeq
<1> DEFINE AB == A \o B
<1>5. /\ IsSeq(AB) /\ Len(AB) = 15
      /\ \A i \in 1 .. 9 : AB[i] = A[i]
      /\ \A i \in 10 .. 15 : AB[i] = B[i - 9]
  <2> HIDE DEF A, B
  <2>1. /\ IsSeq(A \o B)
        /\ Len(A \o B) = Len(A) + Len(B)
        /\ \A i \in 1 .. Len(A) : (A \o B)[i] = A[i]
        /\ \A i \in Len(A) + 1 .. Len(A) + Len(B) : (A \o B)[i] = B[i - Len(A)]
    BY <1>2, <1>3, ConcatFacts
  <2>2. /\ IsSeq(AB)
        /\ Len(AB) = Len(A) + Len(B)
        /\ \A i \in 1 .. Len(A) : AB[i] = A[i]
        /\ \A i \in Len(A) + 1 .. Len(A) + Len(B) : AB[i] = B[i - Len(A)]
    BY <2>1
  <2> HIDE DEF AB
  <2>3. /\ Len(AB) = 9 + 6
        /\ \A i \in 1 .. 9 : AB[i] = A[i]
        /\ \A i \in 9 + 1 .. 9 + 6 : AB[i] = B[i - 9]
    BY <2>2, <1>2, <1>3, Zenon
  <2>4. 9 + 6 = 15 /\ 9 + 1 = 10  OBVIOUS
  <2> QED BY <2>2, <2>3, <2>4, Zenon
<1>6. /\ IsSeq(subs) /\ Len(subs) = 17
      /\ \A i \in 1 .. 15 : subs[i] = AB[i]
      /\ \A i \in 16 .. 17 : subs[i] = C[i - 15]
  <2> HIDE DEF A, B, C
  <2>1. subs = AB \o C  BY <1>1
  <2> HIDE DEF AB
  <2>2. /\ IsSeq(AB \o C)
        /\ Len(AB \o C) = Len(AB) + Len(C)
        /\ \A i \in 1 .. Len(AB) : (AB \o C)[i] = AB[i]
        /\ \A i \in Len(AB) + 1 .. Len(AB) + Len(C) : (AB \o C)[i] = C[i - Len(AB)]
    BY <1>4, <1>5, ConcatFacts
  <2>3. /\ IsSeq(subs)
        /\ Len(subs) = 15 + 2
        /\ \A i \in 1 .. 15 : subs[i] = AB[i]
        /\ \A i \in 15 + 1 .. 15 + 2 : subs[i] = C[i - 15]
    BY <2>1, <2>2, <1>4, <1>5, Zenon
  <2> QED BY <2>3
<1>7. /\ \A i \in 1 .. 9 : subs[i] = A[i]
      /\ \A i \in 10 .. 15 : subs[i] = B[i - 9]
      /\ \A i \in 16 .. 17 : subs[i] = C[i - 15]
  <2> HIDE DEF A, B, C, AB
  <2> QED BY <1>5, <1>6
<1>8. /\ subs[1] = A[1]
      /\ subs[2] = A[2]
      /\ subs[3] = A[3]
      /\ subs[4] = A[4]
      /\ subs[5] = A[5]
      /\ subs[6] = A[6]
      /\ subs[7] = A[7]
      /\ subs[8] = A[8]
      /\ subs[9] = A[9]
  <2> HIDE DEF A, B, C
  <2> QED BY <1>7
<1>9. /\ subs[10] = B[1]
      /\ subs[11] = B[2]
      /\ subs[12] = B[3]
      /\ subs[13] = B[4]
      /\ subs[14] = B[5]
      /\ subs[15] = B[6]
      /\ subs[16] = C[1] /\ subs[17] = C[2]
  <2> HIDE DEF A, B, C
  <2> QED BY <1>7
<1>10. /\ B[1] = <<Token.StreetName, in.egsInfo.street>>
       /\ B[2] = <<Token.BuildingNumber, in.egsInfo.building>>
       /\ B[3] = <<Token.PlotIdentification, in.egsInfo.plotIdentification>>
       /\ B[4] = <<Token.CitySubdivisionName, in.egsInfo.citySubdivision>>
       /\ B[5] = <<Token.CityName, in.egsInfo.cityName>>
       /\ B[6] = <<Token.PostalZone, in.egsInfo.postalZone>>
  BY DEF LocationSubstitutions
<1> QED BY <1>6, <1>8, <1>9, <1>10

\* The order names every slot of the populators once, the subdivision of the
\* city before the city.
LEMMA OrderFacts ==
    ASSUME NEW n \in 1 .. 18
    PROVE  /\ Order[n] \in SlotSet \ {"UBLExtensions", "QR"}
           /\ Order[n] = "Customer" <=> n = 18
           /\ \A k \in 1 .. n - 1 : Order[k] # Order[n]
           /\ Order[n] = "CityName" =>
                 \E k \in 1 .. n - 1 : Order[k] = "CitySubdivisionName"
<1> DEFINE Rank == [InvoiceTypeCode |-> 1, BillingReference |-> 2, ID |-> 3,
                    UUID |-> 4, IssueDate |-> 5, IssueTime |-> 6, PIH |-> 7,
                    ICV |-> 8, CRN |-> 9, StreetName |-> 10,
                    BuildingNumber |-> 11, PlotIdentification |-> 12,
                    CitySubdivisionName |-> 13, CityName |-> 14,
                    PostalZone |-> 15, CompanyID |-> 16,
                    RegistrationName |-> 17, Customer |-> 18]
<1>1. \A k \in 1 .. 18 : Rank[Order[k]] = k  BY DEF Order
<1>2. Order[n] \in SlotSet \ {"UBLExtensions", "QR"}  BY SlotSetIs DEF Order
<1>3. Rank["Customer"] = 18 /\ Rank["CityName"] = 14 /\ Order[13] = "CitySubdivisionName"
      /\ Order[18] = "Customer"
  BY DEF Order
<1> HIDE DEF Rank
<1>4. Order[n] = "Customer" <=> n = 18  BY <1>1, <1>3
<1>5. \A k \in 1 .. n - 1 : Order[k] # Order[n]  BY <1>1
<1>6. Order[n] = "CityName" =>
         \E k \in 1 .. n - 1 : Order[k] = "CitySubdivisionName"
  <2> SUFFICES ASSUME Order[n] = "CityName"
               PROVE  13 \in 1 .. n - 1
    BY <1>3
  <2> QED BY <1>1, <1>3
<1> QED BY <1>2, <1>4, <1>5, <1>6

\* What the replacements of a populator write.
LEMMA SubstitutionValues ==
    ASSUME NEW in, NEW default,
           default = (IF Builder[in.kind].debit THEN DebitCode ELSE InvoiceCode),
           NEW n \in 1 .. 17
    PROVE  LET subs == Substitutions(in, default)
           IN  subs[n][1] = Token[Order[n]] /\ subs[n][2] = Value(in)[Order[n]]
<1> DEFINE subs == Substitutions(in, default)
           V == Value(in)
<1>1. /\ V["InvoiceTypeCode"] = TypeCode(in, default)
      /\ V["BillingReference"] = BillingReference(in)
      /\ V["ID"] = in.invoiceSerialNumber
      /\ V["UUID"] = in.egsInfo.uuid
      /\ V["IssueDate"] = in.issueDate
      /\ V["IssueTime"] = in.issueTime
  BY SlotSetIs DEF Value, Own
<1>2. /\ V["PIH"] = in.previousInvoiceHash
      /\ V["ICV"] = in.invoiceCounterNumber
      /\ V["CRN"] = in.egsInfo.crnNumber
      /\ V["StreetName"] = in.egsInfo.street
      /\ V["BuildingNumber"] = in.egsInfo.building
      /\ V["PlotIdentification"] = in.egsInfo.plotIdentification
  BY SlotSetIs DEF Value, Own
<1>3. /\ V["CitySubdivisionName"] = in.egsInfo.citySubdivision
      /\ V["CityName"] = in.egsInfo.cityName
      /\ V["PostalZone"] = in.egsInfo.postalZone
      /\ V["CompanyID"] = in.egsInfo.vatNumber
      /\ V["RegistrationName"] = in.egsInfo.vatName
  BY SlotSetIs DEF Value, Own
<1>4. subs = Substitutions(in, default)  OBVIOUS
<1> HIDE DEF V, subs
<1>5. n \in 1 .. 6 => subs[n][1] = Token[Order[n]] /\ subs[n][2] = V[Order[n]]
  BY <1>1, <1>4, SubstitutionsAre DEF Order
<1>6. n \in 7 .. 12 => subs[n][1] = Token[Order[n]] /\ subs[n][2] = V[Order[n]]
  BY <1>2, <1>4, SubstitutionsAre DEF Order
<1>7. n \in 13 .. 17 => subs[n][1] = Token[Order[n]] /\ subs[n][2] = V[Order[n]]
  BY <1>3, <1>4, SubstitutionsAre DEF Order
<1>8. subs[n][1] = Token[Order[n]] /\ subs[n][2] = V[Order[n]]
  BY <1>5, <1>6, <1>7
<1> QED BY <1>8 DEF subs, V

\* A template nothing has been written to.
LEMMA TemplateIsEmpty ==
    ASSUME NEW subtype, NEW slots, NEW V
    PROVE  Template(subtype, slots) = Filling(subtype, slots, V, {})
BY DEF Template, Filling, SlotSet

\* Five populators make seventeen replacements.
LEMMA SellerFills ==
    ASSUME NEW in, NEW default, NEW subtype,
           default = (IF Builder[in.kind].debit THEN DebitCode ELSE InvoiceCode)
    PROVE  ApplyAll(Template(subtype, SellerSlots), Substitutions(in, default))
             = Filling(subtype, SellerSlots, Value(in), FirstOf(Order, 17))
<1> DEFINE subs == Substitutions(in, default)
           V == Value(in)
<1>1. Len(subs) = 17  BY SubstitutionsAre
<1>2. SellerSlots \subseteq SlotSet  BY DEF SellerSlots, SlotSet
<1>3. ASSUME NEW n \in 1 .. 17
      PROVE  /\ Order[n] \in SellerSlots
             /\ \A k \in 1 .. n - 1 : Order[k] # Order[n]
             /\ Order[n] = "CityName" =>
                   \E k \in 1 .. n - 1 : Order[k] = "CitySubdivisionName"
             /\ subs[n][1] = Token[Order[n]]
             /\ subs[n][2] = V[Order[n]]
  <2>1. Order[n] \in SellerSlots  BY OrderFacts DEF SellerSlots, SlotSet
  <2>2. subs[n][1] = Token[Order[n]] /\ subs[n][2] = V[Order[n]]
    BY SubstitutionValues
  <2> HIDE DEF subs, V
  <2> QED BY <2>1, <2>2, OrderFacts
<1> HIDE DEF subs, V
<1>4. WritesInOrder(subs, Order, SellerSlots, V)  BY <1>1, <1>3 DEF WritesInOrder
<1>5. Len(subs) \in Nat  BY <1>1
<1>6. ApplyAll(Filling(subtype, SellerSlots, V, {}), subs)
        = Filling(subtype, SellerSlots, V, FirstOf(Order, Len(subs)))
  BY <1>2, <1>4, <1>5, ApplyFills
<1> QED BY <1>1, <1>6, TemplateIsEmpty DEF subs, V

\* The simplified tax invoice has the buyer's name, too.
LEMMA CustomerFills ==
    ASSUME NEW in, NEW subtype, Builder[in.kind].debit = FALSE
    PROVE  ApplyAll(Template(subtype, Range(Slots)),
                    Append(Substitutions(in, InvoiceCode), <<Token.Customer, in.buyerName>>))
             = Filling(subtype, SlotSet, Value(in), FirstOf(Order, 18))
<1> DEFINE first == Substitutions(in, InvoiceCode)
           last  == <<Token.Customer, in.buyerName>>
           subs  == Append(first, last)
           V == Value(in)
<1>1. Len(first) = 17 /\ IsSeq(first)  BY SubstitutionsAre
<1>2. /\ Len(subs) = 18
      /\ \A i \in 1 .. 17 : subs[i] = first[i]
      /\ subs[18] = last
  <2>1. 17 + 1 = 18  OBVIOUS
  <2> HIDE DEF first, last
  <2>2. /\ Len(subs) = Len(first) + 1
        /\ \A i \in 1 .. Len(first) : subs[i] = first[i]
        /\ subs[Len(first) + 1] = last
    <3>1. /\ Len(Append(first, last)) = Len(first) + 1
          /\ \A i \in 1 .. Len(first) : Append(first, last)[i] = first[i]
          /\ Append(first, last)[Len(first) + 1] = last
      <4>1. IsSeq(first)  BY <1>1
      <4> QED BY <4>1, AppendFacts
    <3> QED BY <3>1, Zenon
  <2> HIDE DEF subs
  <2> QED BY <1>1, <2>1, <2>2, Zenon
<1>3. InvoiceCode = (IF Builder[in.kind].debit THEN DebitCode ELSE InvoiceCode)
  OBVIOUS
<1>4. last[1] = Token["Customer"] /\ last[2] = V["Customer"]
  BY SlotSetIs DEF Value
<1> HIDE DEF subs, V
<1>5a. ASSUME NEW n \in 1 .. 17
       PROVE  subs[n][1] = Token[Order[n]] /\ subs[n][2] = V[Order[n]]
  <2>1. first[n][1] = Token[Order[n]] /\ first[n][2] = V[Order[n]]
    BY <1>3, SubstitutionValues DEF V
  <2> HIDE DEF first
  <2> QED BY <2>1, <1>2
<1> HIDE DEF last, first
<1>5b. Order[18] = "Customer"  BY DEF Order
<1>5c. subs[18][1] = Token[Order[18]] /\ subs[18][2] = V[Order[18]]
  BY <1>2, <1>4, <1>5b
<1>5. ASSUME NEW n \in 1 .. 18
      PROVE  subs[n][1] = Token[Order[n]] /\ subs[n][2] = V[Order[n]]
  <2>1. n \in 1 .. 17 \/ n = 18  OBVIOUS
  <2> QED BY <2>1, <1>5a, <1>5c
<1>6. ASSUME NEW n \in 1 .. 18
      PROVE  /\ Order[n] \in SlotSet
             /\ \A k \in 1 .. n - 1 : Order[k] # Order[n]
             /\ Order[n] = "CityName" =>
                   \E k \in 1 .. n - 1 : Order[k] = "CitySubdivisionName"
             /\ subs[n][1] = Token[Order[n]]
             /\ subs[n][2] = V[Order[n]]
  BY <1>5, OrderFacts
<1>7. WritesInOrder(subs, Order, SlotSet, V)  BY <1>2, <1>6 DEF WritesInOrder
<1>8. Len(subs) \in Nat  BY <1>2
<1>9. ApplyAll(Filling(subtype, SlotSet, V, {}), subs)
        = Filling(subtype, SlotSet, V, FirstOf(Order, Len(subs)))
  BY <1>7, <1>8, ApplyFills
<1>10. ApplyAll(Template(subtype, Range(Slots)), subs)
         = Filling(subtype, SlotSet, V, FirstOf(Order, 18))
  BY <1>2, <1>9, TemplateIsEmpty DEF SlotSet
<1> QED BY <1>10 DEF subs, V, first, last

\* The slots of a kind's template that are filled: all but the two that the
\* signing code fills.
FilledSlots(kind) == FirstOf(Order, IF kind = "simplified-tax-invoice" THEN 18 ELSE 17)

TemplateSlots(kind) == IF kind = "simplified-tax-invoice" THEN SlotSet ELSE SellerSlots

\* populate*Template, for every kind.
LEMMA TemplateIs ==
    ASSUME NEW in, in.kind \in Phase2Kind
    PROVE  \E subtype : templateFn(in) = Filling(subtype, TemplateSlots(in.kind),
                                                 Value(in), FilledSlots(in.kind))
<1>1. CASE in.kind = "simplified-tax-invoice"
  <2>1. templateFn(in) = populateSimplifiedTaxInvoiceTemplate(in)  BY <1>1 DEF templateFn
  <2>2. Builder[in.kind].debit = FALSE
    BY <1>1 DEF Builder, Phase2Kind, SimplifiedTaxInvoiceBuilder
  <2>3. populateSimplifiedTaxInvoiceTemplate(in)
          = Filling("0211010", SlotSet, Value(in), FirstOf(Order, 18))
    BY <2>2, CustomerFills DEF populateSimplifiedTaxInvoiceTemplate,
                               SimplifiedTaxInvoiceTemplate
  <2> QED BY <1>1, <2>1, <2>3 DEF TemplateSlots, FilledSlots
<1>2. CASE in.kind = "standard-tax-invoice"
  <2>1. templateFn(in) = populateStandardTaxInvoiceTemplate(in)  BY <1>2 DEF templateFn
  <2>2. InvoiceCode = (IF Builder[in.kind].debit THEN DebitCode ELSE InvoiceCode)
    BY <1>2 DEF Builder, Phase2Kind, StandardTaxInvoiceBuilder
  <2>3. populateStandardTaxInvoiceTemplate(in)
          = Filling("0100000", SellerSlots, Value(in), FirstOf(Order, 17))
    BY <2>2, SellerFills DEF populateStandardTaxInvoiceTemplate, StandardTaxInvoiceTemplate
  <2> QED BY <1>2, <2>1, <2>3 DEF TemplateSlots, FilledSlots
<1>3. CASE in.kind = "simplified-credit-note"
  <2>1. templateFn(in) = populateSimplifiedCreditNoteTemplate(in)  BY <1>3 DEF templateFn
  <2>2. InvoiceCode = (IF Builder[in.kind].debit THEN DebitCode ELSE InvoiceCode)
    BY <1>3 DEF Builder, Phase2Kind, SimplifiedCreditNoteBuilder
  <2>3. populateSimplifiedCreditNoteTemplate(in)
          = Filling("0200000", SellerSlots, Value(in), FirstOf(Order, 17))
    BY <2>2, SellerFills DEF populateSimplifiedCreditNoteTemplate, SimplifiedCreditNoteTemplate
  <2> QED BY <1>3, <2>1, <2>3 DEF TemplateSlots, FilledSlots
<1>4. CASE in.kind = "standard-credit-note"
  <2>1. templateFn(in) = populateStandardCreditNoteTemplate(in)  BY <1>4 DEF templateFn
  <2>2. InvoiceCode = (IF Builder[in.kind].debit THEN DebitCode ELSE InvoiceCode)
    BY <1>4 DEF Builder, Phase2Kind, StandardCreditNoteBuilder
  <2>3. populateStandardCreditNoteTemplate(in)
          = Filling("0100000", SellerSlots, Value(in), FirstOf(Order, 17))
    BY <2>2, SellerFills DEF populateStandardCreditNoteTemplate, StandardCreditNoteTemplate
  <2> QED BY <1>4, <2>1, <2>3 DEF TemplateSlots, FilledSlots
<1>5. CASE in.kind = "simplified-debit-note"
  <2>1. templateFn(in) = populateSimplifiedDebitNoteTemplate(in)  BY <1>5 DEF templateFn
  <2>2. DebitCode = (IF Builder[in.kind].debit THEN DebitCode ELSE InvoiceCode)
    BY <1>5 DEF Builder, Phase2Kind, SimplifiedDebitNoteBuilder
  <2>3. populateSimplifiedDebitNoteTemplate(in)
          = Filling("0200000", SellerSlots, Value(in), FirstOf(Order, 17))
    BY <2>2, SellerFills DEF populateSimplifiedDebitNoteTemplate, SimplifiedDebitNoteTemplate
  <2> QED BY <1>5, <2>1, <2>3 DEF TemplateSlots, FilledSlots
<1>6. CASE in.kind = "standard-debit-note"
  <2>1. templateFn(in) = populateStandardDebitNoteTemplate(in)  BY <1>6 DEF templateFn
  <2>2. DebitCode = (IF Builder[in.kind].debit THEN DebitCode ELSE InvoiceCode)
    BY <1>6 DEF Builder, Phase2Kind, StandardDebitNoteBuilder
  <2>3. populateStandardDebitNoteTemplate(in)
          = Filling("0100000", SellerSlots, Value(in), FirstOf(Order, 17))
    BY <2>2, SellerFills DEF populateStandardDebitNoteTemplate, StandardDebitNoteTemplate
  <2> QED BY <1>6, <2>1, <2>3 DEF TemplateSlots, FilledSlots
<1> QED BY <1>1, <1>2, <1>3, <1>4, <1>5, <1>6 DEF Phase2Kind

\* The slots for which a builder has a value.
OwnSlots == {"ID", "UUID", "IssueDate", "IssueTime", "InvoiceTypeCode",
             "BillingReference", "ICV", "PIH", "CRN", "StreetName",
             "BuildingNumber", "PlotIdentification", "CitySubdivisionName",
             "CityName", "PostalZone", "CompanyID", "RegistrationName"}

\* These are the slots every populator fills.
LEMMA FilledSlotsAre ==
    ASSUME NEW in, in.kind \in Phase2Kind
    PROVE  /\ DOMAIN Own(in) = OwnSlots
           /\ FilledSlots(in.kind) = IF in.kind = "simplified-tax-invoice"
                                     THEN OwnSlots \cup {"Customer"} ELSE OwnSlots
<1>1. DOMAIN Own(in) = OwnSlots  BY DEF Own, OwnSlots
<1>2. FirstOf(Order, 17) = OwnSlots
  <2>1. \A k \in 1 .. 17 : Order[k] \in OwnSlots  BY DEF Order, OwnSlots
  <2>2. \A s \in OwnSlots : \E k \in 1 .. 17 : s = Order[k]
    <3>1. /\ Order[1] = "InvoiceTypeCode" /\ Order[2] = "BillingReference"
          /\ Order[3] = "ID" /\ Order[4] = "UUID" /\ Order[5] = "IssueDate"
          /\ Order[6] = "IssueTime" /\ Order[7] = "PIH" /\ Order[8] = "ICV"
          /\ Order[9] = "CRN" /\ Order[10] = "StreetName"
          /\ Order[11] = "BuildingNumber" /\ Order[12] = "PlotIdentification"
          /\ Order[13] = "CitySubdivisionName" /\ Order[14] = "CityName"
          /\ Order[15] = "PostalZone" /\ Order[16] = "CompanyID"
          /\ Order[17] = "RegistrationName"
      BY DEF Order
    <3> QED BY <3>1 DEF OwnSlots
  <2> QED BY <2>1, <2>2 DEF FirstOf
<1>3. FirstOf(Order, 18) = FirstOf(Order, 17) \cup {"Customer"}
  <2>1. Order[18] = "Customer"  BY DEF Order
  <2>2. \A k \in 1 .. 18 : k \in 1 .. 17 \/ k = 18  OBVIOUS
  <2>3. \A k \in 1 .. 17 : k \in 1 .. 18  OBVIOUS
  <2> QED BY <2>1, <2>2, <2>3 DEF FirstOf
<1> QED BY <1>1, <1>2, <1>3 DEF FilledSlots

\* A populated template: every slot holds its value, two are left to the signing
\* code, and the customer's is filled only in a simplified tax invoice.
Populated(t, in) ==
    /\ \A s \in DOMAIN Own(in) : t.text[s] = Literal(Own(in)[s])
    /\ \A s \in {"UBLExtensions", "QR"} :
           t.text[s] = [written |-> <<>>, left |-> Token[s]]
    /\ t.text["Customer"].left = <<>>
    /\ t.text["Customer"].written
         = IF in.kind = "simplified-tax-invoice" THEN <<in.buyerName>> ELSE <<>>

\* populate*Template populates the template.
LEMMA TemplatePopulated ==
    ASSUME NEW in, in.kind \in Phase2Kind
    PROVE  Populated(templateFn(in), in)
<1>1. PICK subtype : templateFn(in) = Filling(subtype, TemplateSlots(in.kind),
                                              Value(in), FilledSlots(in.kind))
  BY TemplateIs
<1> DEFINE t == templateFn(in)
<1>2. ASSUME NEW s \in SlotSet
      PROVE  t.text[s] = IF s \in FilledSlots(in.kind) THEN Literal(Value(in)[s])
                         ELSE [written |-> <<>>,
                               left |-> IF s \in TemplateSlots(in.kind) THEN Token[s] ELSE <<>>]
  BY <1>1 DEF Filling, Literal
<1> HIDE DEF t
<1>3. ASSUME NEW s \in DOMAIN Own(in) PROVE t.text[s] = Literal(Own(in)[s])
  <2>1. s \in OwnSlots /\ s \in SlotSet /\ s # "Customer" /\ s \in FilledSlots(in.kind)
    BY FilledSlotsAre, SlotSetIs DEF OwnSlots
  <2>2. Value(in)[s] = Own(in)[s]  BY <2>1 DEF Value
  <2> QED BY <2>1, <2>2, <1>2
<1>4. ASSUME NEW s \in {"UBLExtensions", "QR"}
      PROVE  t.text[s] = [written |-> <<>>, left |-> Token[s]]
  <2>1. s \in SlotSet /\ s # "Customer"  BY SlotSetIs
  <2>2. s \notin FilledSlots(in.kind)  BY FilledSlotsAre DEF OwnSlots
  <2>3. s \in TemplateSlots(in.kind)
    BY <2>1 DEF TemplateSlots, SellerSlots, SlotSet
  <2> QED BY <2>1, <2>2, <2>3, <1>2
<1>5. "Customer" \in SlotSet  BY SlotSetIs
<1>6. CASE in.kind = "simplified-tax-invoice"
  <2>1. "Customer" \in FilledSlots(in.kind)  BY <1>6, FilledSlotsAre
  <2>2. Value(in)["Customer"] = in.buyerName  BY <1>5 DEF Value
  <2>3. t.text["Customer"] = Literal(in.buyerName)  BY <1>2, <1>5, <2>1, <2>2
  <2> QED BY <1>3, <1>4, <1>6, <2>3 DEF Populated, Literal, t
<1>7. CASE in.kind # "simplified-tax-invoice"
  <2>1. "Customer" \notin FilledSlots(in.kind)  BY <1>7, FilledSlotsAre DEF OwnSlots
  <2>2. "Customer" \notin TemplateSlots(in.kind)
    BY <1>7 DEF TemplateSlots, SellerSlots
  <2>3. t.text["Customer"] = [written |-> <<>>, left |-> <<>>]
    BY <1>2, <1>5, <2>1, <2>2
  <2> QED BY <1>3, <1>4, <1>7, <2>3 DEF Populated, t
<1> QED BY <1>6, <1>7

\* No slot has been written twice.
LEMMA WrittenOnce ==
    ASSUME NEW in, in.kind \in Phase2Kind, NEW t, Populated(t, in), NEW s \in Range(Slots)
    PROVE  Len(t.text[s].written) <= 1
<1>1. s \in OwnSlots \cup {"UBLExtensions", "QR", "Customer"}
  BY SlotSetIs DEF SlotSet, OwnSlots
<1>2. Len(<<>>) = 0  OBVIOUS
<1>3. \A v : Len(<<v>>) = 1  OBVIOUS
<1>4. CASE s \in OwnSlots
  <2>1. t.text[s] = Literal(Own(in)[s])  BY <1>4, FilledSlotsAre DEF Populated
  <2> DEFINE v == Own(in)[s]
             w == t.text[s].written
  <2>2. w = <<v>>  BY <2>1 DEF Literal
  <2> HIDE DEF v, w
  <2>3. Len(w) <= 1  BY <2>2, <1>3
  <2> QED BY <2>3 DEF w
<1>5. CASE s \in {"UBLExtensions", "QR"}
  <2>1. t.text[s].written = <<>>  BY <1>5 DEF Populated
  <2> QED BY <2>1, <1>2
<1>6. CASE s = "Customer"
  <2> DEFINE v == in.buyerName
             w == t.text[s].written
  <2>1. w = <<>> \/ w = <<v>>  BY <1>6 DEF Populated
  <2> HIDE DEF v, w
  <2>2. Len(w) <= 1  BY <2>1, <1>2, <1>3
  <2> QED BY <2>2 DEF w
<1> QED BY <1>1, <1>4, <1>5, <1>6

-----------------------------------------------------------------------------
(* Documents. *)

Tags == {"UBLExtensions", "ID", "UUID", "IssueDate", "IssueTime",
         "InvoiceTypeCode", "BillingReference", "AdditionalDocumentReference",
         "Signature", "AccountingSupplierParty", "AccountingCustomerParty",
         "PaymentMeans", "TaxTotal", "LegalMonetaryTotal", "InvoiceLine"}

IsDocument(d) == d = [tag \in Tags |-> d[tag]]

Reference(id, text) == [id |-> id, text |-> text]

\* What a document has from its template.
Rendered(d, in) ==
    /\ IsDocument(d)
    /\ d.UBLExtensions = <<[written |-> <<>>, left |-> Token["UBLExtensions"]]>>
    /\ d.IssueDate = <<Literal(in.issueDate)>>
    /\ d.IssueTime = <<Literal(in.issueTime)>>
    /\ d.BillingReference = BillingReference(in)
    /\ d.AdditionalDocumentReference
         = <<Reference("ICV", Literal(in.invoiceCounterNumber)),
             Reference("PIH", Literal(in.previousInvoiceHash)),
             Reference("QR", [written |-> <<>>, left |-> Token["QR"]])>>
    /\ Supplier(d).RegistrationName = Literal(in.egsInfo.vatName)
    /\ Supplier(d).CompanyID = Literal(in.egsInfo.vatNumber)

\* The customer party, once the buyer is put in.
Customer(d, in) ==
    d.AccountingCustomerParty
      = IF in.buyerInfo # <<>> THEN <<buildBuyerInfoXml(in.buyerInfo[1])>>
        ELSE IF in.kind = "simplified-tax-invoice" THEN in.buyerName
        ELSE <<>>

\* What build has not yet put in.
NoTotals(d) ==
    d.PaymentMeans = <<>> /\ d.TaxTotal = <<>> /\ d.LegalMonetaryTotal = <<>>
    /\ d.InvoiceLine = <<>>

\* new XMLDocument(xml) and injectBuyerParty.
LEMMA RenderedDocument ==
    ASSUME NEW in, in.kind \in Phase2Kind, NEW t, Populated(t, in)
    PROVE  LET d == injectBuyerParty(Parse(t), in)
           IN  Rendered(d, in) /\ Customer(d, in) /\ NoTotals(d)
<1> DEFINE e == Parse(t)
           d == injectBuyerParty(e, in)
           X == t.text
<1>1. /\ X.IssueDate = Literal(in.issueDate)
      /\ X.IssueTime = Literal(in.issueTime)
      /\ X.BillingReference = Literal(BillingReference(in))
      /\ X.ICV = Literal(in.invoiceCounterNumber)
      /\ X.PIH = Literal(in.previousInvoiceHash)
      /\ X.CompanyID = Literal(in.egsInfo.vatNumber)
      /\ X.RegistrationName = Literal(in.egsInfo.vatName)
  BY FilledSlotsAre DEF Populated, Own, OwnSlots
<1>2. /\ X.UBLExtensions = [written |-> <<>>, left |-> Token["UBLExtensions"]]
      /\ X.QR = [written |-> <<>>, left |-> Token["QR"]]
  BY DEF Populated
<1>3. X.Customer.written
        = IF in.kind = "simplified-tax-invoice" THEN <<in.buyerName>> ELSE <<>>
  BY DEF Populated
<1>4. e.AccountingCustomerParty = IF in.kind = "simplified-tax-invoice" THEN in.buyerName
                                  ELSE <<>>
  <2>1. e.AccountingCustomerParty = IF X.Customer.written = <<>> THEN <<>>
                                    ELSE X.Customer.written[1]
    BY DEF Parse
  <2> HIDE DEF e, X
  <2>2. CASE in.kind = "simplified-tax-invoice"
    <3> DEFINE w == X.Customer.written
               name == in.buyerName
    <3>1. w = <<name>>  BY <2>2, <1>3
    <3>2. e.AccountingCustomerParty = IF w = <<>> THEN <<>> ELSE w[1]  BY <2>1
    <3> HIDE DEF w, name
    <3>3. w # <<>> /\ w[1] = name  BY <3>1
    <3> QED BY <2>2, <3>2, <3>3 DEF name
  <2>3. CASE in.kind # "simplified-tax-invoice"
    BY <2>3, <2>1, <1>3
  <2> QED BY <2>2, <2>3
<1>5. NoTotals(e)  BY DEF Parse, NoTotals
<1>6. IsDocument(e)  BY DEF Parse, IsDocument, Tags
<1>7. /\ e.UBLExtensions = <<X.UBLExtensions>>
      /\ e.IssueDate = <<X.IssueDate>> /\ e.IssueTime = <<X.IssueTime>>
      /\ e.BillingReference = X.BillingReference.written[1]
      /\ e.AdditionalDocumentReference
           = <<Reference("ICV", X.ICV), Reference("PIH", X.PIH), Reference("QR", X.QR)>>
      /\ Supplier(e).RegistrationName = X.RegistrationName
      /\ Supplier(e).CompanyID = X.CompanyID
  BY DEF Parse, Supplier, Reference
<1>8. X.BillingReference.written[1] = BillingReference(in)  BY <1>1 DEF Literal
<1>9. Rendered(e, in)
  <2> HIDE DEF e, X
  <2> QED BY <1>1, <1>2, <1>6, <1>7, <1>8 DEF Rendered
<1> HIDE DEF e
<1>10. CASE in.buyerInfo = <<>>
  <2>1. d = e  BY <1>10 DEF injectBuyerParty
  <2> HIDE DEF d
  <2>2. Customer(e, in)  BY <1>10, <1>4 DEF Customer
  <2>3. Rendered(d, in) /\ Customer(d, in) /\ NoTotals(d)
    BY <2>1, <2>2, <1>5, <1>9
  <2> QED BY <2>3 DEF d, e
<1>11. CASE in.buyerInfo # <<>>
  <2> DEFINE buyer == buildBuyerInfoXml(in.buyerInfo[1])
  <2>1. d = [e EXCEPT !["AccountingCustomerParty"] = <<buyer>>]
    BY <1>11 DEF injectBuyerParty, set
  <2> HIDE DEF d, buyer
  <2>2. /\ IsDocument(d) /\ d.AccountingCustomerParty = <<buyer>>
        /\ \A tag \in Tags \ {"AccountingCustomerParty"} : d[tag] = e[tag]
    BY <2>1, <1>6 DEF IsDocument, Tags
  <2>3. Customer(d, in)  BY <1>11, <2>2 DEF Customer, buyer
  <2>4. NoTotals(d)  BY <1>5, <2>2 DEF NoTotals, Tags
  <2>5. Rendered(d, in)  BY <1>9, <2>2 DEF Rendered, Supplier, Tags
  <2> QED BY <2>3, <2>4, <2>5 DEF d, e
<1> QED BY <1>10, <1>11

\* The first n elements of a sequence.
Upto(xs, n) == [i \in 1 .. n |-> xs[i]]

\* One more element.
LEMMA UptoGrows ==
    ASSUME NEW xs, NEW n \in Nat \ {0}
    PROVE  Append(Upto(xs, n - 1), xs[n]) = Upto(xs, n)
<1> DEFINE m == n - 1
           f == Upto(xs, m)
           g == Upto(xs, n)
           x == xs[n]
<1>1. m \in Nat /\ m + 1 = n  OBVIOUS
<1>2. f = [i \in 1 .. m |-> f[i]] /\ \A i \in 1 .. m : f[i] = xs[i]  BY DEF Upto
<1>3. g = [i \in 1 .. n |-> g[i]] /\ \A i \in 1 .. n : g[i] = xs[i]  BY DEF Upto
<1> HIDE DEF m, f, g
<1>4. IsSeq(f) /\ Len(f) = m  BY <1>1, <1>2, FunctionIsSeq
<1>5. IsSeq(g) /\ Len(g) = n  BY <1>3, FunctionIsSeq
<1> HIDE DEF x
<1>6. /\ IsSeq(Append(f, x)) /\ Len(Append(f, x)) = m + 1
      /\ \A i \in 1 .. m : Append(f, x)[i] = f[i]
      /\ Append(f, x)[m + 1] = x
  <2>1. /\ IsSeq(Append(f, x)) /\ Len(Append(f, x)) = Len(f) + 1
        /\ \A i \in 1 .. Len(f) : Append(f, x)[i] = f[i]
        /\ Append(f, x)[Len(f) + 1] = x
    <3>1. IsSeq(f)  BY <1>4
    <3> QED BY <3>1, AppendFacts
  <2> QED BY <2>1, <1>4, Zenon
<1>7. \A i \in 1 .. m + 1 : i \in 1 .. m \/ i = m + 1  BY <1>1
<1>8. \A i \in 1 .. m : i \in 1 .. n  BY <1>1
<1>9. \A i \in 1 .. m + 1 : Append(f, x)[i] = g[i]
  <2>1. x = xs[n]  BY DEF x
  <2>2. n \in 1 .. n  OBVIOUS
  <2>3. \A i \in 1 .. m : Append(f, x)[i] = g[i]  BY <1>2, <1>3, <1>6, <1>8, Zenon
  <2>4. Append(f, x)[m + 1] = g[m + 1]  BY <1>1, <1>3, <1>6, <2>1, <2>2, Zenon
  <2> QED BY <2>3, <2>4, <1>7, Zenon
<1>10. Append(f, x) = g
  <2> DEFINE a == Append(f, x)
  <2>1. IsSeq(a) /\ Len(a) = Len(g) /\ \A i \in 1 .. Len(a) : a[i] = g[i]
    BY <1>1, <1>5, <1>6, <1>9, Zenon
  <2> HIDE DEF a
  <2>2. a = g  BY <2>1, <1>5, SeqEquality
  <2> QED BY <2>2 DEF a
<1> QED BY <1>10 DEF f, g, m, x

\* A sequence is all of its first elements.
LEMMA UptoIsAll ==
    ASSUME NEW xs, IsSeq(xs)
    PROVE  Upto(xs, Len(xs)) = xs
<1> DEFINE n == Len(xs)
           g == Upto(xs, n)
<1>1. n \in Nat  BY SeqFacts
<1>2. g = [i \in 1 .. n |-> g[i]] /\ \A i \in 1 .. n : g[i] = xs[i]  BY DEF Upto
<1>3. n = Len(xs)  OBVIOUS
<1> HIDE DEF n, g
<1>4. IsSeq(g) /\ Len(g) = n  BY <1>1, <1>2, FunctionIsSeq
<1>5. g = xs  BY <1>2, <1>3, <1>4, SeqEquality
<1> QED BY <1>5 DEF g, n

\* XMLDocument.set, once for each element, at a tag that has none.
LEMMA SetAllIs ==
    ASSUME NEW d, IsDocument(d), NEW tag \in Tags, d[tag] = <<>>, NEW xs, IsSeq(xs)
    PROVE  SetAll(d, tag, xs) = [d EXCEPT ![tag] = xs]
<1> DEFINE N == Len(xs)
           G(n) == [d EXCEPT ![tag] = Upto(xs, n)]
           g == [n \in 0 .. N |-> G(n)]
           Step(e, n) == set(e, tag, FALSE, xs[n])
           F(h) == [n \in 0 .. N |-> IF n = 0 THEN d ELSE Step(h[n - 1], n)]
<1>0. N \in Nat  BY SeqFacts
<1>1. G(0) = d
  <2>1. Upto(xs, 0) = <<>>
    <3> DEFINE f == Upto(xs, 0)
    <3>1. f = [i \in 1 .. 0 |-> f[i]]  BY DEF Upto
    <3> HIDE DEF f
    <3>2. IsSeq(f) /\ Len(f) = 0  BY <3>1, FunctionIsSeq
    <3>3. IsSeq(<<>>) /\ Len(<<>>) = 0  BY TupleIsSeq
    <3>4. f = <<>>  BY <3>2, <3>3, SeqEquality
    <3> QED BY <3>4 DEF f
  <2>2. [d EXCEPT ![tag] = <<>>] = d  BY DEF IsDocument
  <2> QED BY <2>1, <2>2
<1>2. ASSUME NEW n \in 1 .. N  PROVE Step(G(n - 1), n) = G(n)
  <2>1. G(n - 1)[tag] = Upto(xs, n - 1)  BY DEF IsDocument
  <2>2. Append(Upto(xs, n - 1), xs[n]) = Upto(xs, n)
    <3>1. n \in Nat \ {0}  BY <1>0
    <3> HIDE DEF N
    <3> QED BY <3>1, UptoGrows
  <2>3. Step(G(n - 1), n) = [G(n - 1) EXCEPT ![tag] = Append(@, xs[n])]  BY DEF set
  <2>4. [G(n - 1) EXCEPT ![tag] = Upto(xs, n)] = G(n)  OBVIOUS
  <2> HIDE DEF G, Step
  <2> QED BY <2>1, <2>2, <2>3, <2>4
<1> HIDE DEF G, Step
<1>3. g = F(g)
  <2>1. ASSUME NEW n \in 0 .. N PROVE g[n] = F(g)[n]
    <3>1. CASE n = 0  BY <3>1, <1>1
    <3>2. CASE n # 0
      <4>1. n \in 1 .. N /\ n - 1 \in 0 .. N  BY <1>0, <3>2
      <4>2. g[n] = G(n) /\ g[n - 1] = G(n - 1)  BY <4>1
      <4>3. F(g)[n] = Step(g[n - 1], n)  BY <3>2
      <4> HIDE DEF g, F, N
      <4> QED BY <4>1, <4>2, <4>3, <1>2
    <3> QED BY <3>1, <3>2
  <2> DEFINE h == F(g)
  <2>2. g = [n \in 0 .. N |-> g[n]] /\ h = [n \in 0 .. N |-> h[n]]  OBVIOUS
  <2>3. \A n \in 0 .. N : g[n] = h[n]  BY <2>1
  <2> HIDE DEF g, h, N
  <2>4. g = h  BY <2>2, <2>3
  <2> QED BY <2>4 DEF h
<1> DEFINE f == CHOOSE h : h = F(h)
<1>4. SetAll(d, tag, xs) = f[N]  BY DEF SetAll, Step
<1>5. f = F(f)
  <2> HIDE DEF F, g
  <2> QED BY <1>3
<1>6. f[0] = d
  <2> HIDE DEF f
  <2> QED BY <1>0, <1>5
<1>7. \A n \in 1 .. N : f[n] = Step(f[n - 1], n)
  <2> HIDE DEF f
  <2> QED BY <1>0, <1>5
<1> DEFINE T == {n \in 0 .. N : f[n] = G(n)}
<1> HIDE DEF f
<1>8. 0 \in T  BY <1>0, <1>1, <1>6
<1>9. ASSUME NEW n \in 0 .. N, n < N, n \in T  PROVE n + 1 \in T
  <2>1. n + 1 \in 1 .. N /\ n + 1 \in 0 .. N /\ (n + 1) - 1 = n  BY <1>0, <1>9
  <2> QED BY <2>1, <1>9, <1>2, <1>7
<1>10. \A n \in 0 .. N : n \in T
  <2> HIDE DEF T, N
  <2> QED BY <1>0, <1>8, <1>9, Induction
<1>11. f[N] = G(N)  BY <1>0, <1>10
<1> QED BY <1>4, <1>11, UptoIsAll DEF G

\* The condition of XMLDocument.delete spares the first two of three elements.
LEMMA SpareFirstTwo ==
    ASSUME NEW a, NEW b, NEW c, NEW id, a.id # id, b.id # id, c.id = id
    PROVE  Spare(<<a, b, c>>, id) = <<a, b>>
<1> DEFINE xs == <<a, b, c>>
           F(h) == [n \in 0 .. Len(xs) |->
                      IF n = 0 THEN <<>>
                      ELSE IF xs[n].id = id THEN h[n - 1] ELSE Append(h[n - 1], xs[n])]
           H(h) == [n \in 0 .. 3 |->
                      IF n = 0 THEN <<>>
                      ELSE IF n = 1 THEN Append(h[0], a)
                      ELSE IF n = 2 THEN Append(h[1], b)
                      ELSE h[2]]
           g == [n \in 0 .. 3 |-> IF n = 0 THEN <<>> ELSE IF n = 1 THEN <<a>> ELSE <<a, b>>]
           f == CHOOSE h : h = F(h)
<1>1. Spare(xs, id) = f[Len(xs)]  BY DEF Spare
<1>2. Len(xs) = 3 /\ xs[1] = a /\ xs[2] = b /\ xs[3] = c  OBVIOUS
<1>3. \A h : F(h) = H(h)
  <2> HIDE DEF xs
  <2> QED BY <1>2
<1>4. Append(<<>>, a) = <<a>>  BY AppendToEmpty
<1>5. Append(<<a>>, b) = <<a, b>>
  <2> DEFINE t == <<a, b>>
  <2>1. IsSeq(<<a>>) /\ Len(<<a>>) = 1 /\ <<a>>[1] = a  BY TupleIsSeq
  <2>2. IsSeq(t) /\ Len(t) = 2 /\ t[1] = a /\ t[2] = b  BY TupleIsSeq
  <2> DEFINE s == <<a>>
  <2> HIDE DEF s, t
  <2>3. /\ IsSeq(Append(s, b)) /\ Len(Append(s, b)) = Len(s) + 1
        /\ \A i \in 1 .. Len(s) : Append(s, b)[i] = s[i]
        /\ Append(s, b)[Len(s) + 1] = b
    <3>1. IsSeq(s)  BY <2>1 DEF s
    <3> QED BY <3>1, AppendFacts
  <2> DEFINE r == Append(s, b)
  <2> HIDE DEF r
  <2>4. IsSeq(r) /\ Len(r) = 2 /\ r[1] = a /\ r[2] = b
    <3>1. 1 + 1 = 2 /\ 1 \in 1 .. 1  OBVIOUS
    <3>2. Len(s) = 1 /\ s[1] = a  BY <2>1 DEF s
    <3> QED BY <2>3, <3>1, <3>2, Zenon DEF r
  <2>5. \A i \in 1 .. 2 : i = 1 \/ i = 2  OBVIOUS
  <2>6. r = t  BY <2>2, <2>4, <2>5, SeqEquality
  <2> QED BY <2>6 DEF r, s, t
<1>6. g = H(g)  BY <1>4, <1>5
<1>7. g = F(g)
  <2> HIDE DEF g, F, H
  <2> QED BY <1>3, <1>6
<1>8. f = F(f)
  <2> HIDE DEF g, F
  <2> QED BY <1>7
<1>9. f = H(f)
  <2> HIDE DEF f, F, H
  <2> QED BY <1>3, <1>8
<1>10. f[0] = <<>> /\ f[1] = Append(f[0], a) /\ f[2] = Append(f[1], b) /\ f[3] = f[2]
  <2> HIDE DEF f
  <2> QED BY <1>9
<1> HIDE DEF f
<1> QED BY <1>1, <1>2, <1>4, <1>5, <1>10

\* The QR reference is the third.
LEMMA ReferenceIsThird ==
    ASSUME NEW d, NEW a, NEW b, NEW c, NEW id,
           d.AdditionalDocumentReference = <<a, b, c>>,
           a.id # id, b.id # id, c.id = id
    PROVE  AdditionalReference(d, id) = c.text
<1> DEFINE refs == d.AdditionalDocumentReference
           I == {i \in 1 .. Len(refs) : refs[i].id = id}
<1>1. Len(refs) = 3 /\ refs[1] = a /\ refs[2] = b /\ refs[3] = c  OBVIOUS
<1>2. I = {3}
  <2> HIDE DEF refs
  <2>1. \A i \in 1 .. 3 : i = 1 \/ i = 2 \/ i = 3  OBVIOUS
  <2> QED BY <1>1, <2>1
<1>3. SelectInSeq(refs, LAMBDA r : r.id = id) = Min(I)
  <2> HIDE DEF refs
  <2> QED BY <1>2 DEF SelectInSeq
<1>4. Min(I) = 3
  <2> HIDE DEF I
  <2>1. I \subseteq Nat /\ I # {}  BY <1>2
  <2>2. Min(I) \in I  BY <2>1, MinIsIn
  <2> QED BY <1>2, <2>2
<1>5. AdditionalReference(d, id) = refs[SelectInSeq(refs, LAMBDA r : r.id = id)].text
  BY DEF AdditionalReference
<1> HIDE DEF refs
<1> QED BY <1>1, <1>3, <1>4, <1>5

\* A document as it is once the extension and the QR code are put in.
Signed(s, d, extension, qr) ==
    /\ IsDocument(s)
    /\ s.UBLExtensions = <<Literal(extension)>>
    /\ s.AdditionalDocumentReference
         = <<d.AdditionalDocumentReference[1], d.AdditionalDocumentReference[2],
             Reference("QR", Literal(qr))>>
    /\ \A tag \in Tags \ {"UBLExtensions", "AdditionalDocumentReference"} : s[tag] = d[tag]

\* generateSignedXMLString fills two places and changes nothing else.
LEMMA SignedIs ==
    ASSUME NEW d, NEW in, Rendered(d, in), NEW extension, NEW qr
    PROVE  Signed([d EXCEPT
             !.UBLExtensions[1] = Fill(@, extension),
             !.AdditionalDocumentReference = FillQr(@, qr)], d, extension, qr)
<1> DEFINE x == [written |-> <<>>, left |-> Token["UBLExtensions"]]
           y == [written |-> <<>>, left |-> Token["QR"]]
           a == Reference("ICV", Literal(in.invoiceCounterNumber))
           b == Reference("PIH", Literal(in.previousInvoiceHash))
           c == Reference("QR", y)
           X == d.UBLExtensions
           R == d.AdditionalDocumentReference
<1>1. X = <<x>> /\ R = <<a, b, c>> /\ IsDocument(d)  BY DEF Rendered
<1>2. Fill(x, extension) = Literal(extension) /\ Fill(y, qr) = Literal(qr)
  BY AppendToEmpty DEF Fill, Literal
<1>3. a.id # "QR" /\ b.id # "QR" /\ c.id = "QR" /\ c.text = y  BY DEF Reference
<1>4. [c EXCEPT !.text = Fill(@, qr)] = Reference("QR", Literal(qr))
  BY <1>2 DEF Reference
<1> HIDE DEF a, b, c, x, y
<1> DEFINE X2 == [X EXCEPT ![1] = Fill(@, extension)]
           R2 == FillQr(R, qr)
           s == [d EXCEPT !.UBLExtensions[1] = Fill(@, extension),
                          !.AdditionalDocumentReference = FillQr(@, qr)]
<1>5. X2 = <<Literal(extension)>>
  <2> HIDE DEF X
  <2>1. X2 = <<Fill(x, extension)>>  BY <1>1
  <2> QED BY <2>1, <1>2
<1>6. R2 = <<a, b, Reference("QR", Literal(qr))>>
  <2> DEFINE z == Reference("QR", Literal(qr))
  <2>1. DOMAIN R = 1 .. 3 /\ R[1] = a /\ R[2] = b /\ R[3] = c
    <3> HIDE DEF R
    <3> QED BY <1>1
  <2> HIDE DEF R
  <2>2. R2[1] = a /\ R2[2] = b /\ R2[3] = z /\ DOMAIN R2 = 1 .. 3
    BY <2>1, <1>3, <1>4 DEF FillQr
  <2>3. R2 = [i \in 1 .. 3 |-> R2[i]]  BY <2>1 DEF FillQr
  <2> HIDE DEF R2, z
  <2>4. R2 = <<a, b, z>>  BY <2>2, <2>3
  <2> QED BY <2>4 DEF z
<1>7. s = [d EXCEPT !.UBLExtensions = X2, !.AdditionalDocumentReference = R2]
  <2> DEFINE d1 == [d EXCEPT !.UBLExtensions[1] = Fill(@, extension)]
  <2>1. d1 = [d EXCEPT !.UBLExtensions = X2]  OBVIOUS
  <2>2. s = [d1 EXCEPT !.AdditionalDocumentReference = FillQr(@, qr)]  OBVIOUS
  <2> HIDE DEF d1, s
  <2>3. d1.AdditionalDocumentReference = R  BY <2>1, <1>1 DEF IsDocument, Tags
  <2>4. s = [d1 EXCEPT !.AdditionalDocumentReference = R2]  BY <2>2, <2>3
  <2> QED BY <2>1, <2>4
<1> HIDE DEF X2, R2, s, X, R
<1>8. /\ IsDocument(s) /\ s.UBLExtensions = X2 /\ s.AdditionalDocumentReference = R2
      /\ \A tag \in Tags \ {"UBLExtensions", "AdditionalDocumentReference"} : s[tag] = d[tag]
  BY <1>1, <1>7 DEF IsDocument, Tags
<1>9. R[1] = a /\ R[2] = b  BY <1>1
<1>10. Signed(s, d, extension, qr)  BY <1>5, <1>6, <1>8, <1>9 DEF Signed, R
<1> QED BY <1>10 DEF s

-----------------------------------------------------------------------------
(* QR codes. *)

\* The segments of a QR code number themselves and have their lengths.
LEMMA SegmentsAre ==
    ASSUME NEW values, NEW qr, qr = createTLV(values), qr # <<>>
    PROVE  /\ DOMAIN qr = DOMAIN values
           /\ \A i \in DOMAIN values :
                 qr[i].tag = i /\ qr[i].length = qr[i].of.bytes /\ qr[i].of = values[i]
BY DEF createTLV

\* The five values every QR code has.
LEMMA SellerTagsAre ==
    ASSUME NEW d
    PROVE  /\ IsSeq(SellerTags(d)) /\ Len(SellerTags(d)) = 5
           /\ SellerTags(d)[1] = Text(Supplier(d).RegistrationName)
           /\ SellerTags(d)[2].value = Text(Supplier(d).CompanyID)
           /\ SellerTags(d)[3].value = readIssueTimestamp(d)
           /\ SellerTags(d)[4].value = d.LegalMonetaryTotal[1].TaxInclusiveAmount
           /\ SellerTags(d)[5].value = d.TaxTotal[1].amount
<1> DEFINE a == Text(Supplier(d).RegistrationName)
           b == Text(Supplier(d).CompanyID)
           c == readIssueTimestamp(d)
           e == d.LegalMonetaryTotal[1].TaxInclusiveAmount
           f == d.TaxTotal[1].amount
           t == SellerTags(d)
<1>1. t = <<a, Short(b), Short(c), Short(e), Short(f)>>
  BY DEF SellerTags, get
<1> HIDE DEF a, b, c, e, f, t
<1>2. t = [i \in 1 .. 5 |-> t[i]]  BY <1>1
<1>3. IsSeq(t) /\ Len(t) = 5  BY <1>2, FunctionIsSeq
<1>4. t[1] = a /\ t[2] = Short(b) /\ t[3] = Short(c) /\ t[4] = Short(e) /\ t[5] = Short(f)
  BY <1>1
<1>5. \A v : Short(v).value = v  BY DEF Short
<1>6. t[2].value = b /\ t[3].value = c /\ t[4].value = e /\ t[5].value = f
  BY <1>4, <1>5
<1> QED BY <1>3, <1>4, <1>6 DEF a, b, c, e, f, t

\* generatePhase1QR: the values of the five segments.
LEMMA Phase1QrIs ==
    ASSUME NEW d, NEW qr, qr = generatePhase1QR(d), qr # <<>>
    PROVE  /\ \A i \in DOMAIN qr : qr[i].tag = i /\ qr[i].length = qr[i].of.bytes
           /\ qr[1].of = Text(Supplier(d).RegistrationName)
           /\ qr[2].of.value = Text(Supplier(d).CompanyID)
           /\ qr[3].of.value = readIssueTimestamp(d)
           /\ qr[4].of.value = d.LegalMonetaryTotal[1].TaxInclusiveAmount
           /\ qr[5].of.value = d.TaxTotal[1].amount
<1> DEFINE v == SellerTags(d)
<1>1. qr = createTLV(v)  BY DEF generatePhase1QR
<1>2. IsSeq(v) /\ Len(v) = 5  BY SellerTagsAre
<1> HIDE DEF v
<1>3. DOMAIN v = 1 .. 5  BY <1>2, SeqFacts
<1>4. /\ \A i \in DOMAIN qr : qr[i].tag = i /\ qr[i].length = qr[i].of.bytes
      /\ \A i \in 1 .. 5 : qr[i].of = v[i]
  BY <1>1, <1>3, SegmentsAre
<1>5. qr[1].of = v[1] /\ qr[2].of = v[2] /\ qr[3].of = v[3] /\ qr[4].of = v[4] /\ qr[5].of = v[5]
  BY <1>4
<1> QED BY <1>4, <1>5, SellerTagsAre DEF v

\* generatePhase2QR: the same and the signature's.
LEMMA Phase2QrIs ==
    ASSUME NEW d, NEW hash, NEW signature, NEW info, NEW qr,
           qr = generatePhase2QR(d, hash, signature, info), qr # <<>>
    PROVE  /\ \A i \in DOMAIN qr : qr[i].tag = i /\ qr[i].length = qr[i].of.bytes
           /\ qr[1].of = Text(Supplier(d).RegistrationName)
           /\ qr[2].of.value = Text(Supplier(d).CompanyID)
           /\ qr[3].of.value = readIssueTimestamp(d)
           /\ qr[4].of.value = d.LegalMonetaryTotal[1].TaxInclusiveAmount
           /\ qr[5].of.value = d.TaxTotal[1].amount
           /\ qr[6].of.value = hash
           /\ qr[7].of.value = signature
           /\ qr[8].of.value = info.public_key
<1> DEFINE s == SellerTags(d)
           t == <<Short(hash), Short(signature), Short(info.public_key), Short(info.signature)>>
           v == s \o t
<1>1. qr = createTLV(v)  BY DEF generatePhase2QR
<1>2. IsSeq(s) /\ Len(s) = 5  BY SellerTagsAre
<1>3. IsSeq(t) /\ Len(t) = 4  BY TupleIsSeq
<1>4. t[1] = Short(hash) /\ t[2] = Short(signature) /\ t[3] = Short(info.public_key)
  OBVIOUS
<1>5. \A x : Short(x).value = x  BY DEF Short
<1>6. t[1].value = hash /\ t[2].value = signature /\ t[3].value = info.public_key
  <2> HIDE DEF t
  <2> QED BY <1>4, <1>5
<1> HIDE DEF s, t
<1>7. /\ IsSeq(v) /\ Len(v) = 5 + 4
      /\ \A i \in 1 .. 5 : v[i] = s[i]
      /\ \A i \in 5 + 1 .. 5 + 4 : v[i] = t[i - 5]
  <2>1. /\ IsSeq(s \o t)
        /\ Len(s \o t) = Len(s) + Len(t)
        /\ \A i \in 1 .. Len(s) : (s \o t)[i] = s[i]
        /\ \A i \in Len(s) + 1 .. Len(s) + Len(t) : (s \o t)[i] = t[i - Len(s)]
    BY <1>2, <1>3, ConcatFacts
  <2> QED BY <2>1, <1>2, <1>3, Zenon
<1> HIDE DEF v
<1>8. /\ v[1] = s[1] /\ v[2] = s[2] /\ v[3] = s[3] /\ v[4] = s[4] /\ v[5] = s[5]
      /\ v[6] = t[1] /\ v[7] = t[2] /\ v[8] = t[3]
      /\ 1 .. 9 = 1 .. Len(v)
  BY <1>7
<1>9. DOMAIN v = 1 .. 9  BY <1>7, <1>8, SeqFacts
<1>10. /\ \A i \in DOMAIN qr : qr[i].tag = i /\ qr[i].length = qr[i].of.bytes
       /\ \A i \in 1 .. 9 : qr[i].of = v[i]
  BY <1>1, <1>9, SegmentsAre
<1>11. /\ qr[1].of = s[1] /\ qr[2].of = s[2] /\ qr[3].of = s[3] /\ qr[4].of = s[4]
       /\ qr[5].of = s[5] /\ qr[6].of = t[1] /\ qr[7].of = t[2] /\ qr[8].of = t[3]
  BY <1>8, <1>10
<1> QED BY <1>6, <1>10, <1>11, SellerTagsAre DEF s

-----------------------------------------------------------------------------
(* Finished documents.  What the invariants say, document by document. *)

TaxTotals(b, ls) ==
    IF b.debit THEN buildDebitNoteTaxTotal(ls) ELSE buildInvoiceTaxTotal(ls)

MonetaryTotals(b, ls) ==
    LET subtotal == Total([i \in DOMAIN ls |-> ls[i].subtotal])
        taxes    == Total([i \in DOMAIN ls |-> ls[i].total])
    IN  IF b.debit THEN buildDebitNoteLegalMonetaryTotal(subtotal, taxes)
        ELSE buildInvoiceLegalMonetaryTotal(subtotal, taxes)

\* A document that is ready to be signed.
Complete(d, in, ls) ==
    LET b == Builder[in.kind]
    IN  /\ Rendered(d, in) /\ Customer(d, in)
        /\ d.PaymentMeans = PaymentMeans(in)
        /\ d.TaxTotal \in TaxTotals(b, ls)
        /\ \E m \in MonetaryTotals(b, ls) : d.LegalMonetaryTotal = <<m>>
        /\ d.InvoiceLine = [i \in DOMAIN ls |-> assembleLineItemXml(ls[i], b)]

QrOK(b) ==
    LET V(i) == b.qr[i].of.value
        d    == b.doc
    IN  /\ \A i \in DOMAIN b.qr :
               b.qr[i].tag = i /\ b.qr[i].length = b.qr[i].of.bytes
        /\ b.qr[1].of = Text(Supplier(d).RegistrationName)
        /\ V(2) = Text(Supplier(d).CompanyID)
        /\ V(4) = d.LegalMonetaryTotal[1].PayableAmount
        /\ V(5) = Last(d.TaxTotal).amount
        /\ b.input.kind \in Phase2Kind =>
               /\ Text(AdditionalReference(d, "QR")) = b.qr
               /\ V(6) = Extension(d).DigestValue
               /\ V(7) = Extension(d).SignatureValue
               /\ V(8) = Extension(d).X509Certificate

TimesOK(b) ==
    LET issued == [date |-> Text(b.doc.IssueDate[1]),
                   clock |-> Text(b.doc.IssueTime[1]).clock, shift |-> 0]
    IN  /\ b.qr[3].of.value = issued
        /\ b.input.kind \in Phase2Kind => Extension(b.doc).SignedProperties.SigningTime = issued

SignatureOK(b) ==
    LET x == Extension(b.doc)
    IN  /\ x.DigestValue = <<Transforms(b.doc)>>
        /\ x.DigestValue = b.invoiceHash
        /\ x.SignatureValue = [over |-> x.DigestValue, key |-> x.X509Certificate]
        /\ x.PropertiesDigestValue = <<x.SignedProperties>>
        /\ x.SignedProperties.CertDigest = getCertificateHash(x.X509Certificate)

ReferencesOK(b) ==
    b.invoiceHash[1].AdditionalDocumentReference
      = <<Reference("ICV", Literal(b.input.invoiceCounterNumber)),
          Reference("PIH", Literal(b.input.previousInvoiceHash))>>

PartsOK(b) ==
    /\ Len(b.doc.LegalMonetaryTotal) = 1
    /\ Len(b.doc.TaxTotal) = IF Builder[b.input.kind].debit THEN 1 ELSE 2
    /\ Len(b.doc.InvoiceLine) = Len(b.input.lineItems)
    /\ Len(b.doc.AccountingCustomerParty) <= 1
    /\ schemaAccepts(b.input) =>
          /\ b.input.kind \in Note =>
                 Len(b.doc.BillingReference) = 1 /\ Len(b.doc.PaymentMeans) = 1
          /\ \/ b.input.kind \in {"simplified-credit-note", "simplified-debit-note"}
             \/ Len(b.doc.AccountingCustomerParty) = 1

\* The amount of the last TaxTotal is that of the first.
LEMMA TaxTotalIs ==
    ASSUME NEW b, b.debit \in BOOLEAN, NEW ls, NEW tt \in TaxTotals(b, ls)
    PROVE  /\ IsSeq(tt)
           /\ Len(tt) = IF b.debit THEN 1 ELSE 2
           /\ tt[Len(tt)].amount = tt[1].amount
<1>1. CASE b.debit
  <2>1. tt \in buildDebitNoteTaxTotal(ls)  BY <1>1 DEF TaxTotals
  <2>2. PICK x : tt = <<x>>
    <3>1. PICK tss, a : tt = <<[amount |-> a, subtotals |-> tss]>>
      BY <2>1 DEF buildDebitNoteTaxTotal
    <3> QED BY <3>1
  <2>3. IsSeq(tt) /\ Len(tt) = 1  BY <2>2, TupleIsSeq
  <2> QED BY <1>1, <2>3
<1>2. CASE ~b.debit
  <2>1. tt \in buildInvoiceTaxTotal(ls)  BY <1>2 DEF TaxTotals
  <2>2. PICK tss : tt = <<[amount |-> Total(LineTotals(tss)), subtotals |-> tss],
                          [amount |-> Total(LineTotals(tss)), subtotals |-> <<>>]>>
    BY <2>1 DEF buildInvoiceTaxTotal
  <2> DEFINE a == Total(LineTotals(tss))
             x == [amount |-> a, subtotals |-> tss]
             y == [amount |-> a, subtotals |-> <<>>]
  <2>3. x.amount = a /\ y.amount = a  OBVIOUS
  <2>4. tt = <<x, y>>  BY <2>2
  <2> HIDE DEF x, y
  <2>5. IsSeq(tt) /\ Len(tt) = 2 /\ tt[1] = x /\ tt[2] = y  BY <2>4, TupleIsSeq
  <2> QED BY <1>2, <2>3, <2>5
<1> QED BY <1>1, <1>2

\* What is paid is the amount with taxes.
LEMMA PayableIs ==
    ASSUME NEW b, b.debit \in BOOLEAN, NEW ls, NEW m \in MonetaryTotals(b, ls)
    PROVE  m.PayableAmount = m.TaxInclusiveAmount
<1>1. PICK s, t : m = MonetaryTotal(s, t)
  BY DEF MonetaryTotals, buildDebitNoteLegalMonetaryTotal, buildInvoiceLegalMonetaryTotal
<1> QED BY <1>1 DEF MonetaryTotal

\* The builders' flags.
LEMMA BuilderIs ==
    ASSUME NEW k \in Phase2Kind
    PROVE  /\ Builder[k].debit \in BOOLEAN /\ Builder[k].simplified \in BOOLEAN
           /\ Builder[k].withRoundingAmount \in BOOLEAN
<1> USE DEF Builder, Phase2Kind
<1>1. CASE k = "simplified-tax-invoice"  BY <1>1 DEF SimplifiedTaxInvoiceBuilder
<1>2. CASE k = "standard-tax-invoice"  BY <1>2 DEF StandardTaxInvoiceBuilder
<1>3. CASE k = "simplified-credit-note"  BY <1>3 DEF SimplifiedCreditNoteBuilder
<1>4. CASE k = "standard-credit-note"  BY <1>4 DEF StandardCreditNoteBuilder
<1>5. CASE k = "simplified-debit-note"  BY <1>5 DEF SimplifiedDebitNoteBuilder
<1>6. CASE k = "standard-debit-note"  BY <1>6 DEF StandardDebitNoteBuilder
<1> QED BY <1>1, <1>2, <1>3, <1>4, <1>5, <1>6

\* The hashed part of a document whose references are a, b and the QR code.
Pure(d, a, b) ==
    [tag \in Tags |-> IF tag \in {"UBLExtensions", "Signature"} THEN <<>>
                      ELSE IF tag = "AdditionalDocumentReference" THEN <<a, b>>
                      ELSE d[tag]]

\* getPureInvoiceString and the transforms of the signature keep the same part.
LEMMA PureIs ==
    ASSUME NEW d, IsDocument(d), NEW a, NEW b, NEW c,
           d.AdditionalDocumentReference = <<a, b, c>>,
           a.id # "QR", b.id # "QR", c.id = "QR"
    PROVE  getPureInvoiceString(d) = Pure(d, a, b) /\ Transforms(d) = Pure(d, a, b)
<1>1. Spare(<<a, b, c>>, "QR") = <<a, b>>  BY SpareFirstTwo
<1> DEFINE e == delete(delete(d, "UBLExtensions"), "Signature")
<1>2. /\ IsDocument(e) /\ e.UBLExtensions = <<>> /\ e.Signature = <<>>
      /\ \A tag \in Tags \ {"UBLExtensions", "Signature"} : e[tag] = d[tag]
  BY DEF delete, IsDocument, Tags
<1>3. getPureInvoiceString(d)
        = [e EXCEPT !["AdditionalDocumentReference"] = Spare(@, "QR")]
  BY DEF getPureInvoiceString, deleteWhere
<1> HIDE DEF e
<1>4. e.AdditionalDocumentReference = <<a, b, c>>  BY <1>2 DEF Tags
<1>5. getPureInvoiceString(d) = [e EXCEPT !["AdditionalDocumentReference"] = <<a, b>>]
  BY <1>1, <1>3, <1>4
<1> DEFINE p == [e EXCEPT !["AdditionalDocumentReference"] = <<a, b>>]
           r == <<a, b>>
           q == Pure(d, a, b)
<1>6. /\ q = [tag \in Tags |-> q[tag]]
      /\ q.UBLExtensions = <<>> /\ q.Signature = <<>>
      /\ q.AdditionalDocumentReference = r
      /\ \A tag \in Tags \ {"UBLExtensions", "Signature", "AdditionalDocumentReference"} :
            q[tag] = d[tag]
  BY DEF Pure, Tags
<1> HIDE DEF r, q
<1>7. p = q
  <2>1. /\ p = [tag \in Tags |-> p[tag]]
        /\ p.AdditionalDocumentReference = r
        /\ p.UBLExtensions = <<>> /\ p.Signature = <<>>
        /\ \A tag \in Tags \ {"UBLExtensions", "Signature", "AdditionalDocumentReference"} :
              p[tag] = d[tag]
    BY <1>2 DEF IsDocument, Tags, r
  <2> HIDE DEF p
  <2>2. \A tag \in Tags : p[tag] = q[tag]  BY <1>6, <2>1
  <2> QED BY <1>6, <2>1, <2>2
<1> DEFINE t == Transforms(d)
<1>8. t = q
  <2>0. d.AdditionalDocumentReference = <<a, b, c>>  OBVIOUS
  <2>1. t = [d EXCEPT !.UBLExtensions = <<>>, !.Signature = <<>>,
                      !.AdditionalDocumentReference = r]
    <3>1. Spare(d.AdditionalDocumentReference, "QR") = r  BY <1>1, <2>0 DEF r
    <3> QED BY <3>1 DEF Transforms
  <2> HIDE DEF t
  <2>2. /\ t = [tag \in Tags |-> t[tag]]
        /\ t.AdditionalDocumentReference = r
        /\ t.UBLExtensions = <<>> /\ t.Signature = <<>>
        /\ \A tag \in Tags \ {"UBLExtensions", "Signature", "AdditionalDocumentReference"} :
              t[tag] = d[tag]
    BY <2>1 DEF IsDocument, Tags
  <2>3. \A tag \in Tags : t[tag] = q[tag]  BY <1>6, <2>2
  <2> QED BY <1>6, <2>2, <2>3
<1> QED BY <1>5, <1>7, <1>8 DEF q

\* The signature is put where the transforms take it out.
LEMMA SignedPure ==
    ASSUME NEW d, NEW in, Rendered(d, in), NEW s, NEW extension, NEW qr,
           Signed(s, d, extension, qr)
    PROVE  /\ Transforms(s) = getPureInvoiceString(d)
           /\ getPureInvoiceString(d).AdditionalDocumentReference
                = <<Reference("ICV", Literal(in.invoiceCounterNumber)),
                    Reference("PIH", Literal(in.previousInvoiceHash))>>
           /\ Text(AdditionalReference(s, "QR")) = qr
<1> DEFINE a == Reference("ICV", Literal(in.invoiceCounterNumber))
           b == Reference("PIH", Literal(in.previousInvoiceHash))
           c == Reference("QR", [written |-> <<>>, left |-> Token["QR"]])
           z == Reference("QR", Literal(qr))
<1>1. a.id # "QR" /\ b.id # "QR" /\ c.id = "QR" /\ z.id = "QR" /\ z.text = Literal(qr)
  BY DEF Reference
<1>2. IsDocument(d) /\ d.AdditionalDocumentReference = <<a, b, c>>  BY DEF Rendered
<1>3. Literal(qr).written[1] = qr  BY DEF Literal
<1> HIDE DEF a, b, c, z
<1>4. IsDocument(s) /\ s.AdditionalDocumentReference = <<a, b, z>>
  BY <1>2 DEF Signed, z
<1>5. getPureInvoiceString(d) = Pure(d, a, b)  BY <1>1, <1>2, PureIs
<1>6. Transforms(s) = Pure(s, a, b)  BY <1>1, <1>4, PureIs
<1>7. Pure(s, a, b) = Pure(d, a, b)
  BY DEF Pure, Signed, Tags
<1>8. Pure(d, a, b).AdditionalDocumentReference = <<a, b>>  BY DEF Pure, Tags
<1>9. AdditionalReference(s, "QR") = z.text  BY <1>1, <1>4, ReferenceIsThird
<1> QED BY <1>1, <1>3, <1>5, <1>6, <1>7, <1>8, <1>9 DEF a, b, Text

\* The extension that carries the signature of a document.
ExtensionOf(d, c) ==
    populateUBLSignExtension(
        getInvoiceHash(d),
        populateSignedProperties(
            formatSignTimestamp(Text(d.IssueDate[1]), Text(d.IssueTime[1])),
            extractCertificateInfo(c)),
        createInvoiceDigitalSignature(getInvoiceHash(d), c), c)

QrOf(d, c) ==
    generatePhase2QR(d, getInvoiceHash(d),
                     createInvoiceDigitalSignature(getInvoiceHash(d), c),
                     extractCertificateInfo(c))

\* What comes out of the signing code for document d.
Finished(b, d, c) ==
    /\ b.qr = QrOf(d, c) /\ b.qr # <<>>
    /\ b.invoiceHash = getInvoiceHash(d)
    /\ Signed(b.doc, d, ExtensionOf(d, c), b.qr)

\* generateSignedXMLString, if it does not throw.
LEMMA ResultIs ==
    ASSUME NEW d, NEW in, Rendered(d, in), NEW c, NEW r,
           r = generateSignedXMLString(d, c), r.ok, NEW b,
           b.qr = r.qr, b.invoiceHash = r.invoice_hash, b.doc = r.signed
    PROVE  Finished(b, d, c)
<1> DEFINE x == ExtensionOf(d, c)
           q == QrOf(d, c)
           s == [d EXCEPT !.UBLExtensions[1] = Fill(@, x),
                          !.AdditionalDocumentReference = FillQr(@, q)]
<1>1. /\ r.ok = (q # <<>>) /\ r.invoice_hash = getInvoiceHash(d) /\ r.qr = q
      /\ r.signed = s
  BY DEF generateSignedXMLString, ExtensionOf, QrOf
<1> HIDE DEF x, q
<1>2. Signed(s, d, x, q)  BY SignedIs
<1> HIDE DEF s
<1> QED BY <1>1, <1>2 DEF Finished, x, q

\* The extension is read back as it was put in.
LEMMA ExtensionFilled ==
    ASSUME NEW d, NEW c, NEW b, Finished(b, d, c)
    PROVE  Extension(b.doc) = ExtensionOf(d, c)
<1> DEFINE x == ExtensionOf(d, c)
<1>1. b.doc.UBLExtensions = <<Literal(x)>>  BY DEF Finished, Signed
<1> HIDE DEF x
<1>2. b.doc.UBLExtensions[1] = Literal(x)  BY <1>1
<1>3. Literal(x).written[1] = x  BY DEF Literal
<1>4. Extension(b.doc) = x  BY <1>2, <1>3 DEF Extension, Text
<1> QED BY <1>4 DEF x

\* The extension says what was hashed and what was signed.
LEMMA ExtensionIs ==
    ASSUME NEW d, NEW c, NEW b, Finished(b, d, c), NEW e, e = Extension(b.doc)
    PROVE  /\ e.DigestValue = getInvoiceHash(d)
           /\ e.SignatureValue = [over |-> getInvoiceHash(d), key |-> c]
           /\ e.X509Certificate = c
           /\ e.PropertiesDigestValue = <<e.SignedProperties>>
           /\ e.SignedProperties.CertDigest = getCertificateHash(c)
<1> DEFINE x == ExtensionOf(d, c)
<1>1. e = x  BY ExtensionFilled
<1>2. /\ x.DigestValue = getInvoiceHash(d)
      /\ x.SignatureValue = [over |-> getInvoiceHash(d), key |-> c]
      /\ x.X509Certificate = c
      /\ x.PropertiesDigestValue = <<x.SignedProperties>>
      /\ x.SignedProperties.CertDigest = getCertificateHash(c)
  BY DEF ExtensionOf, populateUBLSignExtension, populateSignedProperties,
         extractCertificateInfo, createInvoiceDigitalSignature
<1> HIDE DEF x
<1> QED BY <1>1, <1>2

\* The extension's time is made from the document's.
LEMMA SigningTimeIs ==
    ASSUME NEW d, NEW c, NEW b, Finished(b, d, c)
    PROVE  Extension(b.doc).SignedProperties.SigningTime
             = formatSignTimestamp(Text(d.IssueDate[1]), Text(d.IssueTime[1]))
<1> DEFINE x == ExtensionOf(d, c)
           t == formatSignTimestamp(Text(d.IssueDate[1]), Text(d.IssueTime[1]))
<1>1. Extension(b.doc) = x  BY ExtensionFilled
<1>2. x.SignedProperties.SigningTime = t
  BY DEF ExtensionOf, populateUBLSignExtension, populateSignedProperties
<1> HIDE DEF x, t
<1>3. Extension(b.doc).SignedProperties.SigningTime = t  BY <1>1, <1>2
<1> QED BY <1>3 DEF t

\* The signature of a finished document verifies, and its hash names its
\* predecessor.
LEMMA FinishedSignature ==
    ASSUME NEW d, NEW c, NEW b, Finished(b, d, c), Rendered(d, b.input)
    PROVE  SignatureOK(b) /\ ReferencesOK(b)
<1> DEFINE p == getPureInvoiceString(d)
<1>1. Signed(b.doc, d, ExtensionOf(d, c), b.qr) /\ b.invoiceHash = getInvoiceHash(d)
  BY DEF Finished
<1>2. /\ Transforms(b.doc) = p
      /\ p.AdditionalDocumentReference
                = <<Reference("ICV", Literal(b.input.invoiceCounterNumber)),
                    Reference("PIH", Literal(b.input.previousInvoiceHash))>>
  BY <1>1, SignedPure
<1>3. getInvoiceHash(d) = <<p>>  BY DEF getInvoiceHash
<1> HIDE DEF p
<1>4. <<p>>[1] = p  OBVIOUS
<1>5. ReferencesOK(b)  BY <1>1, <1>2, <1>3, <1>4 DEF ReferencesOK
<1>6. SignatureOK(b)
  <2> DEFINE e == Extension(b.doc)
             h == getInvoiceHash(d)
  <2>1. /\ e.DigestValue = h
        /\ e.SignatureValue = [over |-> h, key |-> c]
        /\ e.X509Certificate = c
        /\ e.PropertiesDigestValue = <<e.SignedProperties>>
        /\ e.SignedProperties.CertDigest = getCertificateHash(c)
    BY ExtensionIs
  <2>2. h = <<Transforms(b.doc)>> /\ h = b.invoiceHash  BY <1>1, <1>2, <1>3
  <2>3. SignatureOK(b) = (/\ e.DigestValue = <<Transforms(b.doc)>>
        /\ e.DigestValue = b.invoiceHash
        /\ e.SignatureValue = [over |-> e.DigestValue, key |-> e.X509Certificate]
        /\ e.PropertiesDigestValue = <<e.SignedProperties>>
        /\ e.SignedProperties.CertDigest = getCertificateHash(e.X509Certificate))
    BY DEF SignatureOK
  <2> HIDE DEF e, h
  <2> QED BY <2>1, <2>2, <2>3
<1> QED BY <1>5, <1>6

\* Its times agree: the issue time is in UTC.
LEMMA FinishedTimes ==
    ASSUME NEW d, NEW c, NEW b, Finished(b, d, c), Rendered(d, b.input),
           b.input.issueTime.z
    PROVE  TimesOK(b)
<1> DEFINE in == b.input
           s == b.doc
<1>1. s.IssueDate = d.IssueDate /\ s.IssueTime = d.IssueTime
  BY DEF Finished, Signed, Tags
<1>2. d.IssueTime = <<Literal(in.issueTime)>>  BY DEF Rendered
<1>3. Text(d.IssueTime[1]) = in.issueTime
  <2> DEFINE v == in.issueTime
             l == Literal(v)
             t == d.IssueTime
  <2>1. l.written[1] = v  BY DEF Literal
  <2>2. t = <<l>>  BY <1>2
  <2> HIDE DEF v, l, t
  <2>3. t[1] = l  BY <2>2
  <2>4. Text(t[1]) = v  BY <2>1, <2>3 DEF Text
  <2> QED BY <2>4 DEF t, v
<1>4. b.qr[3].of.value = readIssueTimestamp(d)
  <2> DEFINE hash == getInvoiceHash(d)
             sig == createInvoiceDigitalSignature(getInvoiceHash(d), c)
             info == extractCertificateInfo(c)
  <2>1. b.qr = generatePhase2QR(d, hash, sig, info) /\ b.qr # <<>>  BY DEF Finished, QrOf
  <2> HIDE DEF hash, sig, info
  <2> QED BY <2>1, Phase2QrIs
<1> DEFINE e == Extension(s)
<1>5. e.SignedProperties.SigningTime
        = formatSignTimestamp(Text(d.IssueDate[1]), Text(d.IssueTime[1]))
  BY SigningTimeIs
<1>6. formatSignTimestamp(Text(d.IssueDate[1]), Text(d.IssueTime[1]))
        = [date |-> Text(d.IssueDate[1]), clock |-> Text(d.IssueTime[1]).clock, shift |-> 0]
  BY <1>3 DEF formatSignTimestamp
<1>7. readIssueTimestamp(d)
        = [date |-> Text(d.IssueDate[1]), clock |-> Text(d.IssueTime[1]).clock, shift |-> 0]
  BY DEF readIssueTimestamp
<1> QED BY <1>1, <1>4, <1>5, <1>6, <1>7 DEF TimesOK

\* The QR code reads as the finished document.
LEMMA FinishedQr ==
    ASSUME NEW d, NEW c, NEW b, Finished(b, d, c), NEW ls, Complete(d, b.input, ls),
           b.input.kind \in Phase2Kind
    PROVE  QrOK(b)
<1> DEFINE in == b.input
           s == b.doc
           q == b.qr
           hash == getInvoiceHash(d)
           sig == createInvoiceDigitalSignature(getInvoiceHash(d), c)
           info == extractCertificateInfo(c)
           B == Builder[in.kind]
<1>0. Rendered(d, in)  BY DEF Complete
<1>1. /\ s.AccountingSupplierParty = d.AccountingSupplierParty
      /\ s.LegalMonetaryTotal = d.LegalMonetaryTotal /\ s.TaxTotal = d.TaxTotal
  BY DEF Finished, Signed, Tags
<1>2. q = generatePhase2QR(d, hash, sig, info) /\ q # <<>>  BY DEF Finished, QrOf
<1>3. info.public_key = c /\ sig = [over |-> hash, key |-> c]
  BY DEF extractCertificateInfo, createInvoiceDigitalSignature
<1>4. Text(AdditionalReference(s, "QR")) = q
  <2>1. Signed(s, d, ExtensionOf(d, c), q)  BY DEF Finished
  <2> QED BY <1>0, <2>1, SignedPure
<1>5. /\ Extension(s).DigestValue = hash
      /\ Extension(s).SignatureValue = [over |-> hash, key |-> c]
      /\ Extension(s).X509Certificate = c
  BY ExtensionIs
<1>6. B.debit \in BOOLEAN  BY BuilderIs
<1>7. Last(d.TaxTotal).amount = d.TaxTotal[1].amount
  <2>1. d.TaxTotal \in TaxTotals(B, ls)  BY DEF Complete
  <2> HIDE DEF B
  <2> QED BY <1>6, <2>1, TaxTotalIs DEF Last
<1>8. d.LegalMonetaryTotal[1].PayableAmount = d.LegalMonetaryTotal[1].TaxInclusiveAmount
  <2>1. PICK m \in MonetaryTotals(B, ls) : d.LegalMonetaryTotal = <<m>>  BY DEF Complete
  <2>2. d.LegalMonetaryTotal[1] = m  BY <2>1
  <2> HIDE DEF B
  <2> QED BY <1>6, <2>2, PayableIs
<1> HIDE DEF hash, sig, info
<1>9. /\ \A i \in DOMAIN q : q[i].tag = i /\ q[i].length = q[i].of.bytes
      /\ q[1].of = Text(Supplier(d).RegistrationName)
      /\ q[2].of.value = Text(Supplier(d).CompanyID)
      /\ q[4].of.value = d.LegalMonetaryTotal[1].TaxInclusiveAmount
      /\ q[5].of.value = d.TaxTotal[1].amount
      /\ q[6].of.value = hash
      /\ q[7].of.value = sig
      /\ q[8].of.value = info.public_key
  BY <1>2, Phase2QrIs
<1> QED BY <1>1, <1>3, <1>4, <1>5, <1>7, <1>8, <1>9 DEF QrOK, Supplier

\* An optional part is there once or not at all.
LEMMA OptionalIs ==
    ASSUME NEW p, Optional(p)
    PROVE  /\ IsSeq(p) /\ Len(p) <= 1 /\ (p # <<>> => Len(p) = 1)
<1>1. CASE p = <<>>
  <2>1. Len(<<>>) = 0 /\ IsSeq(<<>>)  BY TupleIsSeq
  <2> QED BY <1>1, <2>1
<1>2. CASE p # <<>>
  <2> DEFINE x == p[1]
  <2>1. p = <<x>>  BY <1>2 DEF Optional
  <2> HIDE DEF x
  <2>2. Len(p) = 1 /\ IsSeq(p)  BY <2>1, TupleIsSeq
  <2> QED BY <2>2
<1> QED BY <1>1, <1>2

\* A function on the domain of a sequence is a sequence of the same length.
LEMMA MappedLength ==
    ASSUME NEW s, IsSeq(s), NEW f, f = [i \in DOMAIN s |-> f[i]]
    PROVE  IsSeq(f) /\ Len(f) = Len(s)
<1> DEFINE n == Len(s)
<1>1. n \in Nat /\ DOMAIN s = 1 .. n  BY SeqFacts
<1> HIDE DEF n
<1>2. f = [i \in 1 .. n |-> f[i]]  BY <1>1
<1>3. IsSeq(f) /\ Len(f) = n  BY <1>1, <1>2, FunctionIsSeq
<1> QED BY <1>3 DEF n

\* A finished document has its parts.
LEMMA FinishedParts ==
    ASSUME NEW d, NEW c, NEW b, Finished(b, d, c), NEW ls, IsSeq(ls),
           Complete(d, b.input, ls), b.input.kind \in Phase2Kind,
           Len(ls) = Len(b.input.lineItems), Optional(b.input.cancelation),
           Optional(b.input.buyerName), Optional(b.input.buyerInfo)
    PROVE  PartsOK(b)
<1> DEFINE in == b.input
           s == b.doc
           B == Builder[in.kind]
<1>1. /\ s.LegalMonetaryTotal = d.LegalMonetaryTotal /\ s.TaxTotal = d.TaxTotal
      /\ s.InvoiceLine = d.InvoiceLine /\ s.PaymentMeans = d.PaymentMeans
      /\ s.AccountingCustomerParty = d.AccountingCustomerParty
      /\ s.BillingReference = d.BillingReference
  BY DEF Finished, Signed, Tags
<1>2. \A x : Len(<<x>>) = 1  OBVIOUS
<1>3. Len(s.LegalMonetaryTotal) = 1
  <2>1. PICK m : d.LegalMonetaryTotal = <<m>>  BY DEF Complete
  <2>2. Len(<<m>>) = 1  OBVIOUS
  <2> HIDE DEF s
  <2> QED BY <1>1, <2>1, <2>2
<1>4. B.debit \in BOOLEAN  BY BuilderIs
<1>5. Len(s.TaxTotal) = IF B.debit THEN 1 ELSE 2
  <2> DEFINE tt == d.TaxTotal
  <2>1. tt \in TaxTotals(B, ls)  BY DEF Complete
  <2> HIDE DEF B, tt
  <2>2. Len(tt) = IF B.debit THEN 1 ELSE 2  BY <1>4, <2>1, TaxTotalIs
  <2>3. s.TaxTotal = tt  BY <1>1 DEF tt
  <2> HIDE DEF s
  <2> QED BY <2>2, <2>3
<1>6. Len(s.InvoiceLine) = Len(in.lineItems)
  <2> DEFINE f == d.InvoiceLine
  <2>1. f = [i \in DOMAIN ls |-> assembleLineItemXml(ls[i], B)]  BY DEF Complete
  <2>2. f = [i \in DOMAIN ls |-> f[i]]
    <3> HIDE DEF f, B
    <3> QED BY <2>1
  <2> HIDE DEF f
  <2>3. Len(f) = Len(ls)  BY <2>2, MappedLength
  <2> QED BY <1>1, <2>3 DEF f
<1> DEFINE party == d.AccountingCustomerParty
           buyer == buildBuyerInfoXml(in.buyerInfo[1])
<1>7. party = IF in.buyerInfo # <<>> THEN <<buyer>>
              ELSE IF in.kind = "simplified-tax-invoice" THEN in.buyerName
              ELSE <<>>
  BY DEF Complete, Customer
<1> HIDE DEF party, buyer
<1>8. in.buyerInfo # <<>> => Len(party) = 1  BY <1>2, <1>7
<1>9. Len(party) <= 1
  <2>1. Len(<<>>) = 0  OBVIOUS
  <2>2. Len(in.buyerName) <= 1  BY OptionalIs
  <2>3. Len(party) = 1 \/ party = in.buyerName \/ party = <<>>  BY <1>7, <1>8
  <2> DEFINE name == in.buyerName
  <2> HIDE DEF name
  <2>4. Len(party) = 1 \/ party = name \/ party = <<>>  BY <2>3 DEF name
  <2>5. Len(name) <= 1  BY <2>2 DEF name
  <2>6. CASE Len(party) = 1  BY <2>6
  <2>7. CASE party = name  BY <2>5, <2>7
  <2>8. CASE party = <<>>
    <3>1. Len(party) = 0  BY <2>1, <2>8, Zenon
    <3> QED BY <3>1
  <2> QED BY <2>4, <2>6, <2>7, <2>8
<1>10. in.kind = "simplified-tax-invoice" /\ in.buyerName # <<>> => Len(party) = 1
  BY <1>7, <1>8, OptionalIs
<1>11. in.kind \notin {"simplified-tax-invoice", "simplified-credit-note",
                       "simplified-debit-note"} => ~B.simplified
  BY DEF Builder, Phase2Kind, StandardTaxInvoiceBuilder, StandardCreditNoteBuilder,
         StandardDebitNoteBuilder
<1>12. schemaAccepts(in) =>
          \/ in.kind \in {"simplified-credit-note", "simplified-debit-note"}
          \/ Len(party) = 1
  BY <1>8, <1>10, <1>11 DEF schemaAccepts
<1>13. in.cancelation # <<>> => Len(d.BillingReference) = 1
  <2> DEFINE x == generateInvoiceBillingReference(in.cancelation[1].canceledInvoiceNumber)
  <2>1. in.cancelation # <<>> => d.BillingReference = <<x>>
    BY DEF Complete, Rendered, BillingReference
  <2> HIDE DEF x
  <2> QED BY <1>2, <2>1
<1>14. in.cancelation # <<>> => Len(d.PaymentMeans) = 1
  <2> DEFINE p == in.cancelation
             f == d.PaymentMeans
  <2>1. f = [i \in DOMAIN p |-> f[i]]
    <3>1. f = [i \in DOMAIN p |-> [PaymentMeansCode |-> p[i].paymentMethod,
                                  InstructionNote |-> p[i].reason]]
      BY DEF Complete, PaymentMeans
    <3> HIDE DEF f
    <3> QED BY <3>1
  <2>2. IsSeq(p) /\ (p # <<>> => Len(p) = 1)  BY OptionalIs
  <2> HIDE DEF f, p
  <2>3. Len(f) = Len(p)  BY <2>1, <2>2, MappedLength
  <2> QED BY <2>2, <2>3 DEF f, p
<1>15. schemaAccepts(in) /\ in.kind \in Note => in.cancelation # <<>>
  BY DEF schemaAccepts
<1> QED BY <1>1, <1>3, <1>5, <1>6, <1>9, <1>12, <1>13, <1>14, <1>15 DEF PartsOK, party

-----------------------------------------------------------------------------
(* Amounts. *)

\* Division by 100 and by Scale.
LEMMA Division ==
    ASSUME NEW k \in Int
    PROVE  /\ k \div 100 \in Int /\ 100 * (k \div 100) <= k /\ k < 100 * (k \div 100) + 100
           /\ k \div 10000 \in Int /\ k % 10000 \in 0 .. 9999
           /\ k = 10000 * (k \div 10000) + (k % 10000)
OBVIOUS

\* The negative of a double is one.
LEMMA NegIs ==
    ASSUME NEW x \in Double
    PROVE  Neg(x) \in Double
BY DEF Double, Side, Neg

\* A sum is where it should be, give or take the error.
LEMMA PlusIs ==
    ASSUME NEW x \in Double, NEW y \in Double, NEW z \in Plus(x, y)
    PROVE  z \in Double /\ z.u = x.u + y.u
<1>1. CASE x = Zero  BY <1>1 DEF Plus, Double, Side, Zero
<1>2. CASE x # Zero /\ y = Zero  BY <1>2 DEF Plus, Double, Side, Zero
<1>3. CASE x # Zero /\ y # Zero /\ x.u + y.u = 0 /\ 0 \in {x.e, y.e}
  <2>1. z = [u |-> 0, e |-> x.e + y.e]  BY <1>3 DEF Plus
  <2> QED BY <1>3, <2>1 DEF Double, Side
<1>4. CASE x # Zero /\ y # Zero /\ ~(x.u + y.u = 0 /\ 0 \in {x.e, y.e})
  <2>1. PICK e \in Side : z = [u |-> x.u + y.u, e |-> e]  BY <1>4 DEF Plus
  <2> QED BY <2>1 DEF Double
<1> QED BY <1>1, <1>2, <1>3, <1>4

\* A multiple of a double is one.
LEMMA TimesIs ==
    ASSUME NEW x \in Double, NEW k \in Nat, NEW z \in Times(x, k)
    PROVE  z \in Double
<1>1. CASE k = 0  BY <1>1 DEF Times, Double, Side, Zero
<1>2. CASE k # 0 /\ (k = 1 \/ x.u = 0)  BY <1>2 DEF Times
<1>3. CASE k # 0 /\ ~(k = 1 \/ x.u = 0)
  <2>1. PICK e \in Side : z = [u |-> x.u * k, e |-> e]  BY <1>3 DEF Times
  <2>2. x.u * k \in Int  BY DEF Double
  <2> QED BY <2>1, <2>2 DEF Double
<1> QED BY <1>1, <1>2, <1>3

\* A percentage is cut to the unit.
LEMMA PercentIs ==
    ASSUME NEW x \in Double, NEW p \in Nat, NEW z \in Percent(x, p)
    PROVE  /\ z \in Double /\ z.u = (x.u * p) \div 100
           /\ p = 0 => z = Zero
           /\ x = Zero => z = Zero
<1>1. CASE p = 0
  <2>1. z = Zero  BY <1>1 DEF Percent
  <2>2. x.u * p = 0  BY <1>1 DEF Double
  <2>3. 0 \div 100 = 0  OBVIOUS
  <2> QED BY <2>1, <2>2, <2>3 DEF Zero, Double, Side
<1>2. CASE p # 0 /\ x.u = 0
  <2>1. z = x  BY <1>2 DEF Percent
  <2>2. x.u * p = 0  BY <1>2
  <2>3. 0 \div 100 = 0  OBVIOUS
  <2> QED BY <1>2, <2>1, <2>2, <2>3
<1>3. CASE p # 0 /\ x.u # 0
  <2>1. PICK e \in Side : z = [u |-> (x.u * p) \div 100, e |-> e]  BY <1>3 DEF Percent
  <2>2. x.u * p \in Int  BY DEF Double
  <2>3. (x.u * p) \div 100 \in Int  BY <2>2, Division
  <2>4. x # Zero  BY <1>3 DEF Zero
  <2> QED BY <1>3, <2>1, <2>3, <2>4 DEF Double
<1> QED BY <1>1, <1>2, <1>3

\* The double of a number of halalas.
LEMMA CleanIs ==
    ASSUME NEW h \in Int
    PROVE  Clean(h) \in Double /\ Clean(h).u = h * 10000 /\ Clean(h).e = 0
           /\ (h = 0 => Clean(h) = Zero)
BY DEF Clean, Double, Side, Scale, Zero

\* What is cut is a whole number.
LEMMA CutIs ==
    ASSUME NEW x \in Double, NEW c \in toFixedNoRounding(x)
    PROVE  c \in Int
<1>1. Magnitude(x.u) \in Int /\ Sign(x.u) \in {-1, 1}
  BY DEF Magnitude, Sign, Double
<1>2. Magnitude(x.u) \div Scale \in Int  BY <1>1, Division DEF Scale
<1>3. Truncated(x) \in Int  BY <1>1, <1>2 DEF Truncated
<1>4. CASE x.u = 0 /\ x.e = 0  BY <1>4 DEF toFixedNoRounding
<1>5. CASE x.u = 0 /\ x.e # 0
  <2>1. PICK m \in Mantissa : c = x.e * m  BY <1>5 DEF toFixedNoRounding
  <2>2. m \in Int /\ x.e \in Int  BY DEF Mantissa, Double, Side
  <2> QED BY <2>1, <2>2
<1>6. CASE x.u # 0
  <2>1. c = Truncated(x) \/ c = Truncated(x) - Sign(x.u)
    BY <1>6 DEF toFixedNoRounding
  <2> QED BY <1>1, <1>3, <2>1
<1> QED BY <1>4, <1>5, <1>6

\* A double that is not negative, and is not all error.
Tame(x) == x \in Double /\ x.u >= 0 /\ (x.u = 0 => x = Zero)

\* A tame number is cut by at most a halala.
LEMMA TameCut ==
    ASSUME NEW x, Tame(x), NEW c \in toFixedNoRounding(x)
    PROVE  c \in Nat /\ c * 10000 <= x.u /\ x.u <= c * 10000 + 10000
<1>0. x.u \in Nat /\ x.e \in Side  BY DEF Tame, Double
<1>1. CASE x.u = 0
  <2>1. x.e = 0  BY <1>1 DEF Tame, Zero
  <2>2. c = 0  BY <1>1, <2>1 DEF toFixedNoRounding
  <2> QED BY <1>1, <2>2
<1>2. CASE x.u # 0
  <2> DEFINE k == x.u
             q == k \div 10000
             r == k % 10000
  <2>1. Sign(k) = 1 /\ Magnitude(k) = k /\ k \in Int /\ k > 0
    BY <1>0, <1>2 DEF Sign, Magnitude
  <2>2. Truncated(x) = 1 * (k \div 10000)  BY <2>1 DEF Truncated, Scale
  <2>3. c = Truncated(x) \/ (r = 0 /\ c = Truncated(x) - 1)
    BY <1>2, <2>1 DEF toFixedNoRounding, Scale
  <2> HIDE DEF k
  <2>4. q \in Int /\ r \in 0 .. 9999 /\ k = 10000 * q + r  BY <2>1, Division
  <2>5. Truncated(x) = q  BY <2>2, <2>4
  <2> HIDE DEF q, r
  <2>6. q >= 0 /\ (r = 0 => q >= 1)  BY <2>1, <2>4
  <2>7. c \in Nat /\ c * 10000 <= k /\ k <= c * 10000 + 10000
    BY <2>3, <2>4, <2>5, <2>6
  <2> QED BY <2>7 DEF k
<1> QED BY <1>1, <1>2

\* Tame numbers have tame sums.
LEMMA TamePlus ==
    ASSUME NEW x, NEW y, Tame(x), Tame(y), NEW z \in Plus(x, y)
    PROVE  Tame(z) /\ z.u = x.u + y.u
<1>1. x \in Double /\ y \in Double /\ x.u >= 0 /\ y.u >= 0  BY DEF Tame
<1>2. z \in Double /\ z.u = x.u + y.u  BY <1>1, PlusIs
<1>3. x.u \in Int /\ y.u \in Int  BY <1>1 DEF Double
<1>4. ASSUME z.u = 0  PROVE z = Zero
  <2>1. x.u = 0 /\ y.u = 0  BY <1>1, <1>2, <1>3, <1>4
  <2>2. x = Zero /\ y = Zero  BY <2>1 DEF Tame
  <2> QED BY <2>2 DEF Plus
<1> QED BY <1>1, <1>2, <1>3, <1>4 DEF Tame

\* Whole halalas that are not negative are tame.
LEMMA TameClean ==
    ASSUME NEW h \in Nat
    PROVE  Tame(Clean(h)) /\ Clean(h).u = h * 10000
<1>1. Clean(h) \in Double /\ Clean(h).u = h * 10000 /\ (h = 0 => Clean(h) = Zero)
  BY CleanIs
<1>2. h * 10000 \in Nat /\ (h * 10000 = 0 => h = 0)  OBVIOUS
<1> QED BY <1>1, <1>2 DEF Tame

\* Sequences of whole numbers.
Whole(hs) == IsSeq(hs) /\ \A i \in 1 .. Len(hs) : hs[i] \in Int

\* The running total of a sequence adds its elements one by one.
LEMMA RunningTotalIs ==
    ASSUME NEW hs, Whole(hs), NEW R, R = RunningTotal(hs)
    PROVE  /\ R[0] = 0
           /\ \A n \in 1 .. Len(hs) : R[n] = R[n - 1] + hs[n]
           /\ \A n \in 0 .. Len(hs) : R[n] \in Int
<1> DEFINE N == Len(hs)
           F(h) == [n \in 0 .. N |-> IF n = 0 THEN 0 ELSE h[n - 1] + hs[n]]
           zero == 0
           Z == Int
           step == [n \in 1 .. N |-> [v \in Z |-> v + hs[n]]]
<1>0. N \in Nat  BY SeqFacts DEF Whole
<1>1. \A i \in 1 .. N : hs[i] \in Int  BY DEF Whole
<1> HIDE DEF N
<1>2. step \in [1 .. N -> [Z -> Z]] /\ zero \in Z  BY <1>1
<1>3. \E f \in [0 .. N -> Z] : Goes(f, N, zero, step)
  <2> HIDE DEF step, Z, zero
  <2> QED BY <1>0, <1>2, Recursion
<1>4. PICK f \in [0 .. N -> Z] :
         f[0] = zero /\ \A n \in 1 .. N : f[n] = step[n][f[n - 1]]
  BY <1>3 DEF Goes
<1>5. \A n \in 1 .. N : f[n] = f[n - 1] + hs[n]
  <2> TAKE n \in 1 .. N
  <2>1. n - 1 \in 0 .. N  BY <1>0
  <2>2. f[n - 1] \in Z  BY <2>1
  <2>3. f[n] = step[n][f[n - 1]]  BY <1>4
  <2> QED BY <2>2, <2>3
<1>6. f = F(f)
  <2> DEFINE h == F(f)
  <2>1. f = [n \in 0 .. N |-> f[n]] /\ h = [n \in 0 .. N |-> h[n]]  OBVIOUS
  <2>2. \A n \in 0 .. N : f[n] = h[n]
    <3> TAKE n \in 0 .. N
    <3>1. CASE n = 0  BY <3>1, <1>4
    <3>2. CASE n # 0
      <4>1. n \in 1 .. N  BY <1>0, <3>2
      <4> QED BY <4>1, <3>2, <1>5
    <3> QED BY <3>1, <3>2
  <2> HIDE DEF h
  <2>3. f = h  BY <2>1, <2>2
  <2> QED BY <2>3 DEF h
<1>7. R = CHOOSE h : h = F(h)  BY DEF RunningTotal, N
<1>8. R = F(R)
  <2> HIDE DEF F
  <2> QED BY <1>6, <1>7
<1>9. R[0] = 0 /\ \A n \in 1 .. N : R[n] = R[n - 1] + hs[n]
  BY <1>0, <1>8
<1> DEFINE T == {n \in 0 .. N : R[n] \in Int}
<1>10. 0 \in T  BY <1>0, <1>9
<1>11. ASSUME NEW n \in 0 .. N, n < N, n \in T PROVE n + 1 \in T
  <2>1. n + 1 \in 1 .. N /\ n + 1 \in 0 .. N /\ (n + 1) - 1 = n  BY <1>0, <1>11
  <2>2. R[n + 1] = R[n] + hs[n + 1]
    <3>1. R[n + 1] = R[(n + 1) - 1] + hs[n + 1]  BY <1>9, <2>1
    <3> QED BY <2>1, <3>1
  <2> QED BY <2>1, <2>2, <1>1, <1>11
<1>12. \A n \in 0 .. N : n \in T
  <2> HIDE DEF T
  <2> QED BY <1>0, <1>10, <1>11, Induction
<1>13. \A n \in 0 .. N : R[n] \in Int  BY <1>12
<1> QED BY <1>9, <1>13 DEF N

\* The sum of whole numbers is one.
LEMMA TotalIs ==
    ASSUME NEW hs, Whole(hs)
    PROVE  Total(hs) \in Int
<1>1. Len(hs) \in Nat  BY SeqFacts DEF Whole
<1>2. Len(hs) \in 0 .. Len(hs)  BY <1>1
<1> QED BY <1>2, RunningTotalIs DEF Total

\* The bounds of the next lemma add up.
LEMMA StepWithin ==
    ASSUME NEW x \in Int, NEW y \in Int, NEW z \in Int,
           NEW p \in Int, NEW q \in Int, NEW r \in Int,
           y - z <= x, x <= y + 2 * z, q - r <= p, p <= q + 2 * r
    PROVE  (y + q) - (z + r) <= x + p /\ x + p <= (y + q) + 2 * (z + r)
OBVIOUS

\* What holds for each element holds for the sums: two sequences whose elements
\* differ by between -k and 2k, k the elements of a third.
LEMMA TotalsWithin ==
    ASSUME NEW a, NEW b, NEW k, Whole(a), Whole(b), Whole(k),
           Len(a) = Len(b), Len(k) = Len(b),
           \A i \in 1 .. Len(b) : b[i] - k[i] <= a[i] /\ a[i] <= b[i] + 2 * k[i]
    PROVE  Total(b) - Total(k) <= Total(a) /\ Total(a) <= Total(b) + 2 * Total(k)
<1> DEFINE N == Len(b)
           A == RunningTotal(a)
           B == RunningTotal(b)
           K == RunningTotal(k)
           T == {n \in 0 .. N : B[n] - K[n] <= A[n] /\ A[n] <= B[n] + 2 * K[n]}
<1>0. N \in Nat  BY SeqFacts DEF Whole
<1>1. /\ A[0] = 0 /\ \A n \in 1 .. N : A[n] = A[n - 1] + a[n]
      /\ \A n \in 0 .. N : A[n] \in Int
  BY RunningTotalIs
<1>2. /\ B[0] = 0 /\ \A n \in 1 .. N : B[n] = B[n - 1] + b[n]
      /\ \A n \in 0 .. N : B[n] \in Int
  BY RunningTotalIs
<1>3. /\ K[0] = 0 /\ \A n \in 1 .. N : K[n] = K[n - 1] + k[n]
      /\ \A n \in 0 .. N : K[n] \in Int
  BY RunningTotalIs
<1>4. \A i \in 1 .. N : a[i] \in Int /\ b[i] \in Int /\ k[i] \in Int  BY DEF Whole
<1>5. \A i \in 1 .. N : b[i] - k[i] <= a[i] /\ a[i] <= b[i] + 2 * k[i]  OBVIOUS
<1>6. Total(a) = A[N] /\ Total(b) = B[N] /\ Total(k) = K[N]  BY DEF Total
<1> HIDE DEF N, A, B, K
<1>7. 0 \in T  BY <1>0, <1>1, <1>2, <1>3
<1>8. ASSUME NEW n \in 0 .. N, n < N, n \in T PROVE n + 1 \in T
  <2> DEFINE m == n + 1
  <2>1. m \in 1 .. N /\ m \in 0 .. N /\ m - 1 = n  BY <1>0, <1>8
  <2>2. A[m] = A[n] + a[m] /\ B[m] = B[n] + b[m] /\ K[m] = K[n] + k[m]
    <3> HIDE DEF m
    <3> QED BY <2>1, <1>1, <1>2, <1>3
  <2>3. A[n] \in Int /\ B[n] \in Int /\ K[n] \in Int /\ a[m] \in Int /\ b[m] \in Int
        /\ k[m] \in Int
    <3> HIDE DEF m
    <3> QED BY <2>1, <1>1, <1>2, <1>3, <1>4
  <2>4. B[n] - K[n] <= A[n] /\ A[n] <= B[n] + 2 * K[n]  BY <1>8
  <2>5. b[m] - k[m] <= a[m] /\ a[m] <= b[m] + 2 * k[m]
    <3> HIDE DEF m
    <3> QED BY <2>1, <1>5
  <2> HIDE DEF m
  <2>6. B[m] - K[m] <= A[m] /\ A[m] <= B[m] + 2 * K[m]
    <3>1. /\ (B[n] + b[m]) - (K[n] + k[m]) <= A[n] + a[m]
          /\ A[n] + a[m] <= (B[n] + b[m]) + 2 * (K[n] + k[m])
      <4> DEFINE x == A[n]
                 y == B[n]
                 z == K[n]
                 p == a[m]
                 q == b[m]
                 r == k[m]
      <4>1. /\ x \in Int /\ y \in Int /\ z \in Int /\ p \in Int /\ q \in Int /\ r \in Int
            /\ y - z <= x /\ x <= y + 2 * z /\ q - r <= p /\ p <= q + 2 * r
        BY <2>3, <2>4, <2>5
      <4> HIDE DEF x, y, z, p, q, r
      <4>2. (y + q) - (z + r) <= x + p /\ x + p <= (y + q) + 2 * (z + r)
        BY <4>1, StepWithin
      <4> QED BY <4>2 DEF x, y, z, p, q, r
    <3> QED BY <2>2, <3>1, Zenon
  <2>7. m \in T  BY <2>1, <2>6
  <2> QED BY <2>7 DEF m
<1>9. \A n \in 0 .. N : n \in T
  <2> HIDE DEF T
  <2> QED BY <1>0, <1>7, <1>8, Induction
<1>10. N \in 0 .. N  BY <1>0
<1> QED BY <1>6, <1>9, <1>10

\* Sequences of doubles, and what one of them may be added up to.
Doubles(xs) == IsSeq(xs) /\ \A i \in 1 .. Len(xs) : xs[i] \in Double

PlusEach(A, x) == UNION {Plus(a, x) : a \in A}

\* A sum of one of a set of doubles and another is a double.
LEMMA PlusEachIs ==
    ASSUME NEW A \in SUBSET Double, NEW x \in Double
    PROVE  PlusEach(A, x) \in SUBSET Double
BY PlusIs DEF PlusEach

\* The running sums add the elements one by one.
LEMMA RunningSumsIs ==
    ASSUME NEW xs, Doubles(xs), NEW start \in SUBSET Double, NEW R,
           R = RunningSums(start, xs)
    PROVE  /\ R[0] = start
           /\ \A n \in 1 .. Len(xs) : R[n] = PlusEach(R[n - 1], xs[n])
           /\ \A n \in 0 .. Len(xs) : R[n] \in SUBSET Double
<1> DEFINE N == Len(xs)
           F(h) == [n \in 0 .. N |-> IF n = 0 THEN start ELSE PlusEach(h[n - 1], xs[n])]
           Z == SUBSET Double
           step == [n \in 1 .. N |-> [v \in Z |-> PlusEach(v, xs[n])]]
<1>0. N \in Nat  BY SeqFacts DEF Doubles
<1>1. \A i \in 1 .. N : xs[i] \in Double  BY DEF Doubles
<1> HIDE DEF N
<1>2. step \in [1 .. N -> [Z -> Z]] /\ start \in Z
  <2>1. ASSUME NEW n \in 1 .. N, NEW v \in Z PROVE PlusEach(v, xs[n]) \in Z
    BY <1>1, PlusEachIs
  <2> HIDE DEF Z
  <2>2. start \in Z  BY DEF Z
  <2> QED BY <2>1, <2>2
<1>3. \E f \in [0 .. N -> Z] : Goes(f, N, start, step)
  <2> HIDE DEF step, Z
  <2> QED BY <1>0, <1>2, Recursion
<1>4. PICK f \in [0 .. N -> Z] :
         f[0] = start /\ \A n \in 1 .. N : f[n] = step[n][f[n - 1]]
  BY <1>3 DEF Goes
<1>5. \A n \in 1 .. N : f[n] = PlusEach(f[n - 1], xs[n])
  <2> TAKE n \in 1 .. N
  <2>1. n - 1 \in 0 .. N  BY <1>0
  <2>2. f[n - 1] \in Z  BY <2>1
  <2>3. f[n] = step[n][f[n - 1]]  BY <1>4
  <2> HIDE DEF Z
  <2> QED BY <2>2, <2>3
<1>6. f = F(f)
  <2> DEFINE h == F(f)
  <2>1. f = [n \in 0 .. N |-> f[n]] /\ h = [n \in 0 .. N |-> h[n]]  OBVIOUS
  <2>2. \A n \in 0 .. N : f[n] = h[n]
    <3> TAKE n \in 0 .. N
    <3>1. CASE n = 0  BY <3>1, <1>4
    <3>2. CASE n # 0
      <4>1. n \in 1 .. N  BY <1>0, <3>2
      <4> QED BY <4>1, <3>2, <1>5
    <3> QED BY <3>1, <3>2
  <2> HIDE DEF h
  <2>3. f = h  BY <2>1, <2>2
  <2> QED BY <2>3 DEF h
<1>7. R = CHOOSE h : h = F(h)  BY DEF RunningSums, PlusEach, N
<1>8. R = F(R)
  <2> HIDE DEF F
  <2> QED BY <1>6, <1>7
<1>9. R[0] = start /\ \A n \in 1 .. N : R[n] = PlusEach(R[n - 1], xs[n])
  BY <1>0, <1>8
<1> DEFINE T == {n \in 0 .. N : R[n] \in Z}
<1>10. 0 \in T  BY <1>0, <1>9
<1>11. ASSUME NEW n \in 0 .. N, n < N, n \in T PROVE n + 1 \in T
  <2> DEFINE m == n + 1
  <2>1. m \in 1 .. N /\ m \in 0 .. N /\ m - 1 = n  BY <1>0, <1>11
  <2> HIDE DEF m
  <2>2. R[m] = PlusEach(R[n], xs[m])  BY <1>9, <2>1
  <2>3. R[m] \in Z  BY <2>1, <2>2, <1>1, <1>11, PlusEachIs
  <2>4. m \in T  BY <2>1, <2>3
  <2> QED BY <2>4 DEF m
<1>12. \A n \in 0 .. N : n \in T
  <2> HIDE DEF T
  <2> QED BY <1>0, <1>10, <1>11, Induction
<1>13. \A n \in 0 .. N : R[n] \in SUBSET Double  BY <1>12
<1> QED BY <1>9, <1>13 DEF N

\* The sums are doubles.
LEMMA SumsFromIs ==
    ASSUME NEW xs, Doubles(xs), NEW start \in SUBSET Double
    PROVE  SumsFrom(start, xs) \in SUBSET Double
<1>1. Len(xs) \in Nat  BY SeqFacts DEF Doubles
<1>2. Len(xs) \in 0 .. Len(xs)  BY <1>1
<1> QED BY <1>2, RunningSumsIs DEF SumsFrom

\* Sequences of natural numbers.
Naturals(ts) == IsSeq(ts) /\ \A i \in 1 .. Len(ts) : ts[i] \in Nat

\* Doubles that are all tame and stand for h halalas.
At(A, h) == \A z \in A : Tame(z) /\ z.u = h * 10000

\* The doubles of a sequence of whole numbers.
LEMMA AllCleanIs ==
    ASSUME NEW ts, Whole(ts), NEW xs, xs = AllClean(ts)
    PROVE  Doubles(xs) /\ Len(xs) = Len(ts) /\ \A i \in 1 .. Len(ts) : xs[i] = Clean(ts[i])
<1>1. Len(ts) \in Nat /\ DOMAIN ts = 1 .. Len(ts) /\ IsSeq(ts)  BY SeqFacts DEF Whole
<1>2. xs = [i \in DOMAIN ts |-> xs[i]] /\ \A i \in 1 .. Len(ts) : xs[i] = Clean(ts[i])
  BY <1>1 DEF AllClean
<1>3. IsSeq(xs) /\ Len(xs) = Len(ts)  BY <1>1, <1>2, MappedLength
<1>4. ASSUME NEW i \in 1 .. Len(ts) PROVE xs[i] \in Double
  <2> DEFINE t == ts[i]
  <2>1. t \in Int /\ xs[i] = Clean(t)  BY <1>2 DEF Whole
  <2> HIDE DEF t
  <2> QED BY <2>1, CleanIs
<1> QED BY <1>2, <1>3, <1>4 DEF Doubles

\* Natural numbers are whole.
LEMMA NaturalsWhole ==
    ASSUME NEW ts, Naturals(ts) PROVE Whole(ts)
BY DEF Naturals, Whole

\* Adding up halalas as doubles.
LEMMA AtSums ==
    ASSUME NEW ts, Naturals(ts), NEW h \in Nat, NEW start, At(start, h)
    PROVE  Total(ts) \in Nat /\ At(SumsFrom(start, AllClean(ts)), h + Total(ts))
<1> DEFINE xs == AllClean(ts)
           N == Len(ts)
           S == RunningSums(start, xs)
           R == RunningTotal(ts)
           T == {n \in 0 .. N : R[n] \in Nat /\ At(S[n], h + R[n])}
<1>0. N \in Nat /\ Whole(ts)  BY SeqFacts, NaturalsWhole DEF Naturals
<1>1. Doubles(xs) /\ Len(xs) = N /\ \A i \in 1 .. N : xs[i] = Clean(ts[i])
  BY <1>0, AllCleanIs
<1>2. start \in SUBSET Double  BY DEF At, Tame
<1>3. \A i \in 1 .. N : ts[i] \in Nat  BY DEF Naturals
<1>4. R[0] = 0 /\ \A n \in 1 .. N : R[n] = R[n - 1] + ts[n]
  BY <1>0, RunningTotalIs
<1>5. S[0] = start /\ \A n \in 1 .. N : S[n] = PlusEach(S[n - 1], xs[n])
  <2> HIDE DEF xs, N
  <2>1. S[0] = start /\ \A n \in 1 .. Len(xs) : S[n] = PlusEach(S[n - 1], xs[n])
    BY <1>1, <1>2, RunningSumsIs
  <2> QED BY <1>1, <2>1
<1>6. Total(ts) = R[N] /\ SumsFrom(start, AllClean(ts)) = S[N]
  <2>1. SumsFrom(start, xs) = S[Len(xs)]  BY DEF SumsFrom
  <2> HIDE DEF S, R
  <2> QED BY <1>1, <2>1 DEF Total, R
<1> HIDE DEF N, S, R, xs
<1>7. 0 \in T  BY <1>0, <1>4, <1>5
<1>8. ASSUME NEW n \in 0 .. N, n < N, n \in T PROVE n + 1 \in T
  <2> DEFINE m == n + 1
             t == ts[m]
             g == h + R[n]
  <2>1. m \in 1 .. N /\ m \in 0 .. N /\ m - 1 = n  BY <1>0, <1>8
  <2> HIDE DEF m
  <2>2. R[m] = R[n] + t /\ S[m] = PlusEach(S[n], xs[m]) /\ t \in Nat /\ xs[m] = Clean(t)
    BY <2>1, <1>1, <1>3, <1>4, <1>5
  <2>3. R[n] \in Nat /\ g \in Nat /\ At(S[n], g)  BY <1>8
  <2>4. Tame(Clean(t)) /\ Clean(t).u = t * 10000  BY <2>2, TameClean
  <2> HIDE DEF t
  <2>5. R[m] \in Nat /\ h + R[m] = g + t  BY <2>2, <2>3
  <2> HIDE DEF g
  <2>6. ASSUME NEW z \in S[m] PROVE Tame(z) /\ z.u = (g + t) * 10000
    <3>1. PICK a \in S[n] : z \in Plus(a, Clean(t))  BY <2>2 DEF PlusEach
    <3>2. Tame(a) /\ a.u = g * 10000  BY <2>3 DEF At
    <3>3. Tame(z) /\ z.u = a.u + Clean(t).u  BY <3>1, <3>2, <2>4, TamePlus
    <3>4. g * 10000 + t * 10000 = (g + t) * 10000  BY <2>2, <2>3
    <3> QED BY <3>2, <3>3, <3>4, <2>4
  <2>7. At(S[m], h + R[m])  BY <2>5, <2>6 DEF At
  <2>8. m \in T  BY <2>1, <2>5, <2>7
  <2> QED BY <2>8 DEF m
<1>9. \A n \in 0 .. N : n \in T
  <2> HIDE DEF T
  <2> QED BY <1>0, <1>7, <1>8, Induction
<1>10. N \in 0 .. N  BY <1>0
<1> QED BY <1>6, <1>9, <1>10

\* The sum of two numbers of halalas, cut, of each of a set.
RecutEach(A, t) == UNION {Recut(a, t) : a \in A}

\* It is a whole number.
LEMMA RecutEachIs ==
    ASSUME NEW A \in SUBSET Int, NEW t \in Int
    PROVE  RecutEach(A, t) \in SUBSET Int
<1>1. ASSUME NEW a \in Int, NEW c \in Recut(a, t) PROVE c \in Int
  <2>1. PICK x \in Plus(Clean(a), Clean(t)) : c \in toFixedNoRounding(x)  BY <1>1 DEF Recut
  <2>2. Clean(a) \in Double /\ Clean(t) \in Double  BY CleanIs
  <2>3. x \in Double  BY <2>2, PlusIs
  <2> QED BY <2>1, <2>3, CutIs
<1> QED BY <1>1 DEF RecutEach

\* The running sums of the invoices' line taxes, cut after every tax.
LEMMA RunningRecutsIs ==
    ASSUME NEW ts, Whole(ts), NEW R, R = RunningRecuts(ts)
    PROVE  /\ R[0] = {0}
           /\ \A n \in 1 .. Len(ts) : R[n] = RecutEach(R[n - 1], ts[n])
           /\ \A n \in 0 .. Len(ts) : R[n] \in SUBSET Int
<1> DEFINE N == Len(ts)
           Z == SUBSET Int
           start == {0}
           F(h) == [n \in 0 .. N |-> IF n = 0 THEN start ELSE RecutEach(h[n - 1], ts[n])]
           step == [n \in 1 .. N |-> [v \in Z |-> RecutEach(v, ts[n])]]
<1>0. N \in Nat  BY SeqFacts DEF Whole
<1>1. \A i \in 1 .. N : ts[i] \in Int  BY DEF Whole
<1> HIDE DEF N
<1>2. step \in [1 .. N -> [Z -> Z]] /\ start \in Z
  <2>1. ASSUME NEW n \in 1 .. N, NEW v \in Z PROVE RecutEach(v, ts[n]) \in Z
    BY <1>1, RecutEachIs
  <2>2. start \in Z  OBVIOUS
  <2> HIDE DEF Z, start
  <2> QED BY <2>1, <2>2
<1>3. \E f \in [0 .. N -> Z] : Goes(f, N, start, step)
  <2> HIDE DEF step, Z, start
  <2> QED BY <1>0, <1>2, Recursion
<1>4. PICK f \in [0 .. N -> Z] :
         f[0] = start /\ \A n \in 1 .. N : f[n] = step[n][f[n - 1]]
  BY <1>3 DEF Goes
<1>5. \A n \in 1 .. N : f[n] = RecutEach(f[n - 1], ts[n])
  <2> TAKE n \in 1 .. N
  <2>1. n - 1 \in 0 .. N  BY <1>0
  <2>2. f[n - 1] \in Z  BY <2>1
  <2>3. f[n] = step[n][f[n - 1]]  BY <1>4
  <2> HIDE DEF Z
  <2> QED BY <2>2, <2>3
<1>6. f = F(f)
  <2> DEFINE h == F(f)
  <2>1. f = [n \in 0 .. N |-> f[n]] /\ h = [n \in 0 .. N |-> h[n]]  OBVIOUS
  <2>2. \A n \in 0 .. N : f[n] = h[n]
    <3> TAKE n \in 0 .. N
    <3>1. CASE n = 0  BY <3>1, <1>4
    <3>2. CASE n # 0
      <4>1. n \in 1 .. N  BY <1>0, <3>2
      <4> QED BY <4>1, <3>2, <1>5
    <3> QED BY <3>1, <3>2
  <2> HIDE DEF h
  <2>3. f = h  BY <2>1, <2>2
  <2> QED BY <2>3 DEF h
<1>7. R = CHOOSE h : h = F(h)  BY DEF RunningRecuts, RecutEach, N
<1>8. R = F(R)
  <2> HIDE DEF F
  <2> QED BY <1>6, <1>7
<1>9. R[0] = start /\ \A n \in 1 .. N : R[n] = RecutEach(R[n - 1], ts[n])
  <2> HIDE DEF start
  <2> QED BY <1>0, <1>8
<1> DEFINE T == {n \in 0 .. N : R[n] \in Z}
<1>10. 0 \in T  BY <1>0, <1>9
<1>11. ASSUME NEW n \in 0 .. N, n < N, n \in T PROVE n + 1 \in T
  <2> DEFINE m == n + 1
  <2>1. m \in 1 .. N /\ m \in 0 .. N /\ m - 1 = n  BY <1>0, <1>11
  <2> HIDE DEF m
  <2>2. R[m] = RecutEach(R[n], ts[m])  BY <1>9, <2>1
  <2>3. R[m] \in Z  BY <2>1, <2>2, <1>1, <1>11, RecutEachIs
  <2>4. m \in T  BY <2>1, <2>3
  <2> QED BY <2>4 DEF m
<1>12. \A n \in 0 .. N : n \in T
  <2> HIDE DEF T
  <2> QED BY <1>0, <1>10, <1>11, Induction
<1>13. \A n \in 0 .. N : R[n] \in SUBSET Int  BY <1>12
<1> QED BY <1>9, <1>13 DEF N

\* Every cut loses at most a halala.
LEMMA RecutsWithin ==
    ASSUME NEW ts, Naturals(ts), NEW c \in RunningRecuts(ts)[Len(ts)]
    PROVE  c \in Nat /\ c <= Total(ts) /\ Total(ts) - Len(ts) <= c
<1> DEFINE N == Len(ts)
           S == RunningRecuts(ts)
           R == RunningTotal(ts)
           OK(n) == \A d \in S[n] : d \in Nat /\ d <= R[n] /\ R[n] - n <= d
           T == {n \in 0 .. N : OK(n)}
<1>0. N \in Nat /\ Whole(ts)  BY SeqFacts, NaturalsWhole DEF Naturals
<1>1. \A i \in 1 .. N : ts[i] \in Nat  BY DEF Naturals
<1>2. /\ R[0] = 0 /\ \A n \in 1 .. N : R[n] = R[n - 1] + ts[n]
      /\ \A n \in 0 .. N : R[n] \in Int
  BY <1>0, RunningTotalIs
<1>3. S[0] = {0} /\ \A n \in 1 .. N : S[n] = RecutEach(S[n - 1], ts[n])
  BY <1>0, RunningRecutsIs
<1>4. Total(ts) = R[N] /\ c \in S[N]  BY DEF Total
<1> HIDE DEF N, S, R
<1>5. 0 \in T  BY <1>0, <1>2, <1>3
<1>6. ASSUME NEW n \in 0 .. N, n < N, OK(n) PROVE OK(n + 1)
  <2> DEFINE m == n + 1
             t == ts[m]
             g == R[n]
  <2>1. m \in 1 .. N /\ m - 1 = n  BY <1>0, <1>6
  <2>2. m = n + 1 /\ n \in Int  OBVIOUS
  <2> HIDE DEF m
  <2>3. R[m] = g + t /\ S[m] = RecutEach(S[n], t) /\ t \in Nat /\ g \in Int
    BY <2>1, <1>1, <1>2, <1>3
  <2> HIDE DEF t
  <2>4. ASSUME NEW d \in S[m] PROVE d \in Nat /\ d <= R[m] /\ R[m] - m <= d
    <3>1. PICK a \in S[n] : d \in Recut(a, t)  BY <2>3 DEF RecutEach
    <3>2. a \in Nat /\ a <= g /\ g - n <= a  BY <1>6
    <3>3. PICK x \in Plus(Clean(a), Clean(t)) : d \in toFixedNoRounding(x)
      BY <3>1 DEF Recut
    <3>4. Tame(Clean(a)) /\ Tame(Clean(t)) /\ Clean(a).u = a * 10000 /\ Clean(t).u = t * 10000
      BY <3>2, <2>3, TameClean
    <3>5. Tame(x) /\ x.u = a * 10000 + t * 10000  BY <3>3, <3>4, TamePlus
    <3>6. d \in Nat /\ d * 10000 <= x.u /\ x.u <= d * 10000 + 10000
      BY <3>3, <3>5, TameCut
    <3> HIDE DEF g
    <3>7. d <= a + t /\ a + t <= d + 1  BY <3>2, <3>5, <3>6, <2>3
    <3>8. d <= g + t /\ (g + t) - m <= d  BY <3>2, <3>6, <3>7, <2>2, <2>3
    <3> QED BY <3>6, <3>8, <2>3
  <2> QED BY <2>4 DEF m
<1>7. \A n \in 0 .. N : n < N /\ n \in T => n + 1 \in T
  <2> TAKE n \in 0 .. N
  <2> HAVE n < N /\ n \in T
  <2>1. n + 1 \in 0 .. N  BY <1>0
  <2>2. OK(n)  OBVIOUS
  <2> HIDE DEF OK
  <2> QED BY <2>1, <2>2, <1>6
<1>8. \A n \in 0 .. N : n \in T
  <2> HIDE DEF T
  <2> QED BY <1>0, <1>5, <1>7, Induction
<1>9. N \in 0 .. N  BY <1>0
<1>10. OK(N)  BY <1>8, <1>9
<1> QED BY <1>4, <1>10 DEF N

\* The sets of doubles the subtotals of a debit note may add up to.
SumsEach(A, ts) == SumsFrom(A, AllClean(ts))

\* All of them are doubles.
LEMMA SumsEachIs ==
    ASSUME NEW A \in SUBSET Double, NEW ts, Whole(ts)
    PROVE  SumsEach(A, ts) \in SUBSET Double
<1> DEFINE xs == AllClean(ts)
<1>1. Doubles(xs)  BY AllCleanIs
<1> HIDE DEF xs
<1>2. SumsFrom(A, xs) \in SUBSET Double  BY <1>1, SumsFromIs
<1> QED BY <1>2 DEF xs, SumsEach

\* Sequences of sequences of whole numbers.
Wholes(tss) == IsSeq(tss) /\ \A i \in 1 .. Len(tss) : Whole(tss[i])

\* The running sums of a debit note's subtotals go on from line to line.
LEMMA RunningSubtotalsIs ==
    ASSUME NEW tss, Wholes(tss), NEW R, R = RunningSubtotals(tss)
    PROVE  /\ R[0] = {Zero}
           /\ \A n \in 1 .. Len(tss) : R[n] = SumsEach(R[n - 1], tss[n])
<1> DEFINE N == Len(tss)
           Z == SUBSET Double
           start == {Zero}
           F(h) == [n \in 0 .. N |-> IF n = 0 THEN start ELSE SumsEach(h[n - 1], tss[n])]
           step == [n \in 1 .. N |-> [v \in Z |-> SumsEach(v, tss[n])]]
<1>0. N \in Nat  BY SeqFacts DEF Wholes
<1>1. \A i \in 1 .. N : Whole(tss[i])  BY DEF Wholes
<1> HIDE DEF N
<1>2. step \in [1 .. N -> [Z -> Z]] /\ start \in Z
  <2>1. ASSUME NEW n \in 1 .. N, NEW v \in Z PROVE SumsEach(v, tss[n]) \in Z
    BY <1>1, SumsEachIs
  <2>2. start \in Z  BY DEF Zero, Double, Side
  <2> HIDE DEF Z, start
  <2> QED BY <2>1, <2>2
<1>3. \E f \in [0 .. N -> Z] : Goes(f, N, start, step)
  <2> HIDE DEF step, Z, start
  <2> QED BY <1>0, <1>2, Recursion
<1>4. PICK f \in [0 .. N -> Z] :
         f[0] = start /\ \A n \in 1 .. N : f[n] = step[n][f[n - 1]]
  BY <1>3 DEF Goes
<1>5. \A n \in 1 .. N : f[n] = SumsEach(f[n - 1], tss[n])
  <2> TAKE n \in 1 .. N
  <2>1. n - 1 \in 0 .. N  BY <1>0
  <2>2. f[n - 1] \in Z  BY <2>1
  <2>3. f[n] = step[n][f[n - 1]]  BY <1>4
  <2> HIDE DEF Z
  <2> QED BY <2>2, <2>3
<1>6. f = F(f)
  <2> DEFINE h == F(f)
  <2>1. f = [n \in 0 .. N |-> f[n]] /\ h = [n \in 0 .. N |-> h[n]]  OBVIOUS
  <2>2. \A n \in 0 .. N : f[n] = h[n]
    <3> TAKE n \in 0 .. N
    <3>1. CASE n = 0  BY <3>1, <1>4
    <3>2. CASE n # 0
      <4>1. n \in 1 .. N  BY <1>0, <3>2
      <4> QED BY <4>1, <3>2, <1>5
    <3> QED BY <3>1, <3>2
  <2> HIDE DEF h
  <2>3. f = h  BY <2>1, <2>2
  <2> QED BY <2>3 DEF h
<1>7. R = CHOOSE h : h = F(h)  BY DEF RunningSubtotals, SumsEach, N
<1>8. R = F(R)
  <2> HIDE DEF F
  <2> QED BY <1>6, <1>7
<1>9. R[0] = start /\ \A n \in 1 .. N : R[n] = SumsEach(R[n - 1], tss[n])
  <2> HIDE DEF start
  <2> QED BY <1>0, <1>8
<1> QED BY <1>9 DEF N

\* The subtotals of all the lines are added up as doubles.
LEMMA AtSubtotals ==
    ASSUME NEW tss, IsSeq(tss), \A i \in 1 .. Len(tss) : Naturals(tss[i]),
           NEW hs, Naturals(hs), Len(hs) = Len(tss),
           \A i \in 1 .. Len(tss) : hs[i] = Total(tss[i])
    PROVE  Total(hs) \in Nat /\ At(RunningSubtotals(tss)[Len(tss)], Total(hs))
<1> DEFINE N == Len(tss)
           S == RunningSubtotals(tss)
           R == RunningTotal(hs)
           T == {n \in 0 .. N : R[n] \in Nat /\ At(S[n], R[n])}
<1>0. N \in Nat /\ Whole(hs)  BY SeqFacts, NaturalsWhole
<1>1. Wholes(tss)  BY NaturalsWhole DEF Wholes
<1>2. R[0] = 0 /\ \A n \in 1 .. N : R[n] = R[n - 1] + hs[n]
  BY <1>0, RunningTotalIs
<1>3. S[0] = {Zero} /\ \A n \in 1 .. N : S[n] = SumsEach(S[n - 1], tss[n])
  BY <1>1, RunningSubtotalsIs
<1>4. Total(hs) = R[N]  BY DEF Total
<1>5. \A i \in 1 .. N : Naturals(tss[i]) /\ hs[i] = Total(tss[i])  OBVIOUS
<1> HIDE DEF N, S, R
<1>6. 0 \in T
  <2>1. Tame(Zero) /\ Zero.u = 0 * 10000  BY DEF Tame, Zero, Double, Side
  <2>2. At(S[0], 0)  BY <2>1, <1>3 DEF At
  <2> QED BY <1>0, <1>2, <2>2
<1>7. ASSUME NEW n \in 0 .. N, n < N, n \in T PROVE n + 1 \in T
  <2> DEFINE m == n + 1
  <2>1. m \in 1 .. N /\ m \in 0 .. N /\ m - 1 = n  BY <1>0, <1>7
  <2> HIDE DEF m
  <2>2. /\ R[m] = R[n] + Total(tss[m]) /\ S[m] = SumsFrom(S[n], AllClean(tss[m]))
        /\ Naturals(tss[m])
    BY <2>1, <1>2, <1>3, <1>5 DEF SumsEach
  <2>3. R[n] \in Nat /\ At(S[n], R[n])  BY <1>7
  <2>4. Total(tss[m]) \in Nat /\ At(S[m], R[m])  BY <2>2, <2>3, AtSums
  <2>5. R[m] \in Nat  BY <2>2, <2>3, <2>4
  <2>6. m \in T  BY <2>1, <2>4, <2>5
  <2> QED BY <2>6 DEF m
<1>8. \A n \in 0 .. N : n \in T
  <2> HIDE DEF T
  <2> QED BY <1>0, <1>6, <1>7, Induction
<1>9. N \in 0 .. N  BY <1>0
<1> QED BY <1>4, <1>8, <1>9 DEF S, N

-----------------------------------------------------------------------------
(* Lines. *)

\* An item has at least one rate.
LEMMA RatesAre ==
    ASSUME NEW item \in LineItem
    PROVE  Naturals(Rates(item)) /\ Len(Rates(item)) >= 1
<1> DEFINE v == item.vatPercent
           o == item.otherTaxes
<1>1. v \in Nat /\ o \in Seq(Nat)  BY DEF LineItem
<1>2. Rates(item) = <<v>> \o o  BY DEF Rates
<1> HIDE DEF v, o
<1>3. <<v>> \in Seq(Nat)  BY <1>1
<1>4. <<v>> \o o \in Seq(Nat) /\ Len(<<v>> \o o) = Len(<<v>>) + Len(o)
  BY <1>1, <1>3, ConcatProperties
<1> DEFINE r == <<v>> \o o
<1>5. Len(o) \in Nat /\ Len(<<v>>) = 1  BY <1>1
<1>6. r \in Seq(Nat) /\ Len(r) >= 1  BY <1>4, <1>5
<1> HIDE DEF r
<1>7. IsSeq(r) /\ \A i \in 1 .. Len(r) : r[i] \in Nat  BY <1>6 DEF IsSeq
<1> QED BY <1>2, <1>6, <1>7 DEF r, Naturals

\* One amount for each rate.
LEMMA TaxesAre ==
    ASSUME NEW item \in LineItem, NEW x, NEW ts \in Taxes(item, x)
    PROVE  /\ IsSeq(ts) /\ Len(ts) = Len(Rates(item))
           /\ \A i \in 1 .. Len(ts) : ts[i] \in Cuts(x, Rates(item)[i])
<1> DEFINE r == Rates(item)
<1>1. IsSeq(r)  BY RatesAre DEF Naturals
<1>2. /\ ts = [i \in DOMAIN r |-> ts[i]]
      /\ \A i \in DOMAIN r : ts[i] \in Cuts(x, r[i])
  BY DEF Taxes, OneOfEach
<1> HIDE DEF r
<1>3. IsSeq(ts) /\ Len(ts) = Len(r)  BY <1>1, <1>2, MappedLength
<1>4. DOMAIN r = 1 .. Len(ts)  BY <1>1, <1>3, SeqFacts
<1> QED BY <1>2, <1>3, <1>4 DEF r

\* The taxes on a double are whole.
LEMMA TaxesWhole ==
    ASSUME NEW item \in LineItem, NEW x \in Double, NEW ts \in Taxes(item, x)
    PROVE  Whole(ts)
<1> DEFINE r == Rates(item)
<1>1. /\ IsSeq(ts) /\ Len(ts) = Len(r)
      /\ \A i \in 1 .. Len(ts) : ts[i] \in Cuts(x, r[i])
  BY TaxesAre
<1>2. \A i \in 1 .. Len(r) : r[i] \in Nat  BY RatesAre DEF Naturals
<1> HIDE DEF r
<1>3. ASSUME NEW i \in 1 .. Len(ts) PROVE ts[i] \in Int
  <2>1. r[i] \in Nat  BY <1>1, <1>2
  <2>2. PICK t \in Percent(x, r[i]) : ts[i] \in toFixedNoRounding(t)  BY <1>1 DEF Cuts
  <2>3. t \in Double  BY <2>1, PercentIs
  <2> QED BY <2>2, <2>3, CutIs
<1> QED BY <1>1, <1>3 DEF Whole

\* The net amount of a line is a double.
LEMMA NetsAre ==
    ASSUME NEW item \in LineItem, NEW net \in Nets(item)
    PROVE  net \in Double
<1> DEFINE ds == item.discounts
<1>1. PICK a \in Times(item.price, item.quantity), d \in Sums(ds) : net \in Plus(a, Neg(d))
  BY DEF Nets
<1>2. item.price \in Double /\ item.quantity \in Nat /\ ds \in Seq(Double)  BY DEF LineItem
<1>3. a \in Double  BY <1>2, TimesIs
<1> HIDE DEF ds
<1>4. Doubles(ds)  BY <1>2 DEF Doubles, IsSeq
<1>5. {Zero} \in SUBSET Double  BY DEF Zero, Double, Side
<1>6. Sums(ds) \in SUBSET Double  BY <1>4, <1>5, SumsFromIs DEF Sums
<1>7. Neg(d) \in Double  BY <1>6, NegIs
<1> QED BY <1>1, <1>3, <1>7, PlusIs

\* A line as one of the two families computes it.
LineOK(l, debit) ==
    /\ l.item \in LineItem /\ l.net \in Double
    /\ l.subtotal \in toFixedNoRounding(l.net)
    /\ l.taxes \in Taxes(l.item, Clean(l.subtotal))
    /\ IF debit
       THEN \E x \in Sums(AllClean(l.taxes)) : l.total \in toFixedNoRounding(x)
       ELSE l.total \in RunningRecuts(l.taxes)[Len(l.taxes)]

\* buildInvoiceLineItemTotals.
LEMMA InvoiceLineIs ==
    ASSUME NEW item \in LineItem, NEW net \in Nets(item),
           NEW l \in buildInvoiceLineItemTotals(item, net), NEW debit, debit = FALSE
    PROVE  LineOK(l, debit)
<1> DEFINE yes == TRUE
<1>0. l \in UNION {UNION {{LineOf(item, net, s, ts, sum, yes) :
                     sum \in RunningRecuts(ts)[Len(ts)]} :
                    ts \in Taxes(item, Clean(s))} :
             s \in toFixedNoRounding(net)}
  BY DEF buildInvoiceLineItemTotals
<1> HIDE DEF yes
<1>1. PICK s \in toFixedNoRounding(net) :
        \E ts \in Taxes(item, Clean(s)) : \E sum \in RunningRecuts(ts)[Len(ts)] :
           l = LineOf(item, net, s, ts, sum, yes)
  BY <1>0
<1>2. PICK ts \in Taxes(item, Clean(s)) : \E sum \in RunningRecuts(ts)[Len(ts)] :
           l = LineOf(item, net, s, ts, sum, yes)
  BY <1>1
<1>3. PICK sum \in RunningRecuts(ts)[Len(ts)] : l = LineOf(item, net, s, ts, sum, yes)
  BY <1>2
<1>4. /\ l.item = item /\ l.net = net /\ l.subtotal = s /\ l.taxes = ts /\ l.total = sum
  BY <1>3 DEF LineOf
<1>5. net \in Double  BY NetsAre
<1> QED BY <1>4, <1>5 DEF LineOK

\* buildDebitNoteLineItemTotals.
LEMMA DebitLineIs ==
    ASSUME NEW item \in LineItem, NEW net \in Nets(item), NEW rounding,
           NEW l \in buildDebitNoteLineItemTotals(item, net, rounding), NEW debit, debit = TRUE
    PROVE  LineOK(l, debit)
<1>1. PICK s \in toFixedNoRounding(net) :
        \E ts \in Taxes(item, Clean(s)) : \E x \in Sums(AllClean(ts)) :
           \E sum \in toFixedNoRounding(x) :
               l = LineOf(item, net, s, ts, sum, rounding)
  BY DEF buildDebitNoteLineItemTotals
<1>2. PICK ts \in Taxes(item, Clean(s)) : \E x \in Sums(AllClean(ts)) :
           \E sum \in toFixedNoRounding(x) :
               l = LineOf(item, net, s, ts, sum, rounding)
  BY <1>1
<1>3. PICK x \in Sums(AllClean(ts)) : \E sum \in toFixedNoRounding(x) :
               l = LineOf(item, net, s, ts, sum, rounding)
  BY <1>2
<1>4. PICK sum \in toFixedNoRounding(x) : l = LineOf(item, net, s, ts, sum, rounding)
  BY <1>3
<1>5. /\ l.item = item /\ l.net = net /\ l.subtotal = s /\ l.taxes = ts /\ l.total = sum
  BY <1>4 DEF LineOf
<1>6. net \in Double  BY NetsAre
<1> QED BY <1>5, <1>6 DEF LineOK

\* The amounts of a line are whole halalas.
LEMMA LineWhole ==
    ASSUME NEW l, NEW debit \in BOOLEAN, LineOK(l, debit)
    PROVE  l.subtotal \in Int /\ l.total \in Int /\ Whole(l.taxes) /\ l.net.e \in Side
<1> DEFINE s == l.subtotal
           ts == l.taxes
<1>1. l.item \in LineItem /\ l.net \in Double /\ s \in toFixedNoRounding(l.net)
      /\ ts \in Taxes(l.item, Clean(s))
  BY DEF LineOK
<1>2. s \in Int  BY <1>1, CutIs
<1>3. Clean(s) \in Double  BY <1>2, CleanIs
<1>4. Whole(ts)  BY <1>1, <1>3, TaxesWhole
<1>5. l.net.e \in Side  BY <1>1 DEF Double
<1>6. CASE debit
  <2> DEFINE xs == AllClean(ts)
  <2>1. PICK x \in Sums(xs) : l.total \in toFixedNoRounding(x)  BY <1>6 DEF LineOK
  <2>2. Doubles(xs)  BY <1>4, AllCleanIs
  <2>3. {Zero} \in SUBSET Double  BY DEF Zero, Double, Side
  <2> HIDE DEF xs
  <2>4. Sums(xs) \in SUBSET Double  BY <2>2, <2>3, SumsFromIs DEF Sums
  <2>5. l.total \in Int  BY <2>1, <2>4, CutIs
  <2> QED BY <1>2, <1>4, <1>5, <2>5
<1>7. CASE ~debit
  <2>1. l.total \in RunningRecuts(ts)[Len(ts)]  BY <1>7 DEF LineOK
  <2> HIDE DEF ts
  <2>2. Len(ts) \in Nat  BY <1>4, SeqFacts DEF Whole
  <2>3. Len(ts) \in 0 .. Len(ts)  BY <2>2
  <2>4. RunningRecuts(ts)[Len(ts)] \in SUBSET Int  BY <1>4, <2>3, RunningRecutsIs
  <2>5. l.total \in Int  BY <2>1, <2>4
  <2> QED BY <1>2, <1>4, <1>5, <2>5 DEF ts
<1> QED BY <1>6, <1>7

\* A percentage of nothing, or of a hundredth of a halala or more, is tame.
LEMMA TamePercent ==
    ASSUME NEW x \in Double, x = Zero \/ x.u >= 100, NEW p \in Nat, NEW z \in Percent(x, p)
    PROVE  Tame(z) /\ z.u = (x.u * p) \div 100
<1>1. /\ z \in Double /\ z.u = (x.u * p) \div 100
      /\ p = 0 => z = Zero
      /\ x = Zero => z = Zero
  BY PercentIs
<1>2. Tame(Zero)  BY DEF Tame, Zero, Double, Side
<1>3. CASE p = 0 \/ x = Zero  BY <1>1, <1>2, <1>3
<1>4. CASE p >= 1 /\ x.u >= 100
  <2> DEFINE k == x.u * p
  <2>1. x.u \in Int  BY DEF Double
  <2>2. k \in Int /\ k >= 100
    <3> DEFINE u == x.u
    <3>1. u \in Int /\ u >= 100 /\ p \in Int /\ p >= 1  BY <1>4, <2>1
    <3> HIDE DEF u
    <3>2. u * p >= 100 /\ u * p \in Int
      <4>1. u * p = (u - 100) * (p - 1) + 100 * (p - 1) + u  BY <3>1
      <4>2. (u - 100) * (p - 1) >= 0  BY <3>1
      <4>3. u * p \in Int  BY <3>1
      <4> QED BY <4>1, <4>2, <4>3, <3>1
    <3> QED BY <3>2 DEF u
  <2> HIDE DEF k
  <2>3. k \div 100 \in Int /\ k < 100 * (k \div 100) + 100  BY <2>2, Division
  <2> DEFINE q == k \div 100
  <2>4. q \in Int /\ q >= 1
    <3>1. q \in Int /\ k < 100 * q + 100  BY <2>3
    <3> HIDE DEF q
    <3> QED BY <2>2, <3>1
  <2>5. z.u = q  BY <1>1 DEF k
  <2> HIDE DEF q
  <2>6. z.u >= 0 /\ z.u # 0  BY <2>4, <2>5
  <2> QED BY <1>1, <2>6 DEF Tame
<1>5. p = 0 \/ p >= 1  OBVIOUS
<1> QED BY <1>3, <1>4, <1>5

\* What a tax of less than 100% makes of an amount and of the amount cut.
LEMMA PercentWithin ==
    ASSUME NEW u \in Nat, NEW s \in Nat, NEW p \in Nat, p < 100,
           s * 10000 <= u, u <= s * 10000 + 10000
    PROVE  LET y == ((s * 10000) * p) \div 100
               z == (u * p) \div 100
           IN  y \in Int /\ z \in Int /\ y <= z /\ z <= y + 9900
<1> DEFINE v == s * 10000
           d == u - v
           A == v * p
           B == u * p
           D == d * p
           y == A \div 100
           z == B \div 100
<1>1. v \in Nat /\ d \in Nat /\ d <= 10000 /\ u = v + d  OBVIOUS
<1>2. A \in Int /\ D \in Int /\ B = A + D
  <2> HIDE DEF v, d
  <2> QED BY <1>1
<1>3. D >= 0 /\ D <= 990000
  <2> HIDE DEF v, d
  <2>1. D >= 0  BY <1>1
  <2>2. (10000 - d) * p >= 0  BY <1>1
  <2>3. (10000 - d) * p = 10000 * p - d * p  BY <1>1
  <2>4. d * p \in Int /\ 10000 * p \in Int  BY <1>1
  <2>5. 10000 * p <= 990000  OBVIOUS
  <2> QED BY <2>1, <2>2, <2>3, <2>4, <2>5
<1>4. B \in Int  BY <1>2
<1> HIDE DEF A, B, D
<1>5. y \in Int /\ 100 * y <= A /\ A < 100 * y + 100  BY <1>2, Division
<1>6. z \in Int /\ 100 * z <= B /\ B < 100 * z + 100  BY <1>4, Division
<1> HIDE DEF y, z
<1>7. y \in Int /\ z \in Int /\ y <= z /\ z <= y + 9900
  BY <1>2, <1>3, <1>5, <1>6
<1> QED BY <1>7 DEF y, z, A, B, v

\* The tax on a net amount and the tax on the amount cut differ by a halala.
LEMMA TaxWithin ==
    ASSUME NEW x \in Double, x = Zero \/ x.u >= 100,
           NEW s \in toFixedNoRounding(x), NEW p \in Nat, p < 100,
           NEW c \in Cuts(Clean(s), p), NEW r \in Cuts(x, p)
    PROVE  s \in Nat /\ c \in Nat /\ r \in Nat /\ c - 1 <= r /\ r <= c + 1
<1>1. Tame(x)  BY DEF Tame, Zero, Double
<1>2. s \in Nat /\ s * 10000 <= x.u /\ x.u <= s * 10000 + 10000  BY <1>1, TameCut
<1>3. Clean(s) \in Double /\ Clean(s).u = s * 10000 /\ (s = 0 => Clean(s) = Zero)
  BY <1>2, CleanIs
<1>4. Clean(s) = Zero \/ Clean(s).u >= 100  BY <1>2, <1>3
<1>5. PICK y \in Percent(Clean(s), p) : c \in toFixedNoRounding(y)  BY DEF Cuts
<1>6. PICK z \in Percent(x, p) : r \in toFixedNoRounding(z)  BY DEF Cuts
<1>7. Tame(y) /\ y.u = (Clean(s).u * p) \div 100  BY <1>3, <1>4, <1>5, TamePercent
<1>8. Tame(z) /\ z.u = (x.u * p) \div 100  BY <1>6, TamePercent
<1>9. c \in Nat /\ c * 10000 <= y.u /\ y.u <= c * 10000 + 10000  BY <1>5, <1>7, TameCut
<1>10. r \in Nat /\ r * 10000 <= z.u /\ z.u <= r * 10000 + 10000  BY <1>6, <1>8, TameCut
<1>11. y.u \in Int /\ z.u \in Int /\ y.u <= z.u /\ z.u <= y.u + 9900
  <2> DEFINE u == x.u
  <2>1. u \in Nat /\ s * 10000 <= u /\ u <= s * 10000 + 10000
    BY <1>1, <1>2 DEF Tame, Double
  <2>2. y.u = ((s * 10000) * p) \div 100 /\ z.u = (u * p) \div 100
    BY <1>3, <1>7, <1>8
  <2> HIDE DEF u
  <2> DEFINE Y == ((s * 10000) * p) \div 100
             V == (u * p) \div 100
  <2>3. Y \in Int /\ V \in Int /\ Y <= V /\ V <= Y + 9900
    BY <1>2, <2>1, PercentWithin
  <2> HIDE DEF Y, V
  <2>4. y.u = Y /\ z.u = V  BY <2>2 DEF Y, V
  <2> QED BY <2>3, <2>4
<1> DEFINE Y == y.u
           V == z.u
<1>12. /\ Y \in Int /\ V \in Int /\ Y <= V /\ V <= Y + 9900
       /\ c * 10000 <= Y /\ Y <= c * 10000 + 10000
       /\ r * 10000 <= V /\ V <= r * 10000 + 10000
  BY <1>9, <1>10, <1>11
<1> HIDE DEF Y, V
<1>13. c - 1 <= r /\ r <= c + 1  BY <1>9, <1>10, <1>12
<1> QED BY <1>2, <1>9, <1>10, <1>13

\* Elements that differ by at most one have sums that differ by at most their
\* number.
LEMMA TotalsNear ==
    ASSUME NEW a, NEW b, Whole(a), Whole(b), Len(a) = Len(b),
           \A i \in 1 .. Len(b) : b[i] - 1 <= a[i] /\ a[i] <= b[i] + 1
    PROVE  Total(b) - Len(b) <= Total(a) /\ Total(a) <= Total(b) + Len(b)
<1> DEFINE N == Len(b)
           A == RunningTotal(a)
           B == RunningTotal(b)
           T == {n \in 0 .. N : B[n] - n <= A[n] /\ A[n] <= B[n] + n}
<1>0. N \in Nat  BY SeqFacts DEF Whole
<1>1. /\ A[0] = 0 /\ \A n \in 1 .. N : A[n] = A[n - 1] + a[n]
      /\ \A n \in 0 .. N : A[n] \in Int
  BY RunningTotalIs
<1>2. /\ B[0] = 0 /\ \A n \in 1 .. N : B[n] = B[n - 1] + b[n]
      /\ \A n \in 0 .. N : B[n] \in Int
  BY RunningTotalIs
<1>3. \A i \in 1 .. N : a[i] \in Int /\ b[i] \in Int  BY DEF Whole
<1>4. \A i \in 1 .. N : b[i] - 1 <= a[i] /\ a[i] <= b[i] + 1  OBVIOUS
<1>5. Total(a) = A[N] /\ Total(b) = B[N]  BY DEF Total
<1> HIDE DEF N, A, B
<1>6. 0 \in T  BY <1>0, <1>1, <1>2
<1>7. ASSUME NEW n \in 0 .. N, n < N, n \in T PROVE n + 1 \in T
  <2> DEFINE m == n + 1
             x == A[n]
             y == B[n]
             p == a[m]
             q == b[m]
  <2>1. m \in 1 .. N /\ m \in 0 .. N /\ m - 1 = n /\ m = n + 1 /\ n \in Int
    BY <1>0, <1>7
  <2>2. x \in Int /\ y \in Int /\ y - n <= x /\ x <= y + n  BY <1>1, <1>2, <1>7
  <2> HIDE DEF m
  <2>3. A[m] = x + p /\ B[m] = y + q /\ p \in Int /\ q \in Int /\ q - 1 <= p /\ p <= q + 1
    BY <2>1, <1>1, <1>2, <1>3, <1>4
  <2> HIDE DEF x, y, p, q
  <2>4. (y + q) - m <= x + p /\ x + p <= (y + q) + m  BY <2>1, <2>2, <2>3
  <2>5. B[m] - m <= A[m] /\ A[m] <= B[m] + m  BY <2>3, <2>4, Zenon
  <2>6. m \in T  BY <2>1, <2>5
  <2> QED BY <2>6 DEF m
<1>8. \A n \in 0 .. N : n \in T
  <2> HIDE DEF T
  <2> QED BY <1>0, <1>6, <1>7, Induction
<1>9. N \in 0 .. N  BY <1>0
<1>10. B[N] - N <= A[N] /\ A[N] <= B[N] + N  BY <1>8, <1>9
<1> QED BY <1>5, <1>10 DEF N

\* Faults of the cuts that add up, in a line of n taxes: a is the sum of the taxes
\* on the net amount, b of those on the cut amount, c the cut sum.
LEMMA LineArithmetic ==
    ASSUME NEW a \in Int, NEW b \in Int, NEW c \in Int, NEW n \in Nat,
           b - n <= a, a <= b + n, c <= b, b - n <= c
    PROVE  c - n <= a /\ a <= c + 2 * n
OBVIOUS

\* The taxes of an ordinary line, on the net amount and on the subtotal.
LEMMA LineWithin ==
    ASSUME NEW l, NEW debit \in BOOLEAN, LineOK(l, debit), Ordinary(l),
           NEW rs \in TaxSubtotals(l)
    PROVE  /\ l.subtotal \in Nat /\ l.total \in Nat /\ Naturals(rs) /\ Len(rs) >= 1
           /\ l.total - Len(rs) <= Total(rs) /\ Total(rs) <= l.total + 2 * Len(rs)
<1> DEFINE s == l.subtotal
           ts == l.taxes
           ps == Rates(l.item)
           x == l.net
           m == Len(ps)
<1>1. /\ l.item \in LineItem /\ x \in Double /\ s \in toFixedNoRounding(x)
      /\ ts \in Taxes(l.item, Clean(s))
  BY DEF LineOK
<1>2. x = Zero \/ x.u >= 100  BY DEF Ordinary
<1>3. Tame(x)  BY <1>1, <1>2 DEF Tame, Zero, Double
<1>4. s \in Nat  BY <1>1, <1>3, TameCut
<1>5. m \in Nat /\ m >= 1 /\ DOMAIN ps = 1 .. m /\ \A i \in 1 .. m : ps[i] \in Nat
  BY <1>1, RatesAre, SeqFacts DEF Naturals
<1>6. \A i \in 1 .. m : ps[i] < 100  BY <1>5 DEF Ordinary
<1>7. IsSeq(ts) /\ Len(ts) = m /\ \A i \in 1 .. m : ts[i] \in Cuts(Clean(s), ps[i])
  BY <1>1, TaxesAre
<1>8. \/ rs = ts
      \/ IsSeq(rs) /\ Len(rs) = m /\ \A i \in 1 .. m : rs[i] \in Cuts(x, ps[i])
  <2>1. rs = ts \/ rs \in Taxes(l.item, x)  BY DEF TaxSubtotals
  <2> QED BY <2>1, <1>1, TaxesAre
<1> HIDE DEF s, ts, ps, x, m
<1>9. ASSUME NEW i \in 1 .. m PROVE ts[i] \in Nat
  <2>1. Clean(s) \in Double /\ (Clean(s) = Zero \/ Clean(s).u >= 100)
    <3>1. Clean(s) \in Double /\ Clean(s).u = s * 10000 /\ (s = 0 => Clean(s) = Zero)
      BY <1>4, CleanIs
    <3>2. s = 0 \/ s * 10000 >= 100  BY <1>4
    <3> QED BY <3>1, <3>2
  <2>2. PICK y \in Percent(Clean(s), ps[i]) : ts[i] \in toFixedNoRounding(y)
    BY <1>7 DEF Cuts
  <2>3. Tame(y)  BY <1>5, <2>1, <2>2, TamePercent
  <2> QED BY <2>2, <2>3, TameCut
<1>10. Naturals(ts)  BY <1>7, <1>9 DEF Naturals
<1>11. ASSUME NEW i \in 1 .. m
       PROVE  rs[i] \in Nat /\ ts[i] - 1 <= rs[i] /\ rs[i] <= ts[i] + 1
  <2>1. CASE rs = ts
    <3> DEFINE t == ts[i]
    <3>1. t \in Nat  BY <1>9
    <3> HIDE DEF t
    <3>2. t \in Nat /\ t - 1 <= t /\ t <= t + 1  BY <3>1
    <3> QED BY <2>1, <3>2 DEF t
  <2>2. CASE IsSeq(rs) /\ Len(rs) = m /\ \A k \in 1 .. m : rs[k] \in Cuts(x, ps[k])
    <3> DEFINE r == rs[i]
               c == ts[i]
               p == ps[i]
    <3>1. r \in Cuts(x, p) /\ c \in Cuts(Clean(s), p) /\ p \in Nat /\ p < 100
      BY <2>2, <1>5, <1>6, <1>7
    <3> HIDE DEF r, c, p
    <3>2. r \in Nat /\ c - 1 <= r /\ r <= c + 1  BY <3>1, <1>1, <1>2, TaxWithin
    <3> QED BY <3>2 DEF r, c
  <2> QED BY <1>8, <2>1, <2>2
<1>12. IsSeq(rs) /\ Len(rs) = m  BY <1>7, <1>8
<1>13. Naturals(rs)  BY <1>11, <1>12 DEF Naturals
<1>14. Whole(rs) /\ Whole(ts)  BY <1>10, <1>13, NaturalsWhole
<1>15. Total(rs) \in Int /\ Total(ts) \in Int  BY <1>14, TotalIs
<1>16. Total(ts) - m <= Total(rs) /\ Total(rs) <= Total(ts) + m
  <2>1. Len(rs) = Len(ts)  BY <1>7, <1>12
  <2>2. \A i \in 1 .. Len(ts) : ts[i] - 1 <= rs[i] /\ rs[i] <= ts[i] + 1  BY <1>7, <1>11
  <2>3. Total(ts) - Len(ts) <= Total(rs) /\ Total(rs) <= Total(ts) + Len(ts)
    BY <1>14, <2>1, <2>2, TotalsNear
  <2> QED BY <1>7, <2>3
<1> DEFINE c == l.total
<1>17. c \in Nat /\ c <= Total(ts) /\ Total(ts) - m <= c
  <2>1. CASE debit
    <3>1. PICK y \in SumsFrom({Zero}, AllClean(ts)) : c \in toFixedNoRounding(y)
      BY <2>1 DEF LineOK, Sums, ts
    <3>2. At({Zero}, 0)  BY DEF At, Tame, Zero, Double, Side
    <3> DEFINE z == 0
               start == {Zero}
    <3>3. z \in Nat /\ At(start, z)  BY <3>2
    <3> HIDE DEF z
    <3>4. Total(ts) \in Nat /\ At(SumsFrom(start, AllClean(ts)), z + Total(ts))
      <4> HIDE DEF start
      <4> QED BY <1>10, <3>3, AtSums
    <3>5. z + Total(ts) = Total(ts)  BY <3>4 DEF z
    <3>6. Tame(y) /\ y.u = Total(ts) * 10000  BY <3>1, <3>4, <3>5 DEF At
    <3>7. c \in Nat /\ c * 10000 <= y.u /\ y.u <= c * 10000 + 10000
      BY <3>1, <3>6, TameCut
    <3> DEFINE t == Total(ts)
    <3>8. t \in Nat /\ c * 10000 <= t * 10000 /\ t * 10000 <= c * 10000 + 10000
      BY <3>4, <3>6, <3>7
    <3> HIDE DEF t, c
    <3>9. c <= t /\ t - m <= c  BY <3>7, <3>8, <1>5
    <3> QED BY <3>7, <3>9 DEF t
  <2>2. CASE ~debit
    <3>1. c \in RunningRecuts(ts)[Len(ts)]  BY <2>2 DEF LineOK, ts
    <3> HIDE DEF c
    <3> QED BY <3>1, <1>7, <1>10, RecutsWithin
  <2> QED BY <2>1, <2>2
<1> HIDE DEF c
<1>18. c - m <= Total(rs) /\ Total(rs) <= c + 2 * m
  <2> DEFINE a == Total(rs)
             b == Total(ts)
  <2>1. a \in Int /\ b \in Int /\ c \in Int /\ b - m <= a /\ a <= b + m /\ c <= b /\ b - m <= c
    BY <1>15, <1>16, <1>17
  <2> HIDE DEF a, b
  <2>2. c - m <= a /\ a <= c + 2 * m  BY <1>5, <2>1, LineArithmetic
  <2> QED BY <2>2 DEF a
<1> QED BY <1>4, <1>5, <1>12, <1>13, <1>17, <1>18 DEF c, s

-----------------------------------------------------------------------------
(* The totals of a document. *)

\* The subtotals of a document, line by line.
LEMMA SubtotalsAre ==
    ASSUME NEW ls, IsSeq(ls), NEW tss \in AllSubtotals(ls)
    PROVE  /\ IsSeq(tss) /\ Len(tss) = Len(ls)
           /\ \A i \in 1 .. Len(ls) : tss[i] \in TaxSubtotals(ls[i])
<1>1. /\ tss = [i \in DOMAIN ls |-> tss[i]]
      /\ \A i \in DOMAIN ls : tss[i] \in TaxSubtotals(ls[i])
  BY DEF AllSubtotals, OneOfEach
<1>2. IsSeq(tss) /\ Len(tss) = Len(ls)  BY <1>1, MappedLength
<1>3. DOMAIN ls = 1 .. Len(ls)  BY SeqFacts
<1> QED BY <1>1, <1>2, <1>3

\* The sum of natural numbers is one.
LEMMA NaturalTotal ==
    ASSUME NEW ts, Naturals(ts)
    PROVE  Total(ts) \in Nat
<1> DEFINE none == {}
           z == 0
<1>1. At(none, z) /\ z \in Nat  BY DEF At
<1> HIDE DEF none, z
<1> QED BY <1>1, AtSums

\* Positive numbers add up to at least their number.
LEMMA TotalAtLeast ==
    ASSUME NEW ts, Naturals(ts), \A i \in 1 .. Len(ts) : ts[i] >= 1
    PROVE  Total(ts) >= Len(ts)
<1> DEFINE R == RunningTotal(ts)
           N == Len(ts)
           T == {n \in 0 .. N : R[n] >= n}
<1>1. N \in Nat /\ Whole(ts)  BY SeqFacts, NaturalsWhole DEF Naturals
<1>2. /\ R[0] = 0
      /\ \A n \in 1 .. N : R[n] = R[n - 1] + ts[n]
      /\ \A n \in 0 .. N : R[n] \in Int
  BY <1>1, RunningTotalIs
<1>3. \A n \in 1 .. N : ts[n] \in Nat /\ ts[n] >= 1  BY DEF Naturals
<1> HIDE DEF R, N
<1>4. 0 \in T  BY <1>1, <1>2
<1>5. ASSUME NEW n \in 0 .. N, n < N, n \in T PROVE n + 1 \in T
  <2> DEFINE k == n + 1
             p == R[n]
             q == R[k]
             t == ts[k]
  <2>1. k \in 1 .. N /\ k \in 0 .. N /\ k - 1 = n  BY <1>1, <1>5
  <2>2. q = p + t /\ t \in Nat /\ t >= 1 /\ p \in Int /\ p >= n  BY <1>2, <1>3, <1>5, <2>1
  <2> HIDE DEF p, q, t
  <2>3. q >= k  BY <2>2
  <2> QED BY <2>1, <2>3 DEF q
<1> HIDE DEF T
<1>6. \A n \in 0 .. N : n \in T  BY <1>1, <1>4, <1>5, Induction
<1>7. N \in 0 .. N  BY <1>1
<1>8. N \in T  BY <1>6, <1>7
<1>9. R[N] >= N  BY <1>8 DEF T
<1> QED BY <1>9 DEF Total, R, N

Lens(tss) == [i \in DOMAIN tss |-> Len(tss[i])]

\* The taxes of the lines, as the tax total adds them up, are within two halalas
\* per tax of the lines' own sums.
LEMMA SubtotalsWithin ==
    ASSUME NEW ls, IsSeq(ls), NEW debit \in BOOLEAN,
           \A i \in 1 .. Len(ls) : LineOK(ls[i], debit) /\ Ordinary(ls[i]),
           NEW tss \in AllSubtotals(ls), NEW taxes, IsSeq(taxes), Len(taxes) = Len(ls),
           \A i \in 1 .. Len(ls) : taxes[i] = ls[i].total,
           NEW hs, hs = LineTotals(tss), NEW ns, ns = Lens(tss)
    PROVE  /\ Naturals(taxes) /\ Naturals(hs) /\ Naturals(ns)
           /\ Len(hs) = Len(tss) /\ \A i \in 1 .. Len(tss) : hs[i] = Total(tss[i])
           /\ \A i \in 1 .. Len(tss) : Naturals(tss[i])
           /\ Total(ns) >= Len(ls)
           /\ Total(taxes) - Total(ns) <= Total(hs)
           /\ Total(hs) <= Total(taxes) + 2 * Total(ns)
<1> DEFINE N == Len(ls)
<1>1. /\ N \in Nat /\ IsSeq(tss) /\ Len(tss) = N
      /\ \A i \in 1 .. N : tss[i] \in TaxSubtotals(ls[i])
  BY SeqFacts, SubtotalsAre
<1>2. DOMAIN tss = 1 .. N  BY <1>1, SeqFacts
<1>3. hs = [i \in 1 .. N |-> Total(tss[i])] /\ ns = [i \in 1 .. N |-> Len(tss[i])]
  BY <1>2 DEF LineTotals, Lens
<1>4. /\ IsSeq(hs) /\ Len(hs) = N /\ \A i \in 1 .. N : hs[i] = Total(tss[i])
      /\ IsSeq(ns) /\ Len(ns) = N /\ \A i \in 1 .. N : ns[i] = Len(tss[i])
  <2> HIDE DEF N
  <2>1. \A i \in 1 .. N : hs[i] = Total(tss[i]) /\ ns[i] = Len(tss[i])  BY <1>3
  <2>2. hs = [i \in 1 .. N |-> hs[i]] /\ ns = [i \in 1 .. N |-> ns[i]]  BY <1>3
  <2> QED BY <1>1, <2>1, <2>2, FunctionIsSeq
<1>5. ASSUME NEW i \in 1 .. N
      PROVE  /\ taxes[i] \in Nat /\ Naturals(tss[i]) /\ ns[i] \in Nat /\ ns[i] >= 1
             /\ hs[i] \in Nat
             /\ taxes[i] - ns[i] <= hs[i] /\ hs[i] <= taxes[i] + 2 * ns[i]
  <2> DEFINE l == ls[i]
             rs == tss[i]
             t == l.total
             n == Len(rs)
             h == Total(rs)
  <2>1. LineOK(l, debit) /\ Ordinary(l) /\ rs \in TaxSubtotals(l)  BY <1>1
  <2>2. taxes[i] = t /\ ns[i] = n /\ hs[i] = h  BY <1>4
  <2> HIDE DEF l, rs
  <2>3. t \in Nat /\ Naturals(rs) /\ n >= 1 /\ t - n <= h /\ h <= t + 2 * n
    BY <2>1, LineWithin
  <2>4. n \in Nat /\ h \in Nat  BY <2>3, SeqFacts, NaturalTotal DEF Naturals
  <2> HIDE DEF t, n, h
  <2> QED BY <2>2, <2>3, <2>4 DEF rs
<1>6. Naturals(taxes) /\ Naturals(hs) /\ Naturals(ns)  BY <1>4, <1>5 DEF Naturals
<1>7. Whole(taxes) /\ Whole(hs) /\ Whole(ns)  BY <1>6, NaturalsWhole
<1>8. \A i \in 1 .. Len(taxes) : taxes[i] - ns[i] <= hs[i] /\ hs[i] <= taxes[i] + 2 * ns[i]
  BY <1>5
<1>9. Len(hs) = Len(taxes) /\ Len(ns) = Len(taxes)  BY <1>4
<1>10. /\ Total(taxes) - Total(ns) <= Total(hs)
       /\ Total(hs) <= Total(taxes) + 2 * Total(ns)
  BY <1>7, <1>8, <1>9, TotalsWithin
<1>11. \A i \in 1 .. Len(ns) : ns[i] >= 1  BY <1>4, <1>5
<1>12. Total(ns) >= Len(ns)  BY <1>6, <1>11, TotalAtLeast
<1>13. \A i \in 1 .. Len(tss) : Naturals(tss[i]) /\ hs[i] = Total(tss[i])
  BY <1>1, <1>4, <1>5
<1> QED BY <1>1, <1>4, <1>6, <1>10, <1>12, <1>13

\* The amount of a tax total with subtotals tss.
TaxSum(amount, tss, debit) ==
    IF debit
    THEN \E x \in RunningSubtotals(tss)[Len(tss)] : amount \in toFixedNoRounding(x)
    ELSE amount = Total(LineTotals(tss))

\* The first tax total holds the subtotals and their sum.
LEMMA TaxAmountIs ==
    ASSUME NEW b, b.debit \in BOOLEAN, NEW ls, NEW tt \in TaxTotals(b, ls)
    PROVE  \E tss \in AllSubtotals(ls) :
              tt[1].subtotals = tss /\ TaxSum(tt[1].amount, tss, b.debit)
<1>1. CASE b.debit
  <2>1. PICK tss \in AllSubtotals(ls) :
           tt \in {<<[amount |-> a, subtotals |-> tss]>> :
                     a \in UNION {toFixedNoRounding(x) : x \in RunningSubtotals(tss)[Len(tss)]}}
    BY <1>1 DEF TaxTotals, buildDebitNoteTaxTotal
  <2> DEFINE S == RunningSubtotals(tss)[Len(tss)]
  <2> HIDE DEF S
  <2>2. PICK a \in UNION {toFixedNoRounding(x) : x \in S} :
           tt = <<[amount |-> a, subtotals |-> tss]>>
    BY <2>1 DEF S
  <2>3. PICK x \in S : a \in toFixedNoRounding(x)  BY <2>2
  <2>4. tt[1].subtotals = tss /\ tt[1].amount = a  BY <2>2
  <2> QED BY <1>1, <2>3, <2>4 DEF S, TaxSum
<1>2. CASE ~b.debit
  <2>1. PICK tss \in AllSubtotals(ls) :
           tt = <<[amount |-> Total(LineTotals(tss)), subtotals |-> tss],
                  [amount |-> Total(LineTotals(tss)), subtotals |-> <<>>]>>
    BY <1>2 DEF TaxTotals, buildInvoiceTaxTotal
  <2> DEFINE a == Total(LineTotals(tss))
  <2> HIDE DEF a
  <2>2. tt = <<[amount |-> a, subtotals |-> tss], [amount |-> a, subtotals |-> <<>>]>>
    BY <2>1 DEF a
  <2>3. tt[1].subtotals = tss /\ tt[1].amount = a  BY <2>2
  <2> QED BY <1>2, <2>3 DEF a, TaxSum
<1> QED BY <1>1, <1>2

\* A number of halalas that was cut from the sum of h halalas, as doubles.
LEMMA CutOfSum ==
    ASSUME NEW h \in Nat, NEW x, Tame(x), x.u = h * 10000, NEW c \in toFixedNoRounding(x)
    PROVE  c \in Nat /\ c - h \in {-1, 0}
<1>1. c \in Nat /\ c * 10000 <= x.u /\ x.u <= c * 10000 + 10000  BY TameCut
<1> DEFINE u == x.u
<1>2. c \in Nat /\ u = h * 10000 /\ c * 10000 <= u /\ u <= c * 10000 + 10000  BY <1>1
<1> HIDE DEF u
<1> QED BY <1>2

\* Number.toFixed(2) takes the error out of a sum of halalas.
LEMMA RoundedSum ==
    ASSUME NEW h \in Nat, NEW x \in Double, x.u = h * 10000, NEW c \in toFixed2(x)
    PROVE  c = h
<1> DEFINE u == h * 10000
<1>1. u \in Nat /\ Magnitude(u) = u /\ Sign(u) = 1  BY DEF Magnitude, Sign
<1>2. u % 10000 = 0 /\ (u + 5000) \div 10000 = h  OBVIOUS
<1>3. 10000 \div 2 = 5000  OBVIOUS
<1>4. toFixed2(x) = {h}
  BY <1>1, <1>2, <1>3 DEF toFixed2, Scale
<1> QED BY <1>4

\* The payable amount is the sum, or on a debit note a halala less.
LEMMA PayableWithin ==
    ASSUME NEW b, b.debit \in BOOLEAN, NEW sub \in Nat, NEW tax \in Nat,
           NEW m \in IF b.debit THEN buildDebitNoteLegalMonetaryTotal(sub, tax)
                     ELSE buildInvoiceLegalMonetaryTotal(sub, tax)
    PROVE  /\ m.TaxExclusiveAmount = sub
           /\ m.PayableAmount - (sub + tax) \in IF b.debit THEN {-1, 0} ELSE {0}
<1> DEFINE h == sub + tax
           S == Plus(Clean(sub), Clean(tax))
<1>1. h \in Nat  OBVIOUS
<1>2. ASSUME NEW x \in S PROVE Tame(x) /\ x.u = h * 10000
  <2>1. /\ Tame(Clean(sub)) /\ Clean(sub).u = sub * 10000
        /\ Tame(Clean(tax)) /\ Clean(tax).u = tax * 10000
    BY TameClean
  <2>2. Tame(x) /\ x.u = Clean(sub).u + Clean(tax).u  BY <2>1, TamePlus
  <2>3. sub * 10000 + tax * 10000 = h * 10000  OBVIOUS
  <2> HIDE DEF S, h
  <2> QED BY <2>1, <2>2, <2>3
<1> HIDE DEF h, S
<1>3. CASE b.debit
  <2>1. PICK t \in UNION {toFixedNoRounding(x) : x \in S} : m = MonetaryTotal(sub, t)
    BY <1>3 DEF buildDebitNoteLegalMonetaryTotal, S
  <2>2. PICK x \in S : t \in toFixedNoRounding(x)  BY <2>1
  <2>3. t - h \in {-1, 0}  BY <1>1, <1>2, <2>2, CutOfSum
  <2>4. m.TaxExclusiveAmount = sub /\ m.PayableAmount = t  BY <2>1 DEF MonetaryTotal
  <2> QED BY <1>3, <2>3, <2>4 DEF h
<1>4. CASE ~b.debit
  <2>1. PICK t \in UNION {toFixed2(x) : x \in S} : m = MonetaryTotal(sub, t)
    BY <1>4 DEF buildInvoiceLegalMonetaryTotal, S
  <2>2. PICK x \in S : t \in toFixed2(x)  BY <2>1
  <2>3. x \in Double /\ x.u = h * 10000  BY <1>2, <2>2 DEF Tame
  <2>4. t = h  BY <1>1, <2>2, <2>3, RoundedSum
  <2>5. m.TaxExclusiveAmount = sub /\ m.PayableAmount = t  BY <2>1 DEF MonetaryTotal
  <2>6. h - h \in {0}  BY <1>1
  <2> QED BY <1>4, <2>4, <2>5, <2>6 DEF h
<1> QED BY <1>3, <1>4

\* The sum of a document's taxes is within two halalas per tax of its lines'.
LEMMA TaxAmountWithin ==
    ASSUME NEW debit \in BOOLEAN, NEW ls, IsSeq(ls), Len(ls) >= 1,
           \A i \in 1 .. Len(ls) : LineOK(ls[i], debit) /\ Ordinary(ls[i]),
           NEW tss \in AllSubtotals(ls), NEW taxes, IsSeq(taxes), Len(taxes) = Len(ls),
           \A i \in 1 .. Len(ls) : taxes[i] = ls[i].total,
           NEW amount, TaxSum(amount, tss, debit)
    PROVE  Total(taxes) \in Nat /\ Within(amount, Total(taxes), 2 * Total(Lens(tss)))
<1> DEFINE hs == LineTotals(tss)
           ns == Lens(tss)
           h == Total(hs)
           t == Total(taxes)
           n == Total(ns)
           N == Len(ls)
<1>1. \A i \in 1 .. Len(ls) : LineOK(ls[i], debit) /\ Ordinary(ls[i])  OBVIOUS
<1>3. /\ Naturals(taxes) /\ Naturals(hs) /\ Naturals(ns)
      /\ Len(hs) = Len(tss) /\ \A i \in 1 .. Len(tss) : hs[i] = Total(tss[i])
      /\ \A i \in 1 .. Len(tss) : Naturals(tss[i])
      /\ n >= Len(ls) /\ t - n <= h /\ h <= t + 2 * n
  BY <1>1, SubtotalsWithin
<1>4. IsSeq(tss)  BY SubtotalsAre
<1> HIDE DEF hs, ns
<1>5. h \in Nat /\ t \in Nat /\ n \in Nat /\ N \in Nat  BY <1>3, NaturalTotal, SeqFacts
<1>6. amount \in Int /\ h - 1 <= amount /\ amount <= h
  <2>1. CASE debit
    <3> DEFINE S == RunningSubtotals(tss)[Len(tss)]
    <3>1. PICK x \in S : amount \in toFixedNoRounding(x)  BY <2>1 DEF TaxSum
    <3>2. At(S, h)  BY <1>3, <1>4, AtSubtotals
    <3> HIDE DEF S, h
    <3>3. Tame(x) /\ x.u = h * 10000  BY <3>2 DEF At
    <3>4. amount \in Nat /\ amount - h \in {-1, 0}  BY <3>1, <3>3, <1>5, CutOfSum
    <3> QED BY <3>4, <1>5
  <2>2. CASE ~debit
    <3>1. amount = h  BY <2>2 DEF hs, TaxSum
    <3> HIDE DEF h
    <3> QED BY <3>1, <1>5
  <2> QED BY <2>1, <2>2
<1> HIDE DEF h, t, n, N
<1>7. Magnitude(amount - t) <= 2 * n
  <2>1. n >= 1  BY <1>3, <1>5 DEF N
  <2>2. t - 2 * n <= amount /\ amount <= t + 2 * n  BY <1>3, <1>5, <1>6, <2>1
  <2> QED BY <2>2, <1>5, <1>6 DEF Magnitude
<1> QED BY <1>5, <1>7 DEF Within, t, n, ns

CohereOK(b) ==
    LET m     == b.doc.LegalMonetaryTotal[1]
        debit == Builder[b.input.kind].debit
        sub   == Total([i \in DOMAIN b.lines |-> b.doc.InvoiceLine[i].LineExtensionAmount])
        tax   == Total([i \in DOMAIN b.lines |-> b.doc.InvoiceLine[i].TaxAmount])
        n     == Total([i \in DOMAIN b.lines |-> Len(b.doc.TaxTotal[1].subtotals[i])])
    IN  (\A i \in DOMAIN b.lines : Ordinary(b.lines[i])) =>
            /\ m.TaxExclusiveAmount = sub
            /\ m.PayableAmount - (sub + tax) \in IF debit THEN {-1, 0} ELSE {0}
            /\ Within(b.doc.TaxTotal[1].amount, tax, 2 * n)

LinesOK(ls, debit) == \A i \in 1 .. Len(ls) : LineOK(ls[i], debit)

\* The amounts of a finished document cohere.
LEMMA FinishedTotals ==
    ASSUME NEW d, NEW c, NEW b, Finished(b, d, c), NEW ls, ls = b.lines, IsSeq(ls),
           Len(ls) >= 1, Complete(d, b.input, ls), b.input.kind \in Phase2Kind,
           LinesOK(ls, Builder[b.input.kind].debit)
    PROVE  CohereOK(b)
<1> DEFINE s == b.doc
           B == Builder[b.input.kind]
           f == s.InvoiceLine
           tt == s.TaxTotal
           m == s.LegalMonetaryTotal[1]
           D == DOMAIN ls
           subs == [i \in D |-> ls[i].subtotal]
           taxes == [i \in D |-> ls[i].total]
<1>1. /\ s.LegalMonetaryTotal = d.LegalMonetaryTotal /\ tt = d.TaxTotal /\ f = d.InvoiceLine
  BY DEF Finished, Signed, Tags
<1>2. B.debit \in BOOLEAN  BY BuilderIs
<1>3. tt \in TaxTotals(B, ls)  BY <1>1 DEF Complete
<1>4. m \in MonetaryTotals(B, ls)  BY <1>1 DEF Complete
<1>5. f = [i \in D |-> assembleLineItemXml(ls[i], B)]  BY <1>1 DEF Complete
<1>6. LinesOK(ls, B.debit)  OBVIOUS
<1> HIDE DEF B
<1>7. \A i \in D : f[i].LineExtensionAmount = ls[i].subtotal /\ f[i].TaxAmount = ls[i].total
  <2> HIDE DEF f, D
  <2> QED BY <1>5 DEF assembleLineItemXml
<1>8. /\ [i \in D |-> f[i].LineExtensionAmount] = subs
      /\ [i \in D |-> f[i].TaxAmount] = taxes
  <2> HIDE DEF f, D
  <2> QED BY <1>7
<1>9. m \in IF B.debit THEN buildDebitNoteLegalMonetaryTotal(Total(subs), Total(taxes))
            ELSE buildInvoiceLegalMonetaryTotal(Total(subs), Total(taxes))
  BY <1>4 DEF MonetaryTotals
<1>10. PICK tss \in AllSubtotals(ls) :
          tt[1].subtotals = tss /\ TaxSum(tt[1].amount, tss, B.debit)
  <2> HIDE DEF tt
  <2> QED BY <1>2, <1>3, TaxAmountIs
<1>11. Len(ls) \in Nat /\ D = 1 .. Len(ls)  BY SeqFacts
<1>12. SUFFICES ASSUME \A i \in D : Ordinary(ls[i])
                PROVE  /\ m.TaxExclusiveAmount = Total(subs)
                       /\ m.PayableAmount - (Total(subs) + Total(taxes))
                            \in IF B.debit THEN {-1, 0} ELSE {0}
                       /\ Within(tt[1].amount, Total(taxes),
                                 2 * Total([i \in D |-> Len(tt[1].subtotals[i])]))
  <2>1. CohereOK(b) =
          ((\A i \in D : Ordinary(ls[i])) =>
              /\ m.TaxExclusiveAmount = Total([i \in D |-> f[i].LineExtensionAmount])
              /\ m.PayableAmount - (Total([i \in D |-> f[i].LineExtensionAmount])
                                      + Total([i \in D |-> f[i].TaxAmount]))
                   \in IF B.debit THEN {-1, 0} ELSE {0}
              /\ Within(tt[1].amount, Total([i \in D |-> f[i].TaxAmount]),
                        2 * Total([i \in D |-> Len(tt[1].subtotals[i])])))
    BY Zenon DEF CohereOK, B
  <2> HIDE DEF f, tt, m, D, subs, taxes
  <2> QED BY <2>1, <1>8
<1> HIDE DEF f, tt, m, s
<1>13. /\ IsSeq(subs) /\ Len(subs) = Len(ls) /\ IsSeq(taxes) /\ Len(taxes) = Len(ls)
       /\ \A i \in 1 .. Len(ls) : subs[i] = ls[i].subtotal /\ taxes[i] = ls[i].total
  <2>1. subs = [i \in DOMAIN ls |-> subs[i]] /\ taxes = [i \in DOMAIN ls |-> taxes[i]]
    OBVIOUS
  <2>2. \A i \in 1 .. Len(ls) : subs[i] = ls[i].subtotal /\ taxes[i] = ls[i].total
    BY <1>11
  <2> HIDE DEF subs, taxes
  <2> QED BY <2>1, <2>2, MappedLength
<1> HIDE DEF subs, taxes
<1>14. \A i \in 1 .. Len(ls) : LineOK(ls[i], B.debit) /\ Ordinary(ls[i])
  BY <1>6, <1>11, <1>12 DEF LinesOK
<1>15. /\ Total(taxes) \in Nat
       /\ Within(tt[1].amount, Total(taxes), 2 * Total(Lens(tss)))
  <2> DEFINE amount == tt[1].amount
  <2>1. TaxSum(amount, tss, B.debit)  BY <1>10
  <2>2. \A i \in 1 .. Len(ls) : taxes[i] = ls[i].total  BY <1>13
  <2>3. IsSeq(taxes) /\ Len(taxes) = Len(ls)  BY <1>13
  <2> HIDE DEF amount
  <2>4. /\ Total(taxes) \in Nat
        /\ Within(amount, Total(taxes), 2 * Total(Lens(tss)))
    <3> DEFINE debit == B.debit
    <3>1. debit \in BOOLEAN /\ TaxSum(amount, tss, debit)  BY <1>2, <2>1
    <3>2. \A i \in 1 .. Len(ls) : LineOK(ls[i], debit) /\ Ordinary(ls[i])  BY <1>14
    <3>3. tss \in AllSubtotals(ls)  BY <1>10
    <3> HIDE DEF debit, D
    <3> QED BY <3>1, <3>2, <3>3, <2>2, <2>3, TaxAmountWithin
  <2> QED BY <2>4 DEF amount
<1>16. Lens(tss) = [i \in D |-> Len(tt[1].subtotals[i])]
  <2>1. IsSeq(tss) /\ Len(tss) = Len(ls)  BY SubtotalsAre
  <2>2. DOMAIN tss = D  BY <2>1, <1>11, SeqFacts
  <2> HIDE DEF D
  <2> QED BY <2>2, <1>10 DEF Lens
<1>17. Total(subs) \in Nat
  <2>1. ASSUME NEW i \in 1 .. Len(ls) PROVE subs[i] \in Nat
    <3> DEFINE l == ls[i]
               rs == tss[i]
               debit == B.debit
    <3>1. LineOK(l, debit) /\ Ordinary(l) /\ rs \in TaxSubtotals(l) /\ debit \in BOOLEAN
      BY <1>2, <1>14, SubtotalsAre
    <3> HIDE DEF l, rs, debit
    <3>2. l.subtotal \in Nat  BY <3>1, LineWithin
    <3> QED BY <3>2, <1>13 DEF l
  <2>2. Naturals(subs)  BY <1>13, <2>1 DEF Naturals
  <2> QED BY <2>2, NaturalTotal
<1> DEFINE sub == Total(subs)
           tax == Total(taxes)
<1> HIDE DEF sub, tax
<1>18. /\ sub \in Nat /\ tax \in Nat
       /\ m \in IF B.debit THEN buildDebitNoteLegalMonetaryTotal(sub, tax)
                ELSE buildInvoiceLegalMonetaryTotal(sub, tax)
  BY <1>9, <1>15, <1>17 DEF sub, tax
<1>19. /\ m.TaxExclusiveAmount = sub
       /\ m.PayableAmount - (sub + tax) \in IF B.debit THEN {-1, 0} ELSE {0}
  BY <1>2, <1>18, PayableWithin
<1> QED BY <1>15, <1>16, <1>19 DEF sub, tax

-----------------------------------------------------------------------------
(* The inductive invariant. *)

\* What the caller of a Phase 2 builder hands in, and the constructor makes of it.
InputOK(in) ==
    /\ in.kind \in Phase2Kind /\ in.issueTime.z
    /\ Optional(in.cancelation) /\ Optional(in.buyerName) /\ Optional(in.buyerInfo)
    /\ in.lineItems \in Seq(LineItem) /\ in.lineItems # <<>>

\* A finished document.
BuiltOK(b) ==
    /\ QrOK(b) /\ TimesOK(b)
    /\ b.input.kind \in Phase2Kind =>
           SignatureOK(b) /\ ReferencesOK(b) /\ PartsOK(b) /\ CohereOK(b)

\* The Phase 2 documents before a place, those of a kind, and the hash that a
\* document of the kind there is to name.
Before(bs, i) == {j \in DOMAIN bs : bs[j].input.kind \in Phase2Kind /\ j < i}

Same(bs, i, kind) == {j \in Before(bs, i) : bs[j].input.kind = kind}

HashBefore(bs, i, kind) ==
    IF Same(bs, i, kind) = {} THEN BaseHash ELSE bs[Max(Same(bs, i, kind))].invoiceHash

\* The month of a document.
MonthOf(b) == b.input.invoiceSerialNumber.month

\* A document names the one of its kind before, and has a higher counter value
\* than all of its month.
LinkOK(bs, i) ==
    /\ bs[i].input.previousInvoiceHash = HashBefore(bs, i, bs[i].input.kind)
    /\ \A j \in Before(bs, i) : MonthOf(bs[j]) = MonthOf(bs[i]) =>
           bs[i].input.invoiceCounterNumber > bs[j].input.invoiceCounterNumber

\* The value of a document is one that its month's row has handed out.
Counted(b, rows) ==
    MonthOf(b) \in Month /\ b.input.invoiceCounterNumber \in 1 .. rows[MonthOf(b)]

\* The documents built for n requests, with the counter rows there are.
Archive(bs, n, rows) ==
    /\ IsSeq(bs) /\ Len(bs) <= n
    /\ \A i \in 1 .. Len(bs) :
           /\ BuiltOK(bs[i])
           /\ Counted(bs[i], rows)
           /\ bs[i].input.kind \in Phase2Kind => LinkOK(bs, i)

\* No document of the month has the counter value of b, or a higher one.
Fresh(b, bs) ==
    \A j \in 1 .. Len(bs) : MonthOf(bs[j]) = MonthOf(b) =>
        b.input.invoiceCounterNumber > bs[j].input.invoiceCounterNumber

\* A document whose template is filled when the documents bs are built.
InHand(in, t, rows, bs) ==
    /\ InputOK(in)
    /\ Counted([input |-> in], rows) /\ Fresh([input |-> in], bs)
    /\ in.previousInvoiceHash = HashBefore(bs, Len(bs) + 1, in.kind)
    /\ Populated(t, in)

SomeLines(ls) ==
    IsSeq(ls) /\ \A i \in 1 .. Len(ls) : \E debit \in BOOLEAN : LineOK(ls[i], debit)

WrittenOK(t) == \A s \in Range(Slots) : Len(t.text[s].written) <= 1

Inv ==
    /\ pc \in {"idle", "lines", "sign"}
    /\ asked \in 0 .. Len(Requests)
    /\ counter \in [Month -> Nat]
    /\ Len(input) <= 1 /\ Len(doc) <= 1
    /\ SomeLines(lines) /\ WrittenOK(template)
    /\ pc = "idle" => Archive(built, asked, counter)
    /\ pc # "idle" =>
           /\ asked >= 1 /\ Archive(built, asked - 1, counter)
           /\ InHand(input[1], template, counter, built)
           /\ LinesOK(lines, Builder[input[1].kind].debit)
    /\ pc = "lines" =>
           Rendered(doc[1], input[1]) /\ Customer(doc[1], input[1]) /\ NoTotals(doc[1])
    /\ pc = "sign" =>
           Complete(doc[1], input[1], lines) /\ Len(lines) = Len(input[1].lineItems)

\* The maximum of a set of numbers up to n is in it.
LEMMA MaxIsIn ==
    ASSUME NEW n \in Nat, NEW T, T \subseteq 0 .. n, T # {}
    PROVE  Max(T) \in T
<1> DEFINE U == {n - x : x \in T}
<1>1. U \subseteq Nat /\ U # {}
  <2>1. \A x \in T : n - x \in Nat
    <3>1. \A x \in T : x \in 0 .. n  OBVIOUS
    <3>2. \A x \in 0 .. n : n - x \in Nat  OBVIOUS
    <3> QED BY <3>1, <3>2
  <2>2. PICK x : x \in T  OBVIOUS
  <2>3. n - x \in U  BY <2>2
  <2> QED BY <2>1, <2>3
<1>2. PICK m \in U : \A k \in U : m <= k
  <2> HIDE DEF U
  <2> QED BY <1>1, LeastNat
<1>3. PICK x \in T : m = n - x  OBVIOUS
<1>4. \A y \in T : x >= y
  <2>1. ASSUME NEW y \in T PROVE x >= y
    <3>1. n - y \in U  OBVIOUS
    <3>2. n - x <= n - y  BY <1>2, <1>3, <3>1
    <3> QED BY <3>2
  <2> QED BY <2>1
<1> QED BY <1>4 DEF Max

\* A document is added, and i is its place or an earlier one.
Added(bs, x, cs, i) == IsSeq(bs) /\ cs = Append(bs, x) /\ i \in 1 .. Len(bs) + 1

\* A new document changes nothing of what is before the old ones and itself.
LEMMA BeforeAppend ==
    ASSUME NEW bs, NEW x, NEW cs, NEW i, Added(bs, x, cs, i)
    PROVE  /\ Before(cs, i) = Before(bs, i)
           /\ \A j \in Before(bs, i) : j \in 1 .. Len(bs) /\ cs[j] = bs[j]
<1> DEFINE N == Len(bs)
<1>1. N \in Nat /\ DOMAIN bs = 1 .. N /\ DOMAIN cs = 1 .. N + 1
      /\ \A j \in 1 .. N : cs[j] = bs[j]
  BY SeqFacts, AppendFacts DEF Added
<1> HIDE DEF N
<1>2. i \in 1 .. N + 1  BY DEF Added, N
<1>3. \A j \in 1 .. N + 1 : j < i => j \in 1 .. N  BY <1>1, <1>2
<1>4. Before(cs, i) = Before(bs, i)  BY <1>1, <1>3 DEF Before
<1>5. \A j \in Before(bs, i) : j \in 1 .. N /\ cs[j] = bs[j]  BY <1>1 DEF Before
<1> QED BY <1>4, <1>5 DEF N

\* Nor does it change the hash that a document there is to name.
LEMMA HashAppend ==
    ASSUME NEW bs, NEW x, NEW cs, NEW i, Added(bs, x, cs, i), NEW kind
    PROVE  HashBefore(cs, i, kind) = HashBefore(bs, i, kind)
<1> DEFINE N == Len(bs)
           T == Same(bs, i, kind)
<1>1. N \in Nat  BY SeqFacts DEF Added
<1>2. /\ Before(cs, i) = Before(bs, i)
      /\ \A j \in Before(bs, i) : j \in 1 .. Len(bs) /\ cs[j] = bs[j]
  BY BeforeAppend
<1>3. Same(cs, i, kind) = T  BY <1>2 DEF Same
<1>4. CASE T = {}  BY <1>3, <1>4 DEF HashBefore
<1>5. CASE T # {}
  <2>1. T \subseteq 0 .. N  BY <1>1, <1>2 DEF Same
  <2>2. Max(T) \in T
    <3> HIDE DEF T, N
    <3> QED BY <1>1, <1>5, <2>1, MaxIsIn
  <2>3. cs[Max(T)] = bs[Max(T)]  BY <1>2, <2>2 DEF Same
  <2> QED BY <1>3, <1>5, <2>3 DEF HashBefore
<1> QED BY <1>4, <1>5

\* A link stays when a document is added.
LEMMA LinkAppend ==
    ASSUME NEW bs, IsSeq(bs), NEW x, NEW i \in 1 .. Len(bs), LinkOK(bs, i)
    PROVE  LinkOK(Append(bs, x), i)
<1> DEFINE cs == Append(bs, x)
<1>1. cs[i] = bs[i]  BY AppendFacts
<1>2. i \in 1 .. Len(bs) + 1
  <2>1. Len(bs) \in Nat  BY SeqFacts
  <2> QED BY <2>1
<1> DEFINE kind == bs[i].input.kind
<1> HIDE DEF kind
<1>3. /\ Before(cs, i) = Before(bs, i)
      /\ \A j \in Before(bs, i) : j \in 1 .. Len(bs) /\ cs[j] = bs[j]
      /\ HashBefore(cs, i, kind) = HashBefore(bs, i, kind)
  <2>1. Added(bs, x, cs, i)  BY <1>2 DEF Added
  <2> HIDE DEF cs
  <2> QED BY <2>1, BeforeAppend, HashAppend
<1> HIDE DEF cs
<1>4. LinkOK(cs, i)  BY <1>1, <1>3 DEF LinkOK, kind, MonthOf
<1> QED BY <1>4 DEF cs

\* Counter rows grow.
RowsGrow(rows, next) == \A m \in Month : \A k \in 1 .. rows[m] : k \in 1 .. next[m]

LEMMA ArchiveRows ==
    ASSUME NEW bs, NEW n \in Nat, NEW rows, Archive(bs, n, rows), NEW next,
           RowsGrow(rows, next)
    PROVE  Archive(bs, n, next)
<1>1. ASSUME NEW i \in 1 .. Len(bs) PROVE Counted(bs[i], next)
  BY DEF Archive, Counted, RowsGrow
<1> QED BY <1>1 DEF Archive

\* A request passes, with or without a document.
LEMMA ArchivePasses ==
    ASSUME NEW bs, NEW n \in Nat, NEW rows, Archive(bs, n, rows)
    PROVE  Archive(bs, n + 1, rows)
<1>1. Len(bs) \in Nat /\ IsSeq(bs) /\ Len(bs) <= n  BY SeqFacts DEF Archive
<1>2. Len(bs) <= n + 1  BY <1>1
<1> QED BY <1>1, <1>2 DEF Archive

LEMMA ArchiveGrows ==
    ASSUME NEW bs, NEW n \in Nat, NEW rows, Archive(bs, n, rows), NEW x, BuiltOK(x),
           Counted(x, rows), x.input.kind \in Phase2Kind => Fresh(x, bs),
           x.input.kind \in Phase2Kind =>
              x.input.previousInvoiceHash = HashBefore(bs, Len(bs) + 1, x.input.kind)
    PROVE  Archive(Append(bs, x), n + 1, rows)
<1> DEFINE N == Len(bs)
           cs == Append(bs, x)
<1>1. IsSeq(bs) /\ N \in Nat /\ N <= n  BY SeqFacts DEF Archive
<1>2. /\ IsSeq(cs) /\ Len(cs) = N + 1
      /\ \A i \in 1 .. N : cs[i] = bs[i]
      /\ cs[N + 1] = x
  BY <1>1, AppendFacts
<1>3. \A i \in 1 .. N : /\ BuiltOK(bs[i]) /\ Counted(bs[i], rows)
                        /\ bs[i].input.kind \in Phase2Kind => LinkOK(bs, i)
  BY DEF Archive
<1> HIDE DEF cs, N
<1>4. ASSUME NEW i \in 1 .. N
      PROVE  /\ BuiltOK(cs[i]) /\ Counted(cs[i], rows)
             /\ cs[i].input.kind \in Phase2Kind => LinkOK(cs, i)
  <2>1. cs[i] = bs[i]  BY <1>2
  <2>2. bs[i].input.kind \in Phase2Kind => LinkOK(cs, i)
    BY <1>1, <1>3, LinkAppend DEF cs, N
  <2> QED BY <1>3, <2>1, <2>2
<1>5. x.input.kind \in Phase2Kind => LinkOK(cs, N + 1)
  <2> DEFINE k == N + 1
  <2>1. k \in 1 .. Len(bs) + 1  BY <1>1 DEF N
  <2>2. Added(bs, x, cs, k)  BY <1>1, <2>1 DEF Added, cs
  <2>3. k = Len(bs) + 1  BY DEF N
  <2> DEFINE kind == x.input.kind
  <2> HIDE DEF k, kind
  <2>4. /\ Before(cs, k) = Before(bs, k)
        /\ \A j \in Before(bs, k) : j \in 1 .. Len(bs) /\ cs[j] = bs[j]
    BY <2>2, BeforeAppend
  <2>5. HashBefore(cs, k, kind) = HashBefore(bs, k, kind)
    BY <2>2, HashAppend
  <2>6. ASSUME Fresh(x, bs), NEW j \in Before(bs, k), MonthOf(cs[j]) = MonthOf(x)
        PROVE  x.input.invoiceCounterNumber > cs[j].input.invoiceCounterNumber
    BY <2>4, <2>6 DEF Fresh
  <2>7. cs[k] = x  BY <1>2 DEF k
  <2>8. x.input.kind \in Phase2Kind => LinkOK(cs, k)
    BY <2>3, <2>4, <2>5, <2>6, <2>7 DEF LinkOK, kind
  <2> QED BY <2>8 DEF k
<1>6. N + 1 <= n + 1  BY <1>1
<1>7. ASSUME NEW i \in 1 .. N + 1 PROVE i \in 1 .. N \/ i = N + 1  BY <1>1
<1>8. Archive(cs, n + 1, rows)  BY <1>2, <1>4, <1>5, <1>6, <1>7 DEF Archive
<1> QED BY <1>8 DEF cs

\* The chain as the issuers see it.
LEMMA PreviousHashIs ==
    ASSUME IsSeq(built), NEW kind
    PROVE  PreviousHash(kind) = HashBefore(built, Len(built) + 1, kind)
<1> DEFINE N == Len(built)
<1>1. N \in Nat /\ DOMAIN built = 1 .. N  BY SeqFacts
<1>2. \A j \in 1 .. N : j < N + 1  BY <1>1
<1>3. Chained = Before(built, N + 1)  BY <1>1, <1>2 DEF Chained, Before
<1>4. Chain(kind) = Same(built, N + 1, kind)  BY <1>3 DEF Chain, Same
<1> QED BY <1>4 DEF PreviousHash, HashBefore

\* What a counter row hands out is new, and it hands out nothing twice.
LEMMA ClaimIsFresh ==
    ASSUME counter \in [Month -> Nat], NEW n \in Nat, Archive(built, n, counter),
           NEW r, r.month \in Month, incrementCounter(r), NEW b,
           MonthOf(b) = r.month, b.input.invoiceCounterNumber = counter[r.month] + 1
    PROVE  /\ counter' \in [Month -> Nat]
           /\ RowsGrow(counter, counter')
           /\ Counted(b, counter') /\ Fresh(b, built)
           /\ Archive(built, n, counter')
<1> DEFINE m == r.month
           v == counter[m]
<1>1. m \in Month /\ v \in Nat  OBVIOUS
<1>2. counter' = [counter EXCEPT ![m] = v + 1]  BY DEF incrementCounter
<1> HIDE DEF m, v
<1>3. counter' \in [Month -> Nat]
      /\ \A l \in Month : counter'[l] = IF l = m THEN v + 1 ELSE counter[l]
  BY <1>1, <1>2
<1>4. RowsGrow(counter, counter')
  <2>1. ASSUME NEW l \in Month, NEW k \in 1 .. counter[l] PROVE k \in 1 .. counter'[l]
    <3>1. CASE l = m
      <4>1. k \in 1 .. v  BY <3>1 DEF v, m
      <4>2. k \in 1 .. v + 1  BY <1>1, <4>1
      <4> QED BY <1>3, <3>1, <4>2
    <3>2. CASE l # m  BY <1>3, <3>2
    <3> QED BY <3>1, <3>2
  <2> QED BY <2>1 DEF RowsGrow
<1>5. Counted(b, counter')
  <2>1. v + 1 \in 1 .. v + 1  BY <1>1
  <2>2. MonthOf(b) = m /\ b.input.invoiceCounterNumber = v + 1  BY DEF m, v
  <2> QED BY <1>1, <1>3, <2>1, <2>2 DEF Counted
<1>6. Fresh(b, built)
  <2>1. ASSUME NEW j \in 1 .. Len(built), MonthOf(built[j]) = MonthOf(b)
        PROVE  b.input.invoiceCounterNumber > built[j].input.invoiceCounterNumber
    <3> DEFINE w == built[j].input.invoiceCounterNumber
    <3>1. Counted(built[j], counter)  BY DEF Archive
    <3>2. w \in 1 .. v  BY <2>1, <3>1 DEF Counted, v, m
    <3> HIDE DEF w
    <3>3. v + 1 > w  BY <1>1, <3>2
    <3>4. b.input.invoiceCounterNumber = v + 1  BY DEF v, m
    <3> QED BY <3>3, <3>4 DEF w
  <2> QED BY <2>1 DEF Fresh
<1>7. Archive(built, n, counter')  BY <1>4, ArchiveRows
<1> QED BY <1>3, <1>4, <1>5, <1>6, <1>7

\* What a builder starts from.
LEMMA FullInputIs ==
    ASSUME asked \in Nat, asked < Len(Requests), NEW r \in Requests[asked + 1],
           IsSeq(built), NEW in, in = FullInput(r)
    PROVE  /\ in.kind = r.kind
           /\ in.issueTime.z
           /\ Optional(in.cancelation) /\ Optional(in.buyerName) /\ Optional(in.buyerInfo)
           /\ in.lineItems \in Seq(LineItem) /\ in.lineItems # <<>>
           /\ in.invoiceCounterNumber = counter[r.month] + 1
           /\ MonthOf([input |-> in]) = r.month /\ r.month \in Month
           /\ in.previousInvoiceHash = HashBefore(built, Len(built) + 1, in.kind)
<1>1. /\ in.kind = r.kind /\ in.cancelation = r.cancelation /\ in.buyerName = r.buyerName
      /\ in.buyerInfo = r.buyerInfo /\ in.lineItems = r.lineItems
      /\ in.issueTime = ensureZatcaTimeZ(r.issueTime)
      /\ in.invoiceCounterNumber = counter[r.month] + 1
      /\ in.invoiceSerialNumber = [month |-> r.month, sequence |-> counter[r.month] + 1]
      /\ in.previousInvoiceHash = PreviousHash(r.kind)
  BY DEF FullInput
<1>2. in.issueTime.z  BY <1>1 DEF ensureZatcaTimeZ
<1>3. asked + 1 \in DOMAIN Requests
  <2>1. IsSeq(Requests)  BY BuildAssumption DEF IsSeq
  <2>2. Len(Requests) \in Nat /\ DOMAIN Requests = 1 .. Len(Requests)  BY <2>1, SeqFacts
  <2> QED BY <2>2
<1>4. /\ Optional(r.cancelation) /\ Optional(r.buyerName) /\ Optional(r.buyerInfo)
      /\ r.lineItems \in Seq(LineItem) /\ r.lineItems # <<>>
      /\ r.month \in Month
  BY <1>3, BuildAssumption
<1>5. MonthOf([input |-> in]) = r.month  BY <1>1 DEF MonthOf
<1> QED BY <1>1, <1>2, <1>4, <1>5, PreviousHashIs

\* Nothing is built yet.
LEMMA InitInv ==
    ASSUME Init
    PROVE  Inv
<1>1. Len(Requests) \in Nat  BY BuildAssumption
<1>2. IsSeq(<<>>)
  <2>1. <<>> \in Seq({})  OBVIOUS
  <2> QED BY <2>1 DEF IsSeq
<1>3. Len(<<>>) = 0  OBVIOUS
<1>4. \A i : i \notin 1 .. 0  OBVIOUS
<1>5. SomeLines(lines)  BY <1>2, <1>3, <1>4 DEF Init, SomeLines
<1>6. Archive(built, asked, counter)
  <2>1. built = <<>> /\ asked = 0  BY DEF Init
  <2> QED BY <1>2, <1>3, <1>4, <2>1 DEF Archive
<1>7. WrittenOK(template)
  <2>1. ASSUME NEW s \in Range(Slots) PROVE template.text[s].written = <<>>
    BY DEF Init, NoTemplate, Template
  <2> QED BY <2>1, <1>3 DEF WrittenOK
<1>8. Len(input) <= 1 /\ Len(doc) <= 1
  <2>1. input = <<>> /\ doc = <<>>  BY DEF Init
  <2> QED BY <2>1, <1>3
<1>9. pc = "idle" /\ asked \in 0 .. Len(Requests) /\ counter \in [Month -> Nat]
  BY <1>1 DEF Init
<1> QED BY <1>5, <1>6, <1>7, <1>8, <1>9 DEF Inv

\* A Phase 2 builder starts.
LEMMA RenderInv ==
    ASSUME Inv, asked < Len(Requests), NEW r \in Requests[asked + 1], Render(r)
    PROVE  Inv'
<1> DEFINE in == FullInput(r)
           t == templateFn(in)
           d == injectBuyerParty(Parse(t), in)
<1>1. /\ pc = "idle" /\ r.kind \in Phase2Kind /\ pc' = "lines" /\ asked' = asked + 1
      /\ input' = <<in>> /\ template' = t /\ doc' = <<d>> /\ lines' = <<>> /\ built' = built
      /\ incrementCounter(r)
  BY DEF Render, incrementCounter
<1>2. /\ asked \in Nat /\ Archive(built, asked, counter) /\ Len(Requests) \in Nat
      /\ counter \in [Month -> Nat]
  BY <1>1, BuildAssumption DEF Inv
<1>3. IsSeq(built)  BY <1>2 DEF Archive
<1>4. /\ InputOK(in)
      /\ in.invoiceCounterNumber = counter[r.month] + 1
      /\ MonthOf([input |-> in]) = r.month /\ r.month \in Month
      /\ in.previousInvoiceHash = HashBefore(built, Len(built) + 1, in.kind)
  <2>1. in = FullInput(r)  OBVIOUS
  <2> HIDE DEF in
  <2> QED BY <1>1, <1>2, <1>3, <2>1, FullInputIs DEF InputOK
<1> HIDE DEF in
<1>5. in.kind \in Phase2Kind  BY <1>4 DEF InputOK
<1>6. Populated(t, in)  BY <1>5, TemplatePopulated
<1> HIDE DEF t
<1>7. Rendered(d, in) /\ Customer(d, in) /\ NoTotals(d)  BY <1>5, <1>6, RenderedDocument
<1>8. WrittenOK(t)  BY <1>5, <1>6, WrittenOnce DEF WrittenOK
<1> HIDE DEF d
<1>9. input'[1] = in /\ doc'[1] = d /\ Len(input') = 1 /\ Len(doc') = 1  BY <1>1
<1>10. asked' \in 0 .. Len(Requests) /\ asked' \in Nat /\ asked' >= 1 /\ asked' - 1 = asked
  BY <1>1, <1>2
<1>11. /\ InHand(in, t, counter', built) /\ counter' \in [Month -> Nat]
       /\ Archive(built, asked, counter')
  <2> DEFINE b == [input |-> in]
  <2>1. b.input = in  OBVIOUS
  <2>2. MonthOf(b) = r.month /\ b.input.invoiceCounterNumber = counter[r.month] + 1
    BY <1>4, <2>1
  <2> HIDE DEF b
  <2>3. /\ counter' \in [Month -> Nat] /\ Archive(built, asked, counter')
        /\ Counted(b, counter') /\ Fresh(b, built)
    BY <1>1, <1>2, <1>4, <2>2, ClaimIsFresh
  <2> QED BY <1>4, <1>6, <2>3 DEF InHand, b
<1>12. SomeLines(<<>>) /\ \A debit : LinesOK(<<>>, debit)
  <2>1. <<>> \in Seq({}) /\ Len(<<>>) = 0  OBVIOUS
  <2>2. \A i : i \notin 1 .. 0  OBVIOUS
  <2> QED BY <2>1, <2>2 DEF SomeLines, LinesOK, IsSeq
<1>13. Len(input') <= 1 /\ Len(doc') <= 1  BY <1>9
<1> QED BY <1>1, <1>2, <1>7, <1>8, <1>9, <1>10, <1>11, <1>12, <1>13 DEF Inv

\* A Phase 1 document reads as its QR code.
LEMMA Phase1OK ==
    ASSUME NEW in, in.kind \in Phase1Kind, NEW sums, NEW code, NEW billing, NEW d,
           d = Phase1Document(in, code, billing, sums), NEW qr, qr = generatePhase1QR(d),
           qr # <<>>, NEW b, b.input = in, b.doc = d, b.qr = qr
    PROVE  BuiltOK(b)
<1>1. /\ \A i \in DOMAIN qr : qr[i].tag = i /\ qr[i].length = qr[i].of.bytes
      /\ qr[1].of = Text(Supplier(d).RegistrationName)
      /\ qr[2].of.value = Text(Supplier(d).CompanyID)
      /\ qr[3].of.value = readIssueTimestamp(d)
      /\ qr[4].of.value = d.LegalMonetaryTotal[1].TaxInclusiveAmount
      /\ qr[5].of.value = d.TaxTotal[1].amount
  BY Phase1QrIs
<1>2. in.kind \notin Phase2Kind  BY DEF Phase1Kind, Phase2Kind
<1>3. d.LegalMonetaryTotal[1].TaxInclusiveAmount = d.LegalMonetaryTotal[1].PayableAmount
  <2> DEFINE m == MonetaryTotal(sums.subtotal, sums.total)
             l == d.LegalMonetaryTotal
  <2>1. l = <<m>>  BY DEF Phase1Document
  <2>2. m.TaxInclusiveAmount = m.PayableAmount  BY DEF MonetaryTotal
  <2> HIDE DEF m, l
  <2>3. l[1] = m  BY <2>1
  <2> QED BY <2>2, <2>3 DEF l
<1>4. Last(d.TaxTotal).amount = d.TaxTotal[1].amount
  <2> DEFINE x == [amount |-> sums.vatAmount]
             l == d.TaxTotal
  <2>1. l = <<x>>  BY DEF Phase1Document
  <2> HIDE DEF x, l
  <2>2. Len(l) = 1  BY <2>1
  <2>3. Last(l) = l[1]  BY <2>2 DEF Last
  <2> QED BY <2>3 DEF l
<1>5. QrOK(b)  BY <1>1, <1>2, <1>3, <1>4 DEF QrOK
<1>6. TimesOK(b)  BY <1>1, <1>2 DEF TimesOK, readIssueTimestamp
<1> QED BY <1>2, <1>5, <1>6 DEF BuiltOK

\* A Phase 1 document, built in one step.
LEMMA Phase1Inv ==
    ASSUME Inv, asked < Len(Requests), NEW r \in Requests[asked + 1], Phase1(r)
    PROVE  Inv'
<1> DEFINE in == FullInput(r)
           D(sums) == IF r.kind = "phase1-invoice" THEN Phase1InvoiceBuilder(in, sums)
                      ELSE Phase1CreditNoteBuilder(in, sums)
           B(sums) == [input |-> in, lines |-> <<>>, doc |-> D(sums),
                       invoiceHash |-> BaseHash, qr |-> generatePhase1QR(D(sums))]
<1>1. /\ pc = "idle" /\ r.kind \in Phase1Kind /\ asked' = asked + 1
      /\ pc' = pc /\ input' = input /\ template' = template /\ doc' = doc /\ lines' = lines
      /\ incrementCounter(r)
  BY DEF Phase1, incrementCounter
<1>2. PICK sums : built' = IF generatePhase1QR(D(sums)) = <<>> THEN built
                           ELSE Append(built, B(sums))
  BY DEF Phase1
<1>3. /\ asked \in Nat /\ Archive(built, asked, counter) /\ Len(Requests) \in Nat
      /\ counter \in [Month -> Nat]
  BY <1>1, BuildAssumption DEF Inv
<1>4. IsSeq(built)  BY <1>3 DEF Archive
<1>5. /\ in.kind = r.kind /\ in.invoiceCounterNumber = counter[r.month] + 1
      /\ MonthOf([input |-> in]) = r.month /\ r.month \in Month
  <2>1. in = FullInput(r)  OBVIOUS
  <2> HIDE DEF in
  <2> QED BY <1>3, <1>4, <2>1, FullInputIs
<1> HIDE DEF in
<1> DEFINE d == D(sums)
           qr == generatePhase1QR(d)
           b == B(sums)
<1>6. b.input = in /\ b.doc = d /\ b.qr = qr  OBVIOUS
<1>7. \E code, billing : d = Phase1Document(in, code, billing, sums)
  BY DEF Phase1InvoiceBuilder, Phase1CreditNoteBuilder
<1>8. MonthOf(b) = r.month /\ b.input.invoiceCounterNumber = counter[r.month] + 1
  BY <1>5, <1>6 DEF MonthOf
<1> HIDE DEF d, b
<1>9. /\ counter' \in [Month -> Nat] /\ Archive(built, asked, counter')
       /\ Counted(b, counter')
  BY <1>1, <1>3, <1>5, <1>8, ClaimIsFresh
<1>10. Archive(built', asked', counter')
  <2>1. CASE qr = <<>>
    <3>1. built' = built  BY <1>2, <2>1 DEF d
    <3>2. Archive(built, asked + 1, counter')  BY <1>3, <1>9, ArchivePasses
    <3> QED BY <1>1, <3>1, <3>2
  <2>2. CASE qr # <<>>
    <3>1. built' = Append(built, b)  BY <1>2, <2>2 DEF d, b
    <3>2. PICK code, billing : d = Phase1Document(in, code, billing, sums)  BY <1>7
    <3>3. in.kind \in Phase1Kind /\ in.kind \notin Phase2Kind
      BY <1>1, <1>5 DEF Phase1Kind, Phase2Kind
    <3>4. qr = generatePhase1QR(d)  OBVIOUS
    <3> HIDE DEF qr
    <3>5. BuiltOK(b)  BY <1>6, <2>2, <3>2, <3>3, <3>4, Phase1OK
    <3>6. b.input.kind \notin Phase2Kind
      BY <1>6, <3>3
    <3>7. Archive(Append(built, b), asked + 1, counter')
      BY <1>3, <1>9, <3>5, <3>6, ArchiveGrows
    <3> QED BY <1>1, <3>1, <3>7
  <2> QED BY <2>1, <2>2
<1>11. asked' \in 0 .. Len(Requests)  BY <1>1, <1>3
<1> QED BY <1>1, <1>10, <1>11, <1>9 DEF Inv

\* One more line.
LEMMA BuildLineInv ==
    ASSUME Inv, BuildLine
    PROVE  Inv'
<1> DEFINE in == input[1]
           n == Len(lines)
           item == in.lineItems[n + 1]
           b == Builder[in.kind]
           debit == b.debit
           rounding == b.withRoundingAmount
<1>1. /\ pc = "lines" /\ n < Len(in.lineItems)
      /\ pc' = pc /\ asked' = asked /\ counter' = counter /\ input' = input
      /\ template' = template
      /\ doc' = doc /\ built' = built
  BY DEF BuildLine
<1>2. PICK net \in Nets(item) :
        \E line \in IF debit THEN buildDebitNoteLineItemTotals(item, net, rounding)
                    ELSE buildInvoiceLineItemTotals(item, net) :
           lines' = Append(lines, line)
  BY DEF BuildLine
<1>3. PICK line : /\ line \in IF debit THEN buildDebitNoteLineItemTotals(item, net, rounding)
                              ELSE buildInvoiceLineItemTotals(item, net)
                  /\ lines' = Append(lines, line)
  BY <1>2
<1>4. InputOK(in) /\ LinesOK(lines, debit) /\ SomeLines(lines)  BY <1>1 DEF Inv, InHand
<1>5. debit \in BOOLEAN  BY <1>4, BuilderIs DEF InputOK
<1>6. item \in LineItem
  <2>1. n \in Nat  BY <1>4, SeqFacts DEF SomeLines
  <2> DEFINE items == in.lineItems
  <2>2. items \in Seq(LineItem) /\ n < Len(items)  BY <1>1, <1>4 DEF InputOK
  <2> HIDE DEF items, n
  <2>3. items[n + 1] \in LineItem  BY <2>1, <2>2
  <2> QED BY <2>3 DEF items
<1> HIDE DEF item, debit, rounding
<1>7. LineOK(line, debit)
  <2>1. CASE debit
    <3>1. debit = TRUE /\ line \in buildDebitNoteLineItemTotals(item, net, rounding)
      BY <1>3, <1>5, <2>1
    <3> QED BY <1>2, <1>6, <3>1, DebitLineIs
  <2>2. CASE ~debit
    <3>1. debit = FALSE /\ line \in buildInvoiceLineItemTotals(item, net)
      BY <1>3, <1>5, <2>2
    <3> QED BY <1>2, <1>6, <3>1, InvoiceLineIs
  <2> QED BY <2>1, <2>2
<1>8. LinesOK(Append(lines, line), debit) /\ IsSeq(Append(lines, line))
  <2> DEFINE ls == Append(lines, line)
  <2>1. n \in Nat /\ IsSeq(lines)  BY <1>4, SeqFacts DEF SomeLines
  <2>2. /\ IsSeq(ls) /\ Len(ls) = n + 1 /\ ls[n + 1] = line
        /\ \A i \in 1 .. n : ls[i] = lines[i]
    BY <2>1, AppendFacts
  <2> HIDE DEF ls
  <2>3. \A i \in 1 .. n : LineOK(lines[i], debit)  BY <1>4 DEF LinesOK
  <2> HIDE DEF n
  <2>4. \A i \in 1 .. n + 1 : i \in 1 .. n \/ i = n + 1  BY <2>1
  <2>5. LinesOK(ls, debit)  BY <1>7, <2>2, <2>3, <2>4 DEF LinesOK
  <2> QED BY <2>2, <2>5 DEF ls
<1>9. SomeLines(lines') /\ LinesOK(lines', debit)
  <2> DEFINE ls == Append(lines, line)
  <2>1. lines' = ls  BY <1>3
  <2> HIDE DEF ls
  <2>2. LinesOK(ls, debit) /\ IsSeq(ls)  BY <1>8 DEF ls
  <2> QED BY <1>5, <2>1, <2>2 DEF SomeLines, LinesOK
<1> QED BY <1>1, <1>9 DEF Inv, debit

\* The totals and the lines are put in.
LEMMA TotalsInv ==
    ASSUME Inv, Totals
    PROVE  Inv'
<1> DEFINE in == input[1]
           b == Builder[in.kind]
           d == doc[1]
           D(tt, m) == SetAll(set(SetAll(SetAll(d, "PaymentMeans", PaymentMeans(in)),
                                         "TaxTotal", tt),
                                  "LegalMonetaryTotal", TRUE, m),
                              "InvoiceLine",
                              [i \in DOMAIN lines |-> assembleLineItemXml(lines[i], b)])
<1>1. /\ pc = "lines" /\ Len(lines) = Len(in.lineItems) /\ pc' = "sign"
      /\ asked' = asked /\ counter' = counter /\ input' = input /\ template' = template
      /\ lines' = lines /\ built' = built
  BY DEF Totals
<1>2. \E tt \in TaxTotals(b, lines), m \in MonetaryTotals(b, lines) : doc' = <<D(tt, m)>>
  BY DEF Totals, TaxTotals, MonetaryTotals
<1>3. PICK tt, m : tt \in TaxTotals(b, lines) /\ m \in MonetaryTotals(b, lines)
                   /\ doc' = <<D(tt, m)>>
  BY <1>2
<1>4. /\ InHand(in, template, counter, built) /\ SomeLines(lines)
      /\ Rendered(d, in) /\ Customer(d, in) /\ NoTotals(d)
  BY <1>1 DEF Inv
<1>5. Complete(D(tt, m), in, lines)
  <2> DEFINE pm == PaymentMeans(in)
             ls == [i \in DOMAIN lines |-> assembleLineItemXml(lines[i], b)]
             d1 == SetAll(d, "PaymentMeans", pm)
             d2 == SetAll(d1, "TaxTotal", tt)
             d3 == set(d2, "LegalMonetaryTotal", TRUE, m)
             d4 == SetAll(d3, "InvoiceLine", ls)
  <2>1. IsSeq(pm)
    <3> DEFINE c == in.cancelation
    <3>1. IsSeq(c)  BY <1>4, OptionalIs DEF InHand, InputOK
    <3>2. pm = [i \in DOMAIN c |-> pm[i]]  BY DEF PaymentMeans
    <3> HIDE DEF c, pm
    <3> QED BY <3>1, <3>2, MappedLength
  <2>2. IsSeq(tt)
    <3>1. b.debit \in BOOLEAN  BY <1>4, BuilderIs DEF InHand, InputOK
    <3> HIDE DEF b
    <3> QED BY <1>3, <3>1, TaxTotalIs
  <2>3. IsSeq(ls)
    <3>1. ls = [i \in DOMAIN lines |-> ls[i]]  OBVIOUS
    <3>2. IsSeq(lines)  BY <1>4 DEF SomeLines
    <3> HIDE DEF ls
    <3> QED BY <3>1, <3>2, MappedLength
  <2>4. IsDocument(d) /\ d["PaymentMeans"] = <<>> /\ d["TaxTotal"] = <<>>
        /\ d["InvoiceLine"] = <<>>
    BY <1>4 DEF Rendered, NoTotals
  <2>5. "PaymentMeans" \in Tags /\ "TaxTotal" \in Tags /\ "InvoiceLine" \in Tags
        /\ "LegalMonetaryTotal" \in Tags
    BY DEF Tags
  <2> HIDE DEF pm, ls, d
  <2>6. d1 = [d EXCEPT !["PaymentMeans"] = pm]  BY <2>1, <2>4, <2>5, SetAllIs
  <2> HIDE DEF d1
  <2>7. /\ IsDocument(d1) /\ d1.PaymentMeans = pm
        /\ \A tag \in Tags \ {"PaymentMeans"} : d1[tag] = d[tag]
    BY <2>4, <2>5, <2>6 DEF IsDocument
  <2>8. d1["TaxTotal"] = <<>> /\ d1["InvoiceLine"] = <<>>  BY <2>4, <2>5, <2>7
  <2>9. d2 = [d1 EXCEPT !["TaxTotal"] = tt]  BY <2>2, <2>5, <2>7, <2>8, SetAllIs
  <2> HIDE DEF d2
  <2>10. /\ IsDocument(d2) /\ d2.TaxTotal = tt
         /\ \A tag \in Tags \ {"TaxTotal"} : d2[tag] = d1[tag]
    BY <2>5, <2>7, <2>9 DEF IsDocument
  <2>11. d3 = [d2 EXCEPT !["LegalMonetaryTotal"] = <<m>>]  BY DEF set
  <2> HIDE DEF d3
  <2>12. /\ IsDocument(d3) /\ d3.LegalMonetaryTotal = <<m>>
         /\ \A tag \in Tags \ {"LegalMonetaryTotal"} : d3[tag] = d2[tag]
    BY <2>5, <2>10, <2>11 DEF IsDocument
  <2>13. d3["InvoiceLine"] = <<>>  BY <2>5, <2>8, <2>10, <2>12
  <2>14. d4 = [d3 EXCEPT !["InvoiceLine"] = ls]  BY <2>3, <2>5, <2>12, <2>13, SetAllIs
  <2> HIDE DEF d4
  <2>15. /\ IsDocument(d4) /\ d4.InvoiceLine = ls
         /\ \A tag \in Tags \ {"InvoiceLine"} : d4[tag] = d3[tag]
    BY <2>5, <2>12, <2>14 DEF IsDocument
  <2>16. /\ d4.PaymentMeans = pm /\ d4.TaxTotal = tt /\ d4.LegalMonetaryTotal = <<m>>
         /\ \A tag \in Tags \ {"PaymentMeans", "TaxTotal", "LegalMonetaryTotal", "InvoiceLine"} :
               d4[tag] = d[tag]
    BY <2>5, <2>7, <2>10, <2>12, <2>15
  <2>17. Rendered(d4, in) /\ Customer(d4, in)
    BY <1>4, <2>15, <2>16 DEF Rendered, Customer, Supplier, Tags
  <2>18. Complete(d4, in, lines)
    BY <1>3, <2>15, <2>16, <2>17 DEF Complete, pm, ls
  <2>19. d4 = D(tt, m)  BY DEF d4, d3, d2, d1, d, ls, pm
  <2> QED BY <2>18, <2>19
<1> DEFINE e == D(tt, m)
<1>6. doc' = <<e>> /\ Complete(e, in, lines)  BY <1>3, <1>5
<1> HIDE DEF e
<1>7. doc'[1] = e /\ Len(doc') = 1  BY <1>6
<1>8. Len(doc') <= 1  BY <1>7
<1> QED BY <1>1, <1>6, <1>7, <1>8 DEF Inv

\* The document is signed, or lost.
LEMMA SignInv ==
    ASSUME Inv, NEW c, SignDocument(c)
    PROVE  Inv'
<1> DEFINE in == input[1]
           d == doc[1]
           n == asked - 1
           r == generateSignedXMLString(d, c)
           b == [input |-> in, lines |-> lines, doc |-> r.signed,
                 invoiceHash |-> r.invoice_hash, qr |-> r.qr]
<1>1. /\ pc = "sign" /\ pc' = "idle"
      /\ asked' = asked /\ counter' = counter /\ input' = input /\ template' = template
      /\ doc' = doc /\ lines' = lines
  BY DEF SignDocument
<1>2. built' = IF r.ok THEN Append(built, b) ELSE built  BY DEF SignDocument, Built
<1>3. /\ InHand(in, template, counter, built) /\ SomeLines(lines)
      /\ LinesOK(lines, Builder[in.kind].debit)
      /\ Complete(d, in, lines) /\ Len(lines) = Len(in.lineItems)
      /\ Archive(built, n, counter)
  BY <1>1 DEF Inv
<1>4. n \in Nat /\ n + 1 = asked
  <2>1. Len(Requests) \in Nat  BY BuildAssumption
  <2> QED BY <1>1, <2>1 DEF Inv
<1>5. /\ in.kind \in Phase2Kind /\ in.issueTime.z
      /\ Optional(in.cancelation) /\ Optional(in.buyerName) /\ Optional(in.buyerInfo)
      /\ in.lineItems \in Seq(LineItem) /\ in.lineItems # <<>>
      /\ Counted([input |-> in], counter) /\ Fresh([input |-> in], built)
      /\ in.previousInvoiceHash = HashBefore(built, Len(built) + 1, in.kind)
  BY <1>3 DEF InHand, InputOK
<1>6. /\ b.input = in /\ b.lines = lines /\ b.doc = r.signed
      /\ b.invoiceHash = r.invoice_hash /\ b.qr = r.qr
  OBVIOUS
<1>7. Rendered(d, in)  BY <1>3 DEF Complete
<1>8. IsSeq(lines)  BY <1>3 DEF SomeLines
<1>9. Len(lines) >= 1
  <2> DEFINE items == in.lineItems
  <2>1. items \in Seq(LineItem) /\ items # <<>> /\ Len(lines) = Len(items)  BY <1>3, <1>5
  <2> HIDE DEF items
  <2>2. Len(items) \in Nat /\ Len(items) # 0  BY <2>1
  <2> QED BY <2>1, <2>2
<1>10. r = generateSignedXMLString(d, c)  OBVIOUS
<1> HIDE DEF b, r, d, in, n
<1>11. Archive(built', n + 1, counter)
  <2>1. CASE ~r.ok
    <3>1. built' = built  BY <1>2, <2>1
    <3> QED BY <1>3, <1>4, <3>1, ArchivePasses
  <2>2. CASE r.ok
    <3>1. built' = Append(built, b)  BY <1>2, <2>2
    <3>2. Finished(b, d, c)  BY <1>6, <1>7, <1>10, <2>2, ResultIs
    <3>3. Rendered(d, b.input) /\ b.input.issueTime.z  BY <1>5, <1>6, <1>7
    <3>4. SignatureOK(b) /\ ReferencesOK(b)  BY <3>2, <3>3, FinishedSignature
    <3>5. TimesOK(b)  BY <3>2, <3>3, FinishedTimes
    <3>6. Complete(d, b.input, lines) /\ b.input.kind \in Phase2Kind  BY <1>3, <1>5, <1>6
    <3>7. QrOK(b)  BY <3>2, <3>6, FinishedQr
    <3>8. /\ Len(lines) = Len(b.input.lineItems)
          /\ Optional(b.input.cancelation) /\ Optional(b.input.buyerName)
          /\ Optional(b.input.buyerInfo)
      BY <1>3, <1>5, <1>6
    <3>9. PartsOK(b)  BY <1>8, <3>2, <3>6, <3>8, FinishedParts
    <3>10. lines = b.lines /\ LinesOK(lines, Builder[b.input.kind].debit)  BY <1>3, <1>6
    <3>11. CohereOK(b)  BY <1>8, <1>9, <3>2, <3>6, <3>10, FinishedTotals
    <3>12. BuiltOK(b)  BY <3>4, <3>5, <3>7, <3>9, <3>11 DEF BuiltOK
    <3>13. /\ Counted(b, counter) /\ Fresh(b, built)
           /\ b.input.previousInvoiceHash = HashBefore(built, Len(built) + 1, b.input.kind)
      <4>1. [input |-> in].input = in  OBVIOUS
      <4> QED BY <1>5, <1>6, <4>1 DEF Counted, Fresh, MonthOf
    <3>14. Archive(Append(built, b), n + 1, counter)
      BY <1>3, <1>4, <3>12, <3>13, ArchiveGrows
    <3> QED BY <3>1, <3>14
  <2> QED BY <2>1, <2>2
<1>12. Archive(built', asked', counter')  BY <1>1, <1>4, <1>11
<1> QED BY <1>1, <1>12 DEF Inv

\* Every step keeps the invariant.
LEMMA StepInv ==
    ASSUME Inv, [Next]_vars
    PROVE  Inv'
<1>1. ASSUME asked < Len(Requests), NEW r \in Requests[asked + 1], Render(r) PROVE Inv'
  BY <1>1, RenderInv
<1>2. ASSUME asked < Len(Requests), NEW r \in Requests[asked + 1], Phase1(r) PROVE Inv'
  BY <1>2, Phase1Inv
<1>3. CASE BuildLine  BY <1>3, BuildLineInv
<1>4. CASE Totals  BY <1>4, TotalsInv
<1>5. ASSUME NEW c \in Certificate, SignDocument(c) PROVE Inv'  BY <1>5, SignInv
<1>6. CASE UNCHANGED vars
  <2>1. /\ pc' = pc /\ asked' = asked /\ counter' = counter /\ input' = input
      /\ template' = template
        /\ doc' = doc /\ lines' = lines /\ built' = built
    BY <1>6 DEF vars
  <2> QED BY <2>1 DEF Inv
<1> QED BY <1>1, <1>2, <1>3, <1>4, <1>5, <1>6 DEF Next

\* The invariant holds always.
LEMMA InvHolds == Spec => []Inv
<1>1. Init => Inv  BY InitInv
<1>2. Inv /\ [Next]_vars => Inv'  BY StepInv
<1> QED BY <1>1, <1>2, PTL DEF Spec

\* BaseInvoiceBuilder.build, for any requests: no slot of a template is replaced
\* twice, the amounts of the lines are whole halalas, and at most one document
\* comes out per counter value.
THEOREM Types == Spec => []TypeOK
<1>1. Inv => TypeOK
  <2> SUFFICES ASSUME Inv PROVE TypeOK  OBVIOUS
  <2>1. Len(Requests) \in Nat  BY BuildAssumption
  <2>2. ASSUME NEW l \in Range(lines)
        PROVE  /\ {l.subtotal, l.total} \cup Range(l.taxes) \subseteq Int
               /\ l.net.e \in Side
    <3>1. IsSeq(lines)  BY DEF Inv, SomeLines
    <3>2. PICK i \in 1 .. Len(lines) : l = lines[i]  BY <3>1, SeqFacts DEF Range
    <3>3. PICK debit \in BOOLEAN : LineOK(l, debit)  BY <3>2 DEF Inv, SomeLines
    <3>4. l.subtotal \in Int /\ l.total \in Int /\ Whole(l.taxes) /\ l.net.e \in Side
      BY <3>3, LineWhole
    <3> DEFINE ts == l.taxes
    <3> HIDE DEF ts
    <3>5. Whole(ts)  BY <3>4 DEF ts
    <3>6. Range(ts) \subseteq Int  BY <3>5, SeqFacts DEF Whole, Range
    <3> QED BY <3>4, <3>6 DEF ts
  <2>3. Len(built) <= asked
    <3>1. CASE pc = "idle"  BY <3>1 DEF Inv, Archive
    <3>2. CASE pc # "idle"
      <4>1. Archive(built, asked - 1, counter) /\ asked \in Nat  BY <3>2, <2>1 DEF Inv
      <4>2. Len(built) \in Nat /\ Len(built) <= asked - 1  BY <4>1, SeqFacts DEF Archive
      <4> QED BY <4>1, <4>2
    <3> QED BY <3>1, <3>2
  <2> QED BY <2>2, <2>3 DEF TypeOK, Inv, WrittenOK
<1> QED BY <1>1, InvHolds, PTL

\* populate*Template, for any requests: every slot of the template holds its own
\* value and the two tokens of the signing code are left, and no other.
THEOREM SlotsAreFilled == Spec => []SlotsFilled
<1>1. Inv => SlotsFilled  BY DEF Inv, InHand, Populated, SlotsFilled
<1> QED BY <1>1, InvHolds, PTL

\* The Phase 2 documents built are in order.
LEMMA ChainedOK ==
    ASSUME Inv
    PROVE  /\ IsSeq(built)
           /\ \A k \in DOMAIN built : BuiltOK(built[k])
           /\ \A k \in Chained : /\ k \in DOMAIN built /\ built[k].input.kind \in Phase2Kind
                                 /\ LinkOK(built, k)
<1>1. PICK n : Archive(built, n, counter)  BY DEF Inv
<1>2. IsSeq(built)  BY <1>1 DEF Archive
<1>3. DOMAIN built = 1 .. Len(built)  BY <1>2, SeqFacts
<1> QED BY <1>1, <1>2, <1>3 DEF Archive, Chained

\* generateSignedXMLString, for any requests and certificates: the transforms
\* named in a signed document give the digest in it, which the signature is over
\* and which is the document's hash.
THEOREM SignaturesVerify == Spec => []SignedVerifies
<1>1. Inv => SignedVerifies
  BY ChainedOK DEF SignedVerifies, BuiltOK, SignatureOK
<1> QED BY <1>1, InvHolds, PTL

\* generatePhase1QR and generatePhase2QR, for any requests, certificates and
\* length of a segment: the QR code reads as the finished document, and no length
\* has wrapped.
THEOREM QrCodesMatch == Spec => []QrMatches
<1>1. Inv => QrMatches
  BY ChainedOK DEF QrMatches, BuiltOK, QrOK
<1> QED BY <1>1, InvHolds, PTL

\* For any time zone of the host, the issue time, the QR code's time and the
\* signing time of a document agree.
THEOREM AllTimesAgree == Spec => []TimesAgree
<1>1. Inv => TimesAgree
  BY ChainedOK DEF TimesAgree, BuiltOK, TimesOK
<1> QED BY <1>1, InvHolds, PTL

\* BaseInvoiceBuilder.build, for any requests: a document has its parts, once.
THEOREM PartsAreOnce == Spec => []PartsOnce
<1>1. Inv => PartsOnce
  BY ChainedOK DEF PartsOnce, BuiltOK, PartsOK
<1> QED BY <1>1, InvHolds, PTL

\* The two tax arithmetics, for any number of lines, taxes and amounts: the three
\* computations of a document's amounts stay within the bounds.
THEOREM AmountsCohere == Spec => []TotalsCohere
<1>1. Inv => TotalsCohere
  BY ChainedOK DEF TotalsCohere, BuiltOK, CohereOK
<1> QED BY <1>1, InvHolds, PTL

\* getPureInvoiceString, for any sequence of requests: what is hashed of a
\* document names the hash of its predecessor of its kind, in whatever month that
\* was built, and a counter value higher than those of its month before it.
THEOREM ChainHolds == Spec => []ChainVerifies
<1>1. ASSUME Inv, NEW i \in Chained
      PROVE  LET refs   == built[i].invoiceHash[1].AdditionalDocumentReference
                 month  == built[i].input.invoiceSerialNumber.month
                 before == {j \in Chained :
                               j < i /\ built[j].input.invoiceSerialNumber.month = month}
                 same   == {j \in Chain(built[i].input.kind) : j < i}
             IN  /\ \E k \in DOMAIN refs :
                        /\ refs[k].id = "PIH"
                        /\ Text(refs[k].text) = IF same = {} THEN BaseHash
                                                ELSE <<Transforms(built[Max(same)].doc)>>
                 /\ \E k \in DOMAIN refs :
                        /\ refs[k].id = "ICV"
                        /\ \A j \in before :
                               Text(refs[k].text) > built[j].input.invoiceCounterNumber
  <2> DEFINE b == built[i]
             refs == b.invoiceHash[1].AdditionalDocumentReference
             month == b.input.invoiceSerialNumber.month
             before == {j \in Chained :
                           j < i /\ built[j].input.invoiceSerialNumber.month = month}
             same == {j \in Chain(b.input.kind) : j < i}
             icv == b.input.invoiceCounterNumber
             pih == b.input.previousInvoiceHash
  <2>1. /\ IsSeq(built) /\ BuiltOK(b) /\ b.input.kind \in Phase2Kind /\ LinkOK(built, i)
    BY <1>1, ChainedOK
  <2>2. /\ \A j \in before : j \in Before(built, i) /\ MonthOf(built[j]) = MonthOf(b)
        /\ same = Same(built, i, b.input.kind)
    BY DEF Chain, Chained, Before, Same, MonthOf
  <2>3. refs = <<Reference("ICV", Literal(icv)), Reference("PIH", Literal(pih))>>
    BY <2>1 DEF BuiltOK, ReferencesOK
  <2>4. pih = HashBefore(built, i, b.input.kind)
        /\ \A j \in before : icv > built[j].input.invoiceCounterNumber
    BY <2>1, <2>2 DEF LinkOK
  <2>5. pih = IF same = {} THEN BaseHash ELSE <<Transforms(built[Max(same)].doc)>>
    <3>1. CASE same = {}  BY <2>2, <2>4, <3>1 DEF HashBefore
    <3>2. CASE same # {}
      <4> DEFINE N == Len(built)
                 m == Max(same)
      <4>1. N \in Nat /\ DOMAIN built = 1 .. N  BY <2>1, SeqFacts
      <4>2. same \subseteq 0 .. N  BY <4>1 DEF Chain, Chained
      <4>3. m \in same
        <5> HIDE DEF same, N
        <5> QED BY <3>2, <4>1, <4>2, MaxIsIn
      <4>4. m \in Chained  BY <4>3 DEF Chain
      <4>5. SignatureOK(built[m])  BY <1>1, <4>4, ChainedOK DEF BuiltOK
      <4>6. built[m].invoiceHash = <<Transforms(built[m].doc)>>  BY <4>5 DEF SignatureOK
      <4>7. pih = built[m].invoiceHash  BY <2>2, <2>4, <3>2 DEF HashBefore
      <4> QED BY <3>2, <4>6, <4>7
    <3> QED BY <3>1, <3>2
  <2> HIDE DEF refs, before, same, icv, pih
  <2>6. /\ 1 \in DOMAIN refs /\ refs[1].id = "ICV" /\ refs[1].text = Literal(icv)
        /\ 2 \in DOMAIN refs /\ refs[2].id = "PIH" /\ refs[2].text = Literal(pih)
    <3> DEFINE p == Literal(icv)
               q == Literal(pih)
    <3> HIDE DEF p, q
    <3>1. refs = <<Reference("ICV", p), Reference("PIH", q)>>  BY <2>3 DEF p, q
    <3>2. /\ 1 \in DOMAIN refs /\ refs[1].id = "ICV" /\ refs[1].text = p
          /\ 2 \in DOMAIN refs /\ refs[2].id = "PIH" /\ refs[2].text = q
      BY <3>1 DEF Reference
    <3> QED BY <3>2 DEF p, q
  <2>7. \A v : Text(Literal(v)) = v  BY DEF Text, Literal
  <2>8. \A j \in before : icv > built[j].input.invoiceCounterNumber
    BY <2>4 DEF before, icv
  <2>9. /\ \E k \in DOMAIN refs :
              /\ refs[k].id = "PIH"
              /\ Text(refs[k].text) = IF same = {} THEN BaseHash
                                      ELSE <<Transforms(built[Max(same)].doc)>>
        /\ \E k \in DOMAIN refs :
              /\ refs[k].id = "ICV"
              /\ \A j \in before : Text(refs[k].text) > built[j].input.invoiceCounterNumber
    <3>1. Text(refs[2].text) = pih /\ Text(refs[1].text) = icv  BY <2>6, <2>7
    <3> QED BY <2>5, <2>6, <2>8, <3>1 DEF pih
  <2> QED BY <2>9 DEF refs, before, same, month
<1>2. Inv => ChainVerifies  BY <1>1 DEF ChainVerifies
<1> QED BY <1>2, InvHolds, PTL

=============================================================================
