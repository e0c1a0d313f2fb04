--------------------------- MODULE RunListPlaces ---------------------------
(***************************************************************************)
(* Proofs about RunList: sequences that have each runnable at one place,   *)
(* and how they are merged, moved and shortened; the inductive invariant,  *)
(* that the pointers represent such sequences; the steps of a context that *)
(* change no list; and what the invariant says of the queues.              *)
(***************************************************************************)
EXTENDS RunList, TLAPS

\* time limits of the provers
USE SMTT(30), ZenonT(40)

-----------------------------------------------------------------------------
(* Sequences and the chains of pointers they are read from.                *)

First(s) == IF s = <<>> THEN Null ELSE s[1]
Linked(nx, s) == \A i \in 1..(Len(s) - 1) : nx[s[i]] = s[i + 1]
Ended(nx, s) == s # <<>> => nx[s[Len(s)]] = Null
Inj(s) == \A i, j \in 1..Len(s) : s[i] = s[j] => i = j

LEMMA SameSeq ==
  ASSUME NEW S, NEW s \in Seq(S), NEW t \in Seq(S), Len(s) = Len(t),
         \A i \in 1..Len(s) : s[i] = t[i]
  PROVE  s = t
<1>1. s = [i \in 1..Len(s) |-> s[i]] /\ t = [i \in 1..Len(t) |-> t[i]] OBVIOUS
<1>2. QED BY <1>1, ZenonT(60)

\* pointers that agree on the members of a sequence link it alike
LEMMA SameLinks ==
  ASSUME NEW nx, NEW ny, NEW s \in Seq(Runnable),
         \A i \in 1..Len(s) : ny[s[i]] = nx[s[i]]
  PROVE  /\ Linked(nx, s) => Linked(ny, s)
         /\ Ended(nx, s) => Ended(ny, s)
<1>1. Linked(nx, s) => Linked(ny, s) BY DEF Linked
<1>2. Ended(nx, s) => Ended(ny, s) BY DEF Ended
<1>3. QED BY <1>1, <1>2

LEMMA ReverseType ==
  ASSUME NEW S, NEW s \in Seq(S)
  PROVE  /\ Reverse(s) \in Seq(S) /\ Len(Reverse(s)) = Len(s)
         /\ \A i \in 1..Len(s) : Reverse(s)[i] = s[Len(s) - i + 1]
BY DEF Reverse

LEMMA ConcatType ==
  ASSUME NEW S, NEW s \in Seq(S), NEW t \in Seq(S)
  PROVE  /\ s \o t \in Seq(S) /\ Len(s \o t) = Len(s) + Len(t)
         /\ \A i \in 1..Len(s) : (s \o t)[i] = s[i]
         /\ \A i \in (Len(s) + 1)..(Len(s) + Len(t)) : (s \o t)[i] = t[i - Len(s)]
OBVIOUS

\* reversed, a concatenation is the concatenation of the reversed, in the other order
LEMMA ReverseConcat ==
  ASSUME NEW S, NEW s \in Seq(S), NEW t \in Seq(S)
  PROVE  Reverse(s \o t) = Reverse(t) \o Reverse(s)
<1> DEFINE st == s \o t
           rs == Reverse(s)
           rt == Reverse(t)
           rst == Reverse(st)
           u == rt \o rs
<1>1. /\ st \in Seq(S) /\ Len(st) = Len(s) + Len(t)
      /\ \A i \in 1..Len(s) : st[i] = s[i]
      /\ \A i \in (Len(s) + 1)..(Len(s) + Len(t)) : st[i] = t[i - Len(s)]
  BY ConcatType
<1> HIDE DEF st
<1>2. /\ rs \in Seq(S) /\ Len(rs) = Len(s)
      /\ \A i \in 1..Len(s) : rs[i] = s[Len(s) - i + 1]
  BY ReverseType, ZenonT(60)
<1>3. /\ rt \in Seq(S) /\ Len(rt) = Len(t)
      /\ \A i \in 1..Len(t) : rt[i] = t[Len(t) - i + 1]
  BY ReverseType, ZenonT(60)
<1>4. /\ rst \in Seq(S) /\ Len(rst) = Len(st)
      /\ \A i \in 1..Len(st) : rst[i] = st[Len(st) - i + 1]
  BY <1>1, ReverseType, ZenonT(60)
<1> HIDE DEF rs, rt, rst
<1>5. /\ u \in Seq(S) /\ Len(u) = Len(rt) + Len(rs)
      /\ \A i \in 1..Len(rt) : u[i] = rt[i]
      /\ \A i \in (Len(rt) + 1)..(Len(rt) + Len(rs)) : u[i] = rs[i - Len(rt)]
  <2>1. rs \in Seq(S) /\ rt \in Seq(S) BY <1>2, <1>3
  <2>2. QED BY <2>1, ConcatType
<1> HIDE DEF u
<1>6. Len(s) \in Nat /\ Len(t) \in Nat OBVIOUS
<1>7. ASSUME NEW i \in 1..Len(st) PROVE rst[i] = u[i]
  <2>1. CASE i <= Len(t)
    <3>1. rst[i] = st[Len(s) + Len(t) - i + 1] BY <1>1, <1>4, <1>6
    <3>2. rst[i] = t[Len(t) - i + 1] BY <1>1, <1>6, <2>1, <3>1
    <3>3. QED BY <1>3, <1>5, <1>6, <2>1, <3>2
  <2>2. CASE i > Len(t)
    <3>1. rst[i] = s[Len(s) + Len(t) - i + 1]
      <4>1. Len(st) = Len(s) + Len(t) BY <1>1, ZenonT(60)
      <4>2. Len(st) - i + 1 \in 1..Len(s) /\ Len(st) - i + 1 = Len(s) + Len(t) - i + 1 BY <1>6, <2>2, <4>1
      <4>3. rst[i] = st[Len(st) - i + 1] BY <1>4, ZenonT(60)
      <4>4. st[Len(st) - i + 1] = s[Len(st) - i + 1] BY <1>1, <4>2, ZenonT(60)
      <4>5. QED BY <4>2, <4>3, <4>4
    <3>2. u[i] = rs[i - Len(t)]
      <4>1. i \in (Len(rt) + 1)..(Len(rt) + Len(rs)) /\ Len(rt) = Len(t)
        <5>1. Len(st) = Len(s) + Len(t) /\ Len(rs) = Len(s) /\ Len(rt) = Len(t)
          BY <1>1, <1>2, <1>3, ZenonT(60)
        <5>2. QED BY <1>6, <2>2, <5>1
      <4>2. QED BY <1>5, <4>1, ZenonT(60)
    <3>3. rs[i - Len(t)] = s[Len(s) - (i - Len(t)) + 1]
      <4>1. Len(st) = Len(s) + Len(t) BY <1>1, ZenonT(60)
      <4>2. i - Len(t) \in 1..Len(s) BY <1>6, <2>2, <4>1
      <4>3. QED BY <1>2, <4>2, ZenonT(60)
    <3>4. QED BY <1>6, <3>1, <3>2, <3>3
  <2>3. QED BY <1>1, <1>6, <2>1, <2>2
<1>8. Len(rst) = Len(st) /\ Len(u) = Len(st) BY <1>1, <1>2, <1>3, <1>4, <1>5, <1>6
<1>9. rst \in Seq(S) /\ u \in Seq(S) /\ Len(rst) = Len(u) /\ \A i \in 1..Len(rst) : rst[i] = u[i]
  BY <1>4, <1>5, <1>7, <1>8, ZenonT(60)
<1>10. rst = u BY <1>9, SameSeq, ZenonT(60)
<1>11. QED BY <1>10 DEF st, rs, rt, rst, u

Associative(s, t, u) == (s \o t) \o u = s \o (t \o u)

LEMMA ConcatAssoc ==
  ASSUME NEW S, NEW s \in Seq(S), NEW t \in Seq(S), NEW u \in Seq(S)
  PROVE  Associative(s, t, u)
<1> DEFINE v == (s \o t) \o u
           x == s \o (t \o u)
<1>1. v \in Seq(S) /\ x \in Seq(S) /\ Len(v) = Len(x) /\ Len(v) = Len(s) + Len(t) + Len(u) OBVIOUS
<1>2. \A i \in 1..Len(v) : v[i] = x[i] OBVIOUS
<1> HIDE DEF v, x
<1>3. v = x BY <1>1, <1>2, SameSeq, ZenonT(60)
<1>4. QED BY <1>3, ZenonT(60) DEF v, x, Associative

-----------------------------------------------------------------------------
(* What the pointers stand for: g gives the members of every list, newest  *)
(* first, of the runqueue, oldest first, and of what each context is       *)
(* moving; loc gives the one place of each runnable, or Off.               *)

L(l) == <<"list", l>>
C(p) == <<"ctx", p>>
Rq == <<"rq", Null>>
Off == <<"off", Null>>
Place == {L(l) : l \in Heads} \union {C(p) : p \in Ctx} \union {Rq}

LEMMA PlacesDiffer ==
  /\ \A l \in Heads : L(l) \in Place /\ L(l) # Rq /\ L(l) # Off
  /\ \A p \in Ctx : C(p) \in Place /\ C(p) # Rq /\ C(p) # Off
  /\ \A l, m \in Heads : L(l) = L(m) => l = m
  /\ \A p, q \in Ctx : C(p) = C(q) => p = q
  /\ \A l \in Heads, p \in Ctx : L(l) # C(p)
  /\ Rq \in Place /\ Rq # Off /\ Off \notin Place
  /\ Fresh \in Heads /\ List \subseteq Heads /\ \A l \in List : l # Fresh
  /\ \A x \in Place : x = Rq \/ (\E l \in Heads : x = L(l)) \/ (\E p \in Ctx : x = C(p))
BY RunListAssumption DEF Place, L, C, Rq, Off, Heads

Placed(g, loc) ==
  /\ g \in [Place -> Seq(Runnable)]
  /\ loc \in [Runnable -> Place \union {Off}]
  /\ \A x \in Place : Inj(g[x])
  /\ \A x \in Place : \A i \in 1..Len(g[x]) : loc[g[x][i]] = x
  /\ \A r \in Runnable : loc[r] # Off => \E i \in 1..Len(g[loc[r]]) : g[loc[r]][i] = r

\* s has the runnables that are at one of the places X, each once
Holds(loc, X, s) ==
  /\ s \in Seq(Runnable) /\ Inj(s)
  /\ \A i \in 1..Len(s) : loc[s[i]] \in X
  /\ \A r \in Runnable : loc[r] \in X => \E i \in 1..Len(s) : s[i] = r

\* one runnable is put at an empty place
LEMMA PutOne ==
  ASSUME NEW g, NEW loc, Placed(g, loc), NEW x \in Place, g[x] = <<>>,
         NEW r \in Runnable, loc[r] = Off
  PROVE  Placed([g EXCEPT ![x] = <<r>>], [loc EXCEPT ![r] = x])
<1> DEFINE g2 == [g EXCEPT ![x] = <<r>>]
           loc2 == [loc EXCEPT ![r] = x]
<1>1. g2 \in [Place -> Seq(Runnable)] /\ loc2 \in [Runnable -> Place \union {Off}]
  BY DEF Placed
<1>2. g2[x] = <<r>> /\ \A y \in Place : y # x => g2[y] = g[y] BY DEF Placed
<1>3. loc2[r] = x /\ \A q \in Runnable : q # r => loc2[q] = loc[q] BY DEF Placed
<1>4. Off # x BY PlacesDiffer
<1>5. Len(<<r>>) = 1 /\ <<r>>[1] = r OBVIOUS
<1> HIDE DEF g2, loc2
<1>6. ASSUME NEW y \in Place
      PROVE  Inj(g2[y]) /\ \A i \in 1..Len(g2[y]) : loc2[g2[y][i]] = y
  <2>1. CASE y = x BY <2>1, <1>2, <1>3, <1>5 DEF Inj
  <2>2. CASE y # x
    <3>1. g2[y] = g[y] /\ Inj(g[y]) /\ g[y] \in Seq(Runnable) BY <2>2, <1>2 DEF Placed
    <3>2. \A i \in 1..Len(g[y]) : g[y][i] \in Runnable /\ loc[g[y][i]] = y BY <3>1 DEF Placed
    <3>3. Off # y BY PlacesDiffer
    <3>4. \A i \in 1..Len(g[y]) : g[y][i] # r BY <3>2, <3>3
    <3>5. QED BY <3>1, <3>2, <3>4, <1>3
  <2>3. QED BY <2>1, <2>2
<1>7. ASSUME NEW q \in Runnable, loc2[q] # Off
      PROVE  \E i \in 1..Len(g2[loc2[q]]) : g2[loc2[q]][i] = q
  <2>1. CASE q = r
    <3>1. g2[loc2[q]] = <<r>> BY <2>1, <1>2, <1>3
    <3>2. 1 \in 1..Len(<<r>>) /\ <<r>>[1] = q BY <2>1, <1>5
    <3>3. QED BY <3>1, <3>2
  <2>2. CASE q # r
    <3>1. loc2[q] = loc[q] /\ loc[q] \in Place BY <2>2, <1>3, <1>7 DEF Placed
    <3>2. PICK i \in 1..Len(g[loc[q]]) : g[loc[q]][i] = q BY <3>1, <1>7 DEF Placed
    <3>3. loc[q] # x
      <4>1. SUFFICES ASSUME loc[q] = x PROVE FALSE OBVIOUS
      <4>2. i \in 1..Len(<<>>) BY <3>2, <4>1
      <4>3. QED BY <4>2
    <3>4. QED BY <3>1, <3>2, <3>3, <1>2
  <2>3. QED BY <2>1, <2>2
<1>8. Placed(g2, loc2) BY <1>1, <1>6, <1>7 DEF Placed
<1>9. QED BY <1>8 DEF g2, loc2

\* the members of two places are brought together at the second, as u
Moved(g, x, y, u) == [g EXCEPT ![y] = u, ![x] = <<>>]
Relocated(loc, x, y) == [r \in Runnable |-> IF loc[r] = x THEN y ELSE loc[r]]

LEMMA Merge ==
  ASSUME NEW g, NEW loc, Placed(g, loc), NEW x \in Place, NEW y \in Place, x # y,
         NEW u, Holds(loc, {x, y}, u)
  PROVE  Placed(Moved(g, x, y, u), Relocated(loc, x, y))
<1> DEFINE g2 == [g EXCEPT ![y] = u, ![x] = <<>>]
           loc2 == [r \in Runnable |-> IF loc[r] = x THEN y ELSE loc[r]]
<1> USE DEF Holds
<1>1. g2 \in [Place -> Seq(Runnable)] /\ loc2 \in [Runnable -> Place \union {Off}]
  BY DEF Placed
<1>2. g2[x] = <<>> /\ g2[y] = u /\ \A z \in Place : z \notin {x, y} => g2[z] = g[z] BY DEF Placed
<1>3. \A r \in Runnable : loc2[r] = IF loc[r] = x THEN y ELSE loc[r] OBVIOUS
<1>4. Off \notin {x, y} BY PlacesDiffer
<1>5. \A i \in 1..Len(u) : u[i] \in Runnable OBVIOUS
<1>6. Len(<<>>) = 0 OBVIOUS
<1> HIDE DEF g2, loc2
<1>7. ASSUME NEW z \in Place
      PROVE  Inj(g2[z]) /\ \A i \in 1..Len(g2[z]) : loc2[g2[z][i]] = z
  <2>1. CASE z = x BY <2>1, <1>2, <1>6 DEF Inj
  <2>2. CASE z = y
    <3>1. \A i \in 1..Len(u) : loc2[u[i]] = y BY <1>3, <1>5
    <3>2. QED BY <2>2, <3>1, <1>2
  <2>3. CASE z \notin {x, y}
    <3>1. g2[z] = g[z] /\ Inj(g[z]) /\ g[z] \in Seq(Runnable) BY <2>3, <1>2 DEF Placed
    <3>2. \A i \in 1..Len(g[z]) : g[z][i] \in Runnable /\ loc[g[z][i]] = z BY <3>1 DEF Placed
    <3>3. QED BY <2>3, <3>1, <3>2, <1>3
  <2>4. QED BY <2>1, <2>2, <2>3
<1>8. ASSUME NEW q \in Runnable, loc2[q] # Off
      PROVE  \E i \in 1..Len(g2[loc2[q]]) : g2[loc2[q]][i] = q
  <2>1. CASE loc[q] \in {x, y}
    <3>1. g2[loc2[q]] = u BY <2>1, <1>2, <1>3
    <3>2. QED BY <2>1, <3>1
  <2>2. CASE loc[q] \notin {x, y}
    <3>1. loc2[q] = loc[q] /\ loc[q] \in Place BY <2>2, <1>3, <1>8 DEF Placed
    <3>2. PICK i \in 1..Len(g[loc[q]]) : g[loc[q]][i] = q BY <3>1, <1>8 DEF Placed
    <3>3. QED BY <2>2, <3>1, <3>2, <1>2
  <2>3. QED BY <2>1, <2>2
<1>9. Placed(g2, loc2) BY <1>1, <1>7, <1>8 DEF Placed
<1>10. QED BY <1>9 DEF g2, loc2, Moved, Relocated

\* the first member is taken off a place
LEMMA Pop ==
  ASSUME NEW g, NEW loc, Placed(g, loc), NEW x \in Place, g[x] # <<>>
  PROVE  Placed([g EXCEPT ![x] = Tail(g[x])], [loc EXCEPT ![g[x][1]] = Off])
<1> DEFINE s == g[x]
           t == Tail(s)
           g2 == [g EXCEPT ![x] = t]
           loc2 == [loc EXCEPT ![s[1]] = Off]
<1>1. s \in Seq(Runnable) /\ s # <<>> /\ Inj(s) BY DEF Placed
<1>2. \A i \in 1..Len(s) : loc[s[i]] = x BY DEF Placed
<1> HIDE DEF s
<1>3. /\ Len(s) \in Nat /\ Len(s) >= 1 /\ t \in Seq(Runnable) /\ Len(t) = Len(s) - 1
      /\ \A i \in 1..Len(t) : t[i] = s[i + 1]
      /\ \A i \in 1..Len(s) : s[i] \in Runnable
  BY <1>1
<1> HIDE DEF t
<1>4. g2 \in [Place -> Seq(Runnable)] /\ loc2 \in [Runnable -> Place \union {Off}]
  BY <1>3 DEF Placed
<1>5. g2[x] = t /\ \A z \in Place : z # x => g2[z] = g[z] BY DEF Placed
<1>6. s[1] \in Runnable /\ loc2[s[1]] = Off /\ \A r \in Runnable : r # s[1] => loc2[r] = loc[r]
  BY <1>3 DEF Placed
<1>7. Off # x /\ loc[s[1]] = x BY <1>2, <1>3, PlacesDiffer
<1> HIDE DEF g2, loc2
<1>8. \A i \in 1..Len(t) : t[i] \in Runnable /\ t[i] # s[1] /\ loc[t[i]] = x
  BY <1>1, <1>2, <1>3 DEF Inj
<1>9. Inj(t) BY <1>1, <1>3 DEF Inj
<1>10. ASSUME NEW z \in Place
      PROVE  Inj(g2[z]) /\ \A i \in 1..Len(g2[z]) : loc2[g2[z][i]] = z
  <2>1. CASE z = x BY <2>1, <1>5, <1>6, <1>8, <1>9
  <2>2. CASE z # x
    <3>1. g2[z] = g[z] /\ Inj(g[z]) /\ g[z] \in Seq(Runnable) BY <2>2, <1>5 DEF Placed
    <3>2. \A i \in 1..Len(g[z]) : g[z][i] \in Runnable /\ loc[g[z][i]] = z BY <3>1 DEF Placed
    <3>3. \A i \in 1..Len(g[z]) : g[z][i] # s[1] BY <2>2, <3>2, <1>7
    <3>4. QED BY <3>1, <3>2, <3>3, <1>6
  <2>3. QED BY <2>1, <2>2
<1>11. ASSUME NEW q \in Runnable, loc2[q] # Off
      PROVE  \E i \in 1..Len(g2[loc2[q]]) : g2[loc2[q]][i] = q
  <2>1. q # s[1] /\ loc2[q] = loc[q] /\ loc[q] \in Place BY <1>6, <1>11 DEF Placed
  <2>2. PICK i \in 1..Len(g[loc[q]]) : g[loc[q]][i] = q BY <2>1, <1>11 DEF Placed
  <2>3. CASE loc[q] = x
    <3>1. i \in 1..Len(s) /\ s[i] = q /\ i # 1 BY <2>1, <2>2, <2>3 DEF s
    <3>2. i - 1 \in 1..Len(t) /\ t[i - 1] = q BY <3>1, <1>3
    <3>3. QED BY <2>1, <2>3, <3>2, <1>5
  <2>4. CASE loc[q] # x BY <2>1, <2>2, <2>4, <1>5
  <2>5. QED BY <2>3, <2>4
<1>12. Placed(g2, loc2) BY <1>4, <1>10, <1>11 DEF Placed
<1>13. QED BY <1>12 DEF g2, loc2, t, s

\* u is s followed by t
Joined(u, s, t) ==
  /\ u \in Seq(Runnable) /\ Len(u) = Len(s) + Len(t)
  /\ \A i \in 1..Len(s) : u[i] = s[i]
  /\ \A i \in (Len(s) + 1)..(Len(s) + Len(t)) : u[i] = t[i - Len(s)]

LEMMA ConcatJoined ==
  ASSUME NEW s \in Seq(Runnable), NEW t \in Seq(Runnable)
  PROVE  Joined(s \o t, s, t)
BY ConcatType DEF Joined

\* the end of s points at t
Leads(nx, s, t) == s # <<>> => nx[s[Len(s)]] = First(t)

\* a chain whose end points at another is one chain with it
LEMMA JoinLinks ==
  ASSUME NEW nx, NEW s \in Seq(Runnable), NEW t \in Seq(Runnable), NEW u, Joined(u, s, t),
         Linked(nx, s), Linked(nx, t), Ended(nx, t), Leads(nx, s, t)
  PROVE  /\ Linked(nx, u) /\ Ended(nx, u)
         /\ First(u) = IF s = <<>> THEN First(t) ELSE s[1]
<1> USE DEF Leads
<1>1. /\ u \in Seq(Runnable) /\ Len(u) = Len(s) + Len(t)
      /\ \A i \in 1..Len(s) : u[i] = s[i]
      /\ \A i \in (Len(s) + 1)..(Len(s) + Len(t)) : u[i] = t[i - Len(s)]
  BY DEF Joined
<1>2. Len(s) \in Nat /\ Len(t) \in Nat /\ (s = <<>> <=> Len(s) = 0) /\ (t = <<>> <=> Len(t) = 0)
  OBVIOUS
<1>3. u = <<>> <=> Len(u) = 0 BY <1>1
<1>4. Linked(nx, u)
  <2>1. ASSUME NEW i \in 1..(Len(u) - 1) PROVE nx[u[i]] = u[i + 1]
    <3>1. CASE i < Len(s)
      <4>1. u[i] = s[i] /\ u[i + 1] = s[i + 1] BY <1>1, <1>2, <3>1
      <4>2. i \in 1..(Len(s) - 1) BY <1>2, <3>1
      <4>3. QED BY <4>1, <4>2, ZenonT(40) DEF Linked
    <3>2. CASE i = Len(s)
      <4>1. u[i] = s[i] /\ u[i + 1] = t[1] /\ s # <<>> /\ t # <<>> BY <1>1, <1>2, <3>2
      <4>2. QED BY <3>2, <4>1 DEF First
    <3>3. CASE i > Len(s)
      <4>1. u[i] = t[i - Len(s)] /\ u[i + 1] = t[(i + 1) - Len(s)] BY <1>1, <1>2, <3>3
      <4>2. i - Len(s) \in 1..(Len(t) - 1) /\ (i + 1) - Len(s) = (i - Len(s)) + 1 BY <1>1, <1>2, <3>3
      <4>3. nx[t[i - Len(s)]] = t[(i - Len(s)) + 1] BY <4>2 DEF Linked
      <4>4. QED BY <4>1, <4>2, <4>3
    <3>4. QED BY <1>1, <1>2, <3>1, <3>2, <3>3
  <2>2. QED BY <2>1 DEF Linked
<1>5. Ended(nx, u)
  <2>1. CASE t = <<>>
    <3>1. Len(u) = Len(s) BY <1>1, <1>2, <2>1
    <3>2. CASE s = <<>> BY <1>2, <1>3, <3>1, <3>2 DEF Ended
    <3>3. CASE s # <<>>
      <4>1. u[Len(u)] = s[Len(s)] BY <1>1, <1>2, <3>1, <3>3
      <4>2. QED BY <2>1, <3>3, <4>1 DEF Ended, First
    <3>4. QED BY <3>2, <3>3
  <2>2. CASE t # <<>>
    <3>1. u[Len(u)] = t[Len(t)]
      <4>1. Len(u) \in (Len(s) + 1)..(Len(s) + Len(t)) /\ Len(u) - Len(s) = Len(t) BY <1>1, <1>2, <2>2
      <4>2. QED BY <1>1, <4>1
    <3>2. QED BY <2>2, <3>1 DEF Ended
  <2>3. QED BY <2>1, <2>2
<1>6. First(u) = IF s = <<>> THEN First(t) ELSE s[1]
  <2>1. CASE s = <<>>
    <3>1. CASE t = <<>> BY <1>1, <1>2, <1>3, <2>1, <3>1 DEF First
    <3>2. CASE t # <<>>
      <4>1. u # <<>> /\ u[1] = t[1] BY <1>1, <1>2, <1>3, <2>1, <3>2
      <4>2. QED BY <2>1, <3>2, <4>1 DEF First
    <3>3. QED BY <3>1, <3>2
  <2>2. CASE s # <<>>
    <3>1. u # <<>> /\ u[1] = s[1] BY <1>1, <1>2, <1>3, <2>2
    <3>2. QED BY <2>2, <3>1 DEF First
  <2>3. QED BY <2>1, <2>2
<1>7. QED BY <1>4, <1>5, <1>6

\* the members of two places x and y, one after the other
LEMMA JoinMembers ==
  ASSUME NEW loc, NEW x, NEW y, x # y, NEW s, NEW t, NEW u,
         Holds(loc, {x}, s), Holds(loc, {y}, t), Joined(u, s, t)
  PROVE  Holds(loc, {x, y}, u)
<1> USE DEF Holds
<1>1. /\ u \in Seq(Runnable) /\ Len(u) = Len(s) + Len(t)
      /\ \A i \in 1..Len(s) : u[i] = s[i]
      /\ \A i \in (Len(s) + 1)..(Len(s) + Len(t)) : u[i] = t[i - Len(s)]
  BY ZenonT(40) DEF Joined
<1>2. Len(s) \in Nat /\ Len(t) \in Nat OBVIOUS
<1>3. ASSUME NEW i \in 1..Len(u)
      PROVE  /\ i <= Len(s) => i \in 1..Len(s) /\ u[i] = s[i] /\ loc[u[i]] = x
             /\ i > Len(s) => i - Len(s) \in 1..Len(t) /\ u[i] = t[i - Len(s)] /\ loc[u[i]] = y
  <2>1. CASE i <= Len(s) BY <1>1, <1>2, <2>1
  <2>2. CASE i > Len(s)
    <3>1. i - Len(s) \in 1..Len(t) /\ i \in (Len(s) + 1)..(Len(s) + Len(t)) BY <1>1, <1>2, <2>2
    <3>2. QED BY <1>1, <1>2, <2>2, <3>1
  <2>3. QED BY <1>2, <2>1, <2>2
<1>4. Inj(u)
  <2>1. ASSUME NEW i \in 1..Len(u), NEW j \in 1..Len(u), u[i] = u[j] PROVE i = j
    <3>1. CASE i <= Len(s) /\ j <= Len(s) BY <1>3, <2>1, <3>1 DEF Inj
    <3>2. CASE i > Len(s) /\ j > Len(s)
      <4>1. i - Len(s) \in 1..Len(t) /\ j - Len(s) \in 1..Len(t) /\ t[i - Len(s)] = t[j - Len(s)]
        BY <1>3, <2>1, <3>2
      <4>2. i - Len(s) = j - Len(s) BY <4>1, ZenonT(60) DEF Inj
      <4>3. QED BY <1>2, <4>2
    <3>3. CASE i <= Len(s) /\ j > Len(s) BY <1>3, <2>1, <3>3
    <3>4. CASE i > Len(s) /\ j <= Len(s) BY <1>3, <2>1, <3>4
    <3>5. QED BY <1>2, <3>1, <3>2, <3>3, <3>4
  <2>2. QED BY <2>1 DEF Inj
<1>5. \A i \in 1..Len(u) : loc[u[i]] \in {x, y}
  <2>1. ASSUME NEW i \in 1..Len(u) PROVE loc[u[i]] \in {x, y}
    <3>1. i <= Len(s) \/ i > Len(s) BY <1>2
    <3>2. QED BY <1>3, <3>1
  <2>2. QED BY <2>1
<1>6. ASSUME NEW r \in Runnable, loc[r] \in {x, y} PROVE \E i \in 1..Len(u) : u[i] = r
  <2>1. CASE loc[r] = x
    <3>1. PICK i \in 1..Len(s) : s[i] = r BY <2>1
    <3>2. i \in 1..Len(u) /\ u[i] = r BY <1>1, <1>2, <3>1
    <3>3. QED BY <3>2
  <2>2. CASE loc[r] = y
    <3>1. PICK i \in 1..Len(t) : t[i] = r BY <2>2
    <3>2. Len(s) + i \in (Len(s) + 1)..(Len(s) + Len(t)) /\ (Len(s) + i) - Len(s) = i BY <1>2
    <3>3. u[Len(s) + i] = t[(Len(s) + i) - Len(s)] BY <1>1, <3>2, ZenonT(60)
    <3>4. Len(s) + i \in 1..Len(u)
      <4>1. Len(u) = Len(s) + Len(t) BY <1>1, ZenonT(60)
      <4>2. QED BY <1>2, <4>1
    <3>5. u[Len(s) + i] = r BY <3>1, <3>2, <3>3, ZenonT(60)
    <3>6. QED BY <3>4, <3>5, ZenonT(60)
  <2>3. QED BY <1>6, <2>1, <2>2
<1>7. QED BY <1>1, <1>4, <1>5, <1>6

\* what a place holds and who is there
LEMMA PlaceFacts ==
  ASSUME NEW g, NEW loc, Placed(g, loc), NEW x \in Place
  PROVE  /\ g[x] \in Seq(Runnable) /\ Inj(g[x])
         /\ \A i \in 1..Len(g[x]) : g[x][i] \in Runnable /\ loc[g[x][i]] = x
         /\ Holds(loc, {x}, g[x])
<1>1. g[x] \in Seq(Runnable) /\ Inj(g[x]) /\ \A i \in 1..Len(g[x]) : loc[g[x][i]] = x BY DEF Placed
<1>2. \A i \in 1..Len(g[x]) : g[x][i] \in Runnable BY <1>1
<1>3. x # Off BY PlacesDiffer
<1>4. QED BY <1>1, <1>2, <1>3 DEF Placed, Holds

\* after the do-while the fresh entries are linked the other way round
LEMMA ReversedLinks ==
  ASSUME NEW nx \in [Runnable -> Ptr], NEW f \in Seq(Runnable), Inj(f)
  PROVE  /\ Reversed(nx, f) \in [Runnable -> Ptr]
         /\ Linked(Reversed(nx, f), Reverse(f)) /\ Ended(Reversed(nx, f), Reverse(f))
         /\ \A r \in Runnable : (\A i \in 1..Len(f) : f[i] # r) => Reversed(nx, f)[r] = nx[r]
<1> DEFINE ny == Reversed(nx, f)
           v == Reverse(f)
<1>1. /\ v \in Seq(Runnable) /\ Len(v) = Len(f)
      /\ \A i \in 1..Len(f) : v[i] = f[Len(f) - i + 1]
  BY ReverseType, ZenonT(60)
<1>2. Len(f) \in Nat /\ DOMAIN f = 1..Len(f) /\ \A i \in 1..Len(f) : f[i] \in Runnable OBVIOUS
<1>3. ASSUME NEW j \in 1..Len(f) PROVE ny[f[j]] = IF j = 1 THEN Null ELSE f[j - 1]
  <2> DEFINE k == CHOOSE i \in DOMAIN f : f[i] = f[j]
  <2>1. k \in 1..Len(f) /\ f[k] = f[j] BY <1>2
  <2>2. k = j BY <2>1, ZenonT(60) DEF Inj
  <2>3. ny[f[j]] = IF \E i \in DOMAIN f : f[i] = f[j] THEN (IF k = 1 THEN Null ELSE f[k - 1]) ELSE nx[f[j]]
    BY <1>2 DEF Reversed
  <2> HIDE DEF k, ny
  <2>4. QED BY <1>2, <2>2, <2>3, ZenonT(60)
<1>4. ASSUME NEW r \in Runnable, \A i \in 1..Len(f) : f[i] # r PROVE ny[r] = nx[r]
  BY <1>2, <1>4 DEF Reversed
<1>5. ny = [r \in Runnable |-> ny[r]] BY DEF Reversed
<1> HIDE DEF ny, v
<1>6. ASSUME NEW r \in Runnable PROVE ny[r] \in Ptr
  <2>1. CASE \E i \in 1..Len(f) : f[i] = r
    <3>1. PICK j \in 1..Len(f) : f[j] = r BY <2>1
    <3>2. ny[r] = IF j = 1 THEN Null ELSE f[j - 1] BY <1>3, <3>1
    <3>3. j # 1 => j - 1 \in 1..Len(f) BY <1>2
    <3>4. QED BY <1>2, <3>2, <3>3 DEF Ptr
  <2>2. CASE ~\E i \in 1..Len(f) : f[i] = r BY <1>4, <2>2
  <2>3. QED BY <2>1, <2>2
<1>7. ny \in [Runnable -> Ptr] BY <1>5, <1>6
<1>8. Linked(ny, v)
  <2>1. ASSUME NEW i \in 1..(Len(v) - 1) PROVE ny[v[i]] = v[i + 1]
    <3>1. /\ i \in 1..Len(f) /\ i + 1 \in 1..Len(f) /\ Len(f) - i + 1 \in 1..Len(f)
          /\ Len(f) - i + 1 # 1 /\ (Len(f) - i + 1) - 1 = Len(f) - (i + 1) + 1
      BY <1>1, <1>2
    <3>2. v[i] = f[Len(f) - i + 1] /\ v[i + 1] = f[Len(f) - (i + 1) + 1] BY <1>1, <3>1, ZenonT(60)
    <3>3. ny[f[Len(f) - i + 1]] = f[(Len(f) - i + 1) - 1] BY <1>3, <3>1, ZenonT(60)
    <3>4. QED BY <3>1, <3>2, <3>3, ZenonT(60)
  <2>2. QED BY <2>1 DEF Linked
<1>9. Ended(ny, v)
  <2>1. SUFFICES ASSUME v # <<>> PROVE ny[v[Len(v)]] = Null BY DEF Ended
  <2>2. Len(v) \in 1..Len(f) /\ 1 \in 1..Len(f) /\ Len(f) - Len(v) + 1 = 1 BY <1>1, <1>2, <2>1
  <2>3. v[Len(v)] = f[1] BY <1>1, <2>2
  <2>4. QED BY <1>3, <2>2, <2>3
<1>10. QED BY <1>4, <1>7, <1>8, <1>9 DEF ny, v

\* reversed, the members of some places are still theirs
LEMMA ReverseHeld ==
  ASSUME NEW loc, NEW X, NEW f, Holds(loc, X, f)
  PROVE  Holds(loc, X, Reverse(f))
<1> DEFINE v == Reverse(f)
<1>1. f \in Seq(Runnable) /\ Inj(f) BY DEF Holds
<1>2. v \in Seq(Runnable) /\ Len(v) = Len(f) /\ \A i \in 1..Len(f) : v[i] = f[Len(f) - i + 1]
  BY <1>1, ReverseType, ZenonT(60)
<1> HIDE DEF v
<1>3. Len(f) \in Nat /\ \A i \in 1..Len(f) : Len(f) - i + 1 \in 1..Len(f) BY <1>1
<1>4. Inj(v)
  <2>1. ASSUME NEW i \in 1..Len(v), NEW j \in 1..Len(v), v[i] = v[j] PROVE i = j
    <3>1. Len(f) - i + 1 \in 1..Len(f) /\ Len(f) - j + 1 \in 1..Len(f) BY <1>2, <1>3, ZenonT(40)
    <3>2. f[Len(f) - i + 1] = f[Len(f) - j + 1] BY <1>2, <2>1, ZenonT(40)
    <3>3. Len(f) - i + 1 = Len(f) - j + 1 BY <1>1, <3>1, <3>2, ZenonT(60) DEF Inj
    <3>4. QED BY <1>2, <1>3, <3>3
  <2>2. QED BY <2>1 DEF Inj
<1>5. \A i \in 1..Len(v) : loc[v[i]] \in X
  <2>1. \A i \in 1..Len(f) : loc[f[i]] \in X BY DEF Holds
  <2>2. QED BY <1>2, <1>3, <2>1
<1>6. ASSUME NEW r \in Runnable, loc[r] \in X PROVE \E i \in 1..Len(v) : v[i] = r
  <2>1. PICK j \in 1..Len(f) : f[j] = r BY <1>6 DEF Holds
  <2>2. Len(f) - j + 1 \in 1..Len(f) /\ Len(f) - (Len(f) - j + 1) + 1 = j BY <1>3
  <2>3. v[Len(f) - j + 1] = r BY <1>2, <2>1, <2>2
  <2>4. QED BY <1>2, <2>2, <2>3
<1>7. Holds(loc, X, v) BY <1>2, <1>4, <1>5, <1>6 DEF Holds
<1>8. QED BY <1>7 DEF v

\* such a sequence has a runnable at one spot, or has it not
LEMMA SpotsHeld ==
  ASSUME NEW loc, NEW X, NEW s, Holds(loc, X, s), NEW r \in Runnable
  PROVE  /\ loc[r] \in X => \E i : Spots(s, r) = {i}
         /\ loc[r] \notin X => Spots(s, r) = {}
<1>1. s \in Seq(Runnable) /\ Inj(s) /\ \A i \in 1..Len(s) : loc[s[i]] \in X BY DEF Holds
<1>2. DOMAIN s = 1..Len(s) BY <1>1
<1>3. ASSUME loc[r] \in X PROVE \E i : Spots(s, r) = {i}
  <2>1. PICK i \in 1..Len(s) : s[i] = r BY <1>3 DEF Holds
  <2>2. \A j \in 1..Len(s) : s[j] = r => j = i BY <1>1, <2>1, ZenonT(60) DEF Inj
  <2>3. Spots(s, r) = {i} BY <1>2, <2>1, <2>2, ZenonT(60) DEF Spots
  <2>4. QED BY <2>3
<1>4. ASSUME loc[r] \notin X PROVE Spots(s, r) = {}
  BY <1>1, <1>2, <1>4, ZenonT(60) DEF Spots
<1>5. QED BY <1>3, <1>4

-----------------------------------------------------------------------------
(* The inductive invariant: the pointers represent some g and loc.         *)

Ops == [pc : {"idle", "walk", "link", "cas"}, list : Heads, first : Ptr, last : Ptr, nxt : Ptr]

\* an operation o in progress holds the members of s
Moving(o, nx, s) ==
  /\ o.pc = "idle" <=> s = <<>>
  /\ o.pc # "idle" => o.first = s[1]
  /\ o.pc = "walk" => Ended(nx, s) /\ \E i \in 1..Len(s) : s[i] = o.last
  /\ o.pc \in {"link", "cas"} => o.last = s[Len(s)]
  /\ o.pc = "cas" => nx[o.last] = o.nxt

Pointers(g) ==
  /\ next \in [Runnable -> Ptr] /\ head \in [Heads -> Ptr] /\ op \in [Ctx -> Ops]
  /\ \A x \in Place : Linked(next, g[x])
  /\ \A l \in Heads : head[l] = First(g[L(l)]) /\ Ended(next, g[L(l)])
  /\ rqhead = First(g[Rq]) /\ Ended(next, g[Rq])
  /\ rqtail = IF g[Rq] = <<>> THEN RqHead ELSE Last(g[Rq])
  /\ \A p \in Ctx : Moving(op[p], next, g[C(p)])

Represents(g, loc) == Placed(g, loc) /\ Pointers(g) /\ out = {r \in Runnable : loc[r] = Off}

IInv == \E g, loc : Represents(g, loc)

\* facts about what is held that the steps of a context start from
LEMMA HeldFacts ==
  ASSUME NEW g, NEW loc, Represents(g, loc), NEW p \in Ctx
  PROVE  /\ op[p] \in Ops /\ Moving(op[p], next, g[C(p)])
         /\ C(p) \in Place /\ g[C(p)] \in Seq(Runnable) /\ Inj(g[C(p)]) /\ Linked(next, g[C(p)])
         /\ \A i \in 1..Len(g[C(p)]) : g[C(p)][i] \in Runnable /\ loc[g[C(p)][i]] = C(p)
<1>1. C(p) \in Place BY PlacesDiffer
<1>2. op[p] \in Ops /\ Moving(op[p], next, g[C(p)]) /\ Linked(next, g[C(p)])
  BY <1>1 DEF Represents, Pointers
<1>3. g[C(p)] \in Seq(Runnable) /\ Inj(g[C(p)]) /\ \A i \in 1..Len(g[C(p)]) : loc[g[C(p)][i]] = C(p)
  BY <1>1 DEF Represents, Placed
<1>4. \A i \in 1..Len(g[C(p)]) : g[C(p)][i] \in Runnable BY <1>3
<1>5. QED BY <1>1, <1>2, <1>3, <1>4

\* pointers that agree on the members of s serve an operation on it alike
LEMMA MovingSame ==
  ASSUME NEW nx, NEW ny, NEW s \in Seq(Runnable), NEW o, Moving(o, nx, s),
         \A i \in 1..Len(s) : ny[s[i]] = nx[s[i]]
  PROVE  Moving(o, ny, s)
<1>1. Ended(nx, s) => Ended(ny, s) BY SameLinks, ZenonT(60)
<1>2. o.pc = "cas" => ny[o.last] = nx[o.last]
  <2>1. SUFFICES ASSUME o.pc = "cas" PROVE ny[o.last] = nx[o.last] OBVIOUS
  <2>2. s # <<>> /\ o.last = s[Len(s)] BY <2>1 DEF Moving
  <2>3. Len(s) \in 1..Len(s) BY <2>2
  <2>4. QED BY <2>2, <2>3
<1>3. QED BY <1>1, <1>2 DEF Moving

\* a context goes on, and the pointers in memory are left alone
LEMMA OpStep ==
  ASSUME NEW g, NEW loc, Represents(g, loc), NEW p \in Ctx, NEW o \in Ops,
         op' = [op EXCEPT ![p] = o], UNCHANGED <<next, head, rqhead, rqtail, out>>,
         Moving(o, next, g[C(p)])
  PROVE  Represents(g, loc)'
<1>1. op' \in [Ctx -> Ops] /\ \A q \in Ctx : Moving(op'[q], next', g[C(q)])
  BY ZenonT(40) DEF Represents, Pointers
<1>2. Pointers(g)' BY <1>1, ZenonT(40) DEF Represents, Pointers
<1>3. QED BY <1>2 DEF Represents

LEMMA WalkStep ==
  ASSUME NEW g, NEW loc, Represents(g, loc), NEW p \in Ctx, Walk(p)
  PROVE  Represents(g, loc)'
<1> DEFINE s == g[C(p)]
<1>1. /\ op[p] \in Ops /\ Moving(op[p], next, s) /\ s \in Seq(Runnable) /\ Linked(next, s)
      /\ \A i \in 1..Len(s) : s[i] \in Runnable
  BY HeldFacts, ZenonT(40)
<1>2. op[p].pc = "walk" /\ UNCHANGED <<next, head, rqhead, rqtail, out>> BY DEF Walk
<1> HIDE DEF s
<1>3. s # <<>> /\ op[p].first = s[1] /\ Ended(next, s) /\ \E i \in 1..Len(s) : s[i] = op[p].last
  BY <1>1, <1>2 DEF Moving
<1>4. PICK i \in 1..Len(s) : s[i] = op[p].last BY <1>3
<1>5. Len(s) \in Nat /\ Null \notin Runnable BY <1>1, RunListAssumption
<1>6. CASE next[op[p].last] # Null
  <2> DEFINE o == [op[p] EXCEPT !.last = next[@]]
  <2>1. i # Len(s) BY <1>3, <1>4, <1>6 DEF Ended
  <2>2. i + 1 \in 1..Len(s) /\ next[op[p].last] = s[i + 1] BY <1>1, <1>4, <1>5, <2>1 DEF Linked
  <2>3. o \in Ops BY <1>1, <2>2 DEF Ops, Ptr
  <2>4. Moving(o, next, s) BY <1>1, <1>2, <1>3, <2>2 DEF Moving, Ops
  <2>5. op' = [op EXCEPT ![p] = o] BY <1>6 DEF Walk, Represents, Pointers
  <2> HIDE DEF o
  <2>6. QED BY <1>2, <2>3, <2>4, <2>5, OpStep, ZenonT(60) DEF s
<1>7. CASE next[op[p].last] = Null
  <2> DEFINE o == [pc |-> "link", list |-> op[p].list, first |-> op[p].first,
                   last |-> op[p].last, nxt |-> head[op[p].list]]
  <2>1. i = Len(s) BY <1>1, <1>4, <1>5, <1>7 DEF Linked
  <2>2. o \in Ops BY <1>1, ZenonT(40) DEF Ops, Represents, Pointers
  <2>3. Moving(o, next, s) BY <1>3, <1>4, <2>1, ZenonT(40) DEF Moving
  <2>4. op' = [op EXCEPT ![p] = o] BY <1>7 DEF Walk, StartQueueMany
  <2> HIDE DEF o
  <2>5. QED BY <1>2, <2>2, <2>3, <2>4, OpStep, ZenonT(60) DEF s
<1>8. QED BY <1>6, <1>7

LEMMA CasFailStep ==
  ASSUME NEW g, NEW loc, Represents(g, loc), NEW p \in Ctx, CasFail(p)
  PROVE  Represents(g, loc)'
<1> DEFINE o == [op[p] EXCEPT !.nxt = head[op[p].list], !.pc = "link"]
<1>1. op[p] \in Ops /\ Moving(op[p], next, g[C(p)]) BY HeldFacts, ZenonT(40)
<1>2. o \in Ops
  <2>1. head[op[p].list] \in Ptr BY <1>1, ZenonT(40) DEF Ops, Represents, Pointers
  <2>2. QED BY <1>1, <2>1, ZenonT(60) DEF Ops
<1>3. op[p].pc = "cas" /\ UNCHANGED <<next, head, rqhead, rqtail, out>> BY DEF CasFail
<1>4. Moving(o, next, g[C(p)]) BY <1>1, <1>3 DEF Moving, Ops
<1>5. op' = [op EXCEPT ![p] = o] BY <1>1 DEF CasFail, Represents, Pointers, Ops
<1> HIDE DEF o
<1>6. QED BY <1>2, <1>3, <1>4, <1>5, OpStep, ZenonT(60)

LEMMA LinkStep ==
  ASSUME NEW g, NEW loc, Represents(g, loc), NEW p \in Ctx, Link(p)
  PROVE  Represents(g, loc)'
<1> DEFINE s == g[C(p)]
           o == [op[p] EXCEPT !.pc = "cas"]
<1>1. /\ op[p] \in Ops /\ Moving(op[p], next, s) /\ s \in Seq(Runnable) /\ Linked(next, s) /\ Inj(s)
      /\ C(p) \in Place /\ \A i \in 1..Len(s) : s[i] \in Runnable /\ loc[s[i]] = C(p)
  BY HeldFacts, ZenonT(40)
<1>2. op[p].pc = "link" /\ next' = [next EXCEPT ![op[p].last] = op[p].nxt]
      /\ op' = [op EXCEPT ![p] = o] /\ UNCHANGED <<head, rqhead, rqtail, out>>
  BY DEF Link, Represents, Pointers
<1> HIDE DEF s
<1>3. s # <<>> /\ op[p].first = s[1] /\ op[p].last = s[Len(s)] BY <1>1, <1>2 DEF Moving
<1>4. Len(s) \in Nat /\ Len(s) \in 1..Len(s) BY <1>1, <1>3
<1>5. op[p].last \in Runnable /\ loc[op[p].last] = C(p) BY <1>1, <1>3, <1>4, ZenonT(40)
<1>6. next \in [Runnable -> Ptr] BY ZenonT(40) DEF Represents, Pointers
<1>7. next' \in [Runnable -> Ptr] /\ next'[op[p].last] = op[p].nxt
      /\ \A r \in Runnable : r # op[p].last => next'[r] = next[r]
  BY <1>1, <1>2, <1>5, <1>6 DEF Ops
<1>8. ASSUME NEW y \in Place, y # C(p)
      PROVE  (Linked(next, g[y]) => Linked(next', g[y])) /\ (Ended(next, g[y]) => Ended(next', g[y]))
  <2>1. g[y] \in Seq(Runnable) /\ \A i \in 1..Len(g[y]) : loc[g[y][i]] = y
    BY DEF Represents, Placed
  <2>2. \A i \in 1..Len(g[y]) : g[y][i] \in Runnable BY <2>1
  <2>3. \A i \in 1..Len(g[y]) : next'[g[y][i]] = next[g[y][i]]
    BY <2>1, <2>2, <1>5, <1>7, <1>8, ZenonT(40)
  <2>4. QED BY <2>1, <2>3, SameLinks, ZenonT(60)
<1>9. Linked(next', s)
  <2>1. ASSUME NEW i \in 1..(Len(s) - 1) PROVE next'[s[i]] = s[i + 1]
    <3>1. i \in 1..Len(s) /\ i # Len(s) BY <1>4
    <3>2. s[i] # s[Len(s)] BY <1>1, <1>4, <3>1, ZenonT(40) DEF Inj
    <3>3. next[s[i]] = s[i + 1] BY <1>1, ZenonT(40) DEF Linked
    <3>4. QED BY <1>1, <1>3, <1>7, <3>1, <3>2, <3>3, ZenonT(40)
  <2>2. QED BY <2>1 DEF Linked
<1>10. o \in Ops /\ Moving(o, next', s) BY <1>1, <1>2, <1>3, <1>7, ZenonT(40) DEF Ops, Moving
<1>11. op' \in [Ctx -> Ops] BY <1>2, <1>10 DEF Represents, Pointers
<1> HIDE DEF o
<1>12. ASSUME NEW q \in Ctx PROVE Moving(op'[q], next', g[C(q)])
  <2>1. CASE q = p
    <3>1. op'[q] = o BY <2>1, <1>2, ZenonT(40) DEF Represents, Pointers
    <3>2. QED BY <2>1, <3>1, <1>10, ZenonT(60) DEF s
  <2>2. CASE q # p
    <3>1. op'[q] = op[q] BY <2>2, <1>2, ZenonT(40) DEF Represents, Pointers
    <3>2. C(q) # C(p) /\ C(q) \in Place BY <2>2, PlacesDiffer
    <3>3. /\ Moving(op[q], next, g[C(q)]) /\ g[C(q)] \in Seq(Runnable)
          /\ \A i \in 1..Len(g[C(q)]) : g[C(q)][i] \in Runnable /\ loc[g[C(q)][i]] = C(q)
      BY HeldFacts, ZenonT(40)
    <3>4. \A i \in 1..Len(g[C(q)]) : next'[g[C(q)][i]] = next[g[C(q)][i]]
      BY <1>5, <1>7, <3>2, <3>3, ZenonT(40)
    <3>5. QED BY <3>1, <3>3, <3>4, MovingSame, ZenonT(60)
  <2>3. QED BY <2>1, <2>2
<1>13. \A y \in Place : Linked(next', g[y])
  <2>1. \A y \in Place : Linked(next, g[y]) BY ZenonT(40) DEF Represents, Pointers
  <2>2. QED BY <2>1, <1>8, <1>9, ZenonT(60) DEF s
<1>14. \A l \in Heads : Ended(next', g[L(l)])
  <2>1. \A l \in Heads : Ended(next, g[L(l)]) BY ZenonT(40) DEF Represents, Pointers
  <2>2. \A l \in Heads : L(l) \in Place /\ L(l) # C(p) BY PlacesDiffer
  <2>3. QED BY <2>1, <2>2, <1>8, ZenonT(60)
<1>15. Ended(next', g[Rq])
  <2>1. Ended(next, g[Rq]) BY ZenonT(40) DEF Represents, Pointers
  <2>2. Rq \in Place /\ Rq # C(p) BY PlacesDiffer
  <2>3. QED BY <2>1, <2>2, <1>8, ZenonT(60)
<1>16. Pointers(g)'
  BY <1>2, <1>7, <1>11, <1>12, <1>13, <1>14, <1>15, ZenonT(60) DEF Pointers, Represents
<1>17. QED BY <1>2, <1>16 DEF Represents

LEMMA QueueSingleStep ==
  ASSUME NEW g, NEW loc, Represents(g, loc), NEW p \in Ctx, NEW l \in Heads, NEW r \in Runnable,
         QueueSingle(p, l, r)
  PROVE  g[C(p)] = <<>> /\ Represents([g EXCEPT ![C(p)] = <<r>>], [loc EXCEPT ![r] = C(p)])'
<1> DEFINE g2 == [g EXCEPT ![C(p)] = <<r>>]
           loc2 == [loc EXCEPT ![r] = C(p)]
           o == [pc |-> "link", list |-> l, first |-> r, last |-> r, nxt |-> head[l]]
<1>1. op[p].pc = "idle" /\ loc[r] = Off /\ op' = [op EXCEPT ![p] = o] /\ out' = out \ {r}
      /\ UNCHANGED <<next, head, rqhead, rqtail>>
  BY DEF QueueSingle, StartQueueMany, Represents
<1>2. C(p) \in Place /\ g[C(p)] = <<>> BY <1>1, HeldFacts, ZenonT(40) DEF Moving
<1>3. Placed(g2, loc2) BY <1>1, <1>2, PutOne, ZenonT(40) DEF Represents
<1>4. g \in [Place -> Seq(Runnable)] /\ loc \in [Runnable -> Place \union {Off}]
  BY DEF Represents, Placed
<1>5. g2[C(p)] = <<r>> /\ \A y \in Place : y # C(p) => g2[y] = g[y] BY <1>2, <1>4
<1>6. out' = {q \in Runnable : loc2[q] = Off}
  <2>1. C(p) # Off BY PlacesDiffer
  <2>2. QED BY <1>1, <1>4, <2>1 DEF Represents
<1> HIDE DEF g2, loc2
<1>7. o \in Ops
  <2>1. head[l] \in Ptr /\ r \in Ptr BY ZenonT(40) DEF Represents, Pointers, Ptr
  <2>2. QED BY <2>1 DEF Ops
<1>8. Moving(o, next', <<r>>) /\ Linked(next', <<r>>) BY DEF Moving, Linked
<1> HIDE DEF o
<1>9. op' \in [Ctx -> Ops] /\ op'[p] = o /\ \A q \in Ctx : q # p => op'[q] = op[q]
  BY <1>1, <1>7, ZenonT(40) DEF Represents, Pointers
<1>10. \A q \in Ctx : Moving(op'[q], next', g2[C(q)])
  <2>1. \A q \in Ctx : q # p => C(q) # C(p) /\ C(q) \in Place BY PlacesDiffer
  <2>2. \A q \in Ctx : Moving(op[q], next, g[C(q)]) BY ZenonT(40) DEF Represents, Pointers
  <2>3. QED BY <1>1, <1>5, <1>8, <1>9, <2>1, <2>2, ZenonT(40)
<1>11. \A y \in Place : Linked(next', g2[y])
  <2>1. \A y \in Place : Linked(next, g[y]) BY ZenonT(40) DEF Represents, Pointers
  <2>2. QED BY <2>1, <1>1, <1>5, <1>8, ZenonT(40)
<1>12. (\A m \in Heads : g2[L(m)] = g[L(m)]) /\ g2[Rq] = g[Rq] BY <1>5, PlacesDiffer, ZenonT(40)
<1>13. Pointers(g2)' BY <1>1, <1>9, <1>10, <1>11, <1>12, ZenonT(40) DEF Pointers, Represents
<1>14. QED BY <1>2, <1>3, <1>6, <1>13 DEF Represents, g2, loc2

-----------------------------------------------------------------------------
(* The queues read off the pointers are those of g.                        *)

\* mapped values of the variables of RunListSpec
ReadyOf(g) == g[Rq] \o Reverse(g[L(Fresh)])
WaitingOf(g) == [l \in List |-> Reverse(g[L(l)])]
HeldOf(g) == [p \in Ctx |-> Reverse(g[C(p)])]

Shown(g) ==
  /\ Chain(next, rqhead) = g[Rq] /\ Chain(next, head[Fresh]) = g[L(Fresh)] /\ ReadyQ = ReadyOf(g)
  /\ \A l \in List : WaitingQ(l) = Reverse(g[L(l)])
  /\ \A p \in Ctx : HeldQ(p) = Reverse(g[C(p)])

LEMMA ReverseEmpty == Reverse(<<>>) = <<>>
BY DEF Reverse

LEMMA ReverseOne == ASSUME NEW r PROVE Reverse(<<r>>) = <<r>>
BY DEF Reverse

LEMMA ReadyJoined ==
  ASSUME NEW g, NEW loc, Represents(g, loc)
  PROVE  Joined(ReadyOf(g), g[Rq], Reverse(g[L(Fresh)]))
<1>1. Placed(g, loc) BY DEF Represents
<1>2. Rq \in Place /\ L(Fresh) \in Place BY PlacesDiffer
<1>3. g[Rq] \in Seq(Runnable) /\ g[L(Fresh)] \in Seq(Runnable) BY <1>1, <1>2 DEF Placed
<1>4. Reverse(g[L(Fresh)]) \in Seq(Runnable) BY <1>3, ReverseType, ZenonT(60)
<1>5. QED BY <1>3, <1>4, ConcatJoined, ZenonT(60) DEF ReadyOf

\* what the invariant says of the queues and of the tail pointer
LEMMA ListsFollow ==
  ASSUME NEW g, NEW loc, Represents(g, loc), Shown(g)
  PROVE  ListsSound
<1>1. Placed(g, loc) /\ Pointers(g) /\ out = {r \in Runnable : loc[r] = Off} BY DEF Represents
<1>2. Shown(g) OBVIOUS
<1>3. Rq \in Place /\ g[Rq] \in Seq(Runnable) BY <1>1, PlacesDiffer, ZenonT(40) DEF Placed
<1>4. TypeOK
  <2>1. rqhead \in Ptr /\ rqtail \in Ptr \union {RqHead}
    BY <1>1, <1>3 DEF Pointers, First, Last, Ptr
  <2>2. ASSUME NEW p \in Ctx
        PROVE  /\ op[p].pc \in {"idle", "walk", "link", "cas"} /\ op[p].list \in Heads /\ op[p].nxt \in Ptr
               /\ op[p].pc # "idle" => {op[p].first, op[p].last} \subseteq Runnable
    <3>1. op[p] \in Ops /\ Moving(op[p], next, g[C(p)]) /\ g[C(p)] \in Seq(Runnable) BY HeldFacts, ZenonT(60)
    <3>2. ASSUME op[p].pc # "idle" PROVE op[p].first \in Runnable /\ op[p].last \in Runnable
      BY <3>1, <3>2 DEF Moving, Ops
    <3>3. QED BY <3>1, <3>2, ZenonT(40) DEF Ops
  <2>3. QED BY <1>1, <2>1, <2>2, ZenonT(40) DEF TypeOK, Pointers
<1>5. TailAtEnd
  <2>1. Chain(next, rqhead) = g[Rq] BY <1>2 DEF Shown
  <2>2. rqtail = IF g[Rq] = <<>> THEN RqHead ELSE Last(g[Rq]) BY <1>1, ZenonT(40) DEF Pointers
  <2>3. QED BY <2>1, <2>2, ZenonT(60) DEF TailAtEnd
<1>6. Holds(loc, {Rq, L(Fresh)}, ReadyQ)
  <2>1. Rq # L(Fresh) /\ L(Fresh) \in Place BY PlacesDiffer
  <2>2. Holds(loc, {Rq}, g[Rq]) BY <1>1, <1>3, PlaceFacts, ZenonT(60)
  <2>3. Holds(loc, {L(Fresh)}, g[L(Fresh)]) BY <1>1, <2>1, PlaceFacts, ZenonT(60)
  <2>4. Holds(loc, {L(Fresh)}, Reverse(g[L(Fresh)])) BY <2>3, ReverseHeld, ZenonT(60)
  <2>5. Joined(ReadyOf(g), g[Rq], Reverse(g[L(Fresh)])) BY ReadyJoined, ZenonT(60)
  <2>6. Holds(loc, {Rq, L(Fresh)}, ReadyOf(g)) BY <2>1, <2>2, <2>4, <2>5, JoinMembers, ZenonT(60)
  <2>7. QED BY <1>2, <2>6, ZenonT(60) DEF Shown
<1>7. ASSUME NEW p \in Ctx PROVE Holds(loc, {C(p)}, HeldQ(p))
  <2>1. C(p) \in Place BY PlacesDiffer
  <2>2. Holds(loc, {C(p)}, g[C(p)]) BY <1>1, <2>1, PlaceFacts, ZenonT(60)
  <2>3. Holds(loc, {C(p)}, Reverse(g[C(p)])) BY <2>2, ReverseHeld, ZenonT(60)
  <2>4. QED BY <1>2, <2>3, ZenonT(60) DEF Shown
<1>8. ASSUME NEW l \in List PROVE Holds(loc, {L(l)}, WaitingQ(l))
  <2>1. L(l) \in Place BY PlacesDiffer
  <2>2. Holds(loc, {L(l)}, g[L(l)]) BY <1>1, <2>1, PlaceFacts, ZenonT(60)
  <2>3. Holds(loc, {L(l)}, Reverse(g[L(l)])) BY <2>2, ReverseHeld, ZenonT(60)
  <2>4. QED BY <1>2, <2>3, ZenonT(60) DEF Shown
<1>9. ASSUME NEW r \in Runnable PROVE \E x \in Places(r) : Places(r) = {x}
  <2>1. /\ loc[r] \in {Rq, L(Fresh)} => \E i : Spots(ReadyQ, r) = {i}
        /\ loc[r] \notin {Rq, L(Fresh)} => Spots(ReadyQ, r) = {}
    BY <1>6, SpotsHeld, ZenonT(60)
  <2>2. ASSUME NEW p \in Ctx
        PROVE  /\ loc[r] = C(p) => \E i : Spots(HeldQ(p), r) = {i}
               /\ loc[r] # C(p) => Spots(HeldQ(p), r) = {}
    <3>1. /\ loc[r] \in {C(p)} => \E i : Spots(HeldQ(p), r) = {i}
          /\ loc[r] \notin {C(p)} => Spots(HeldQ(p), r) = {}
      BY <1>7, SpotsHeld, ZenonT(60)
    <3>2. QED BY <3>1
  <2>3. ASSUME NEW l \in List
        PROVE  /\ loc[r] = L(l) => \E i : Spots(WaitingQ(l), r) = {i}
               /\ loc[r] # L(l) => Spots(WaitingQ(l), r) = {}
    <3>1. /\ loc[r] \in {L(l)} => \E i : Spots(WaitingQ(l), r) = {i}
          /\ loc[r] \notin {L(l)} => Spots(WaitingQ(l), r) = {}
      BY <1>8, SpotsHeld, ZenonT(60)
    <3>2. QED BY <3>1
  <2>4. loc[r] \in Place \union {Off} BY <1>1 DEF Placed
  <2>5. out \intersect {r} = IF loc[r] = Off THEN {r} ELSE {} BY <1>1
  <2> DEFINE A == {<<"out", x>> : x \in out \intersect {r}}
             B == {<<"ready", i>> : i \in Spots(ReadyQ, r)}
             H(p) == {<<"held", p, i>> : i \in Spots(HeldQ(p), r)}
             W(l) == {<<"waiting", l, i>> : i \in Spots(WaitingQ(l), r)}
             HU == UNION {H(p) : p \in Ctx}
             WU == UNION {W(l) : l \in List}
  <2>6. Places(r) = A \union B \union HU \union WU BY DEF Places
  <2>7. A = IF loc[r] = Off THEN {<<"out", r>>} ELSE {} BY <2>5
  <2>8. /\ loc[r] \in {Rq, L(Fresh)} => \E z : B = {z}
        /\ loc[r] \notin {Rq, L(Fresh)} => B = {}
    <3>1. \A i : {<<"ready", j>> : j \in {i}} = {<<"ready", i>>} OBVIOUS
    <3>2. {<<"ready", j>> : j \in {}} = {} OBVIOUS
    <3>3. QED BY <2>1, <3>1, <3>2, ZenonT(60)
  <2>9. ASSUME NEW p \in Ctx PROVE (loc[r] = C(p) => \E z : H(p) = {z}) /\ (loc[r] # C(p) => H(p) = {})
    <3>1. \A i : {<<"held", p, j>> : j \in {i}} = {<<"held", p, i>>} OBVIOUS
    <3>2. {<<"held", p, j>> : j \in {}} = {} OBVIOUS
    <3>3. QED BY <2>2, <3>1, <3>2, ZenonT(60)
  <2>10. ASSUME NEW l \in List PROVE (loc[r] = L(l) => \E z : W(l) = {z}) /\ (loc[r] # L(l) => W(l) = {})
    <3>1. \A i : {<<"waiting", l, j>> : j \in {i}} = {<<"waiting", l, i>>} OBVIOUS
    <3>2. {<<"waiting", l, j>> : j \in {}} = {} OBVIOUS
    <3>3. QED BY <2>3, <3>1, <3>2, ZenonT(60)
  <2> HIDE DEF A, B, H, W
  <2>u. /\ (\A p \in Ctx : H(p) = {}) => HU = {}
        /\ (\A l \in List : W(l) = {}) => WU = {}
        /\ \A p \in Ctx : (\A q \in Ctx : q # p => H(q) = {}) => HU = H(p)
        /\ \A l \in List : (\A m \in List : m # l => W(m) = {}) => WU = W(l)
    OBVIOUS
  <2> HIDE DEF HU, WU
  <2>11. CASE loc[r] \in {Rq, L(Fresh), Off}
    <3>1. \A p \in Ctx : H(p) = {} BY <2>9, <2>11, PlacesDiffer, ZenonT(40)
    <3>2. \A l \in List : W(l) = {} BY <2>10, <2>11, PlacesDiffer
    <3>3. HU = {} /\ WU = {} BY <2>u, <3>1, <3>2, ZenonT(60)
    <3>4. Places(r) = A \union B BY <2>6, <3>3
    <3>5. \E z : A \union B = {z} BY <2>7, <2>8, <2>11, PlacesDiffer, ZenonT(60)
    <3>6. QED BY <3>4, <3>5
  <2>12. ASSUME NEW p \in Ctx, loc[r] = C(p) PROVE \E x \in Places(r) : Places(r) = {x}
    <3>1. A = {} /\ B = {} BY <2>7, <2>8, <2>12, PlacesDiffer, ZenonT(40)
    <3>2. \A l \in List : W(l) = {} BY <2>10, <2>12, PlacesDiffer, ZenonT(40)
    <3>3. \A q \in Ctx : q # p => H(q) = {} BY <2>9, <2>12, PlacesDiffer, ZenonT(40)
    <3>4. HU = H(p) /\ WU = {} BY <2>u, <3>2, <3>3, ZenonT(60)
    <3>5. Places(r) = H(p) BY <2>6, <3>1, <3>4
    <3>6. QED BY <2>9, <2>12, <3>5
  <2>13. ASSUME NEW l \in List, loc[r] = L(l) PROVE \E x \in Places(r) : Places(r) = {x}
    <3>1. A = {} /\ B = {} BY <2>7, <2>8, <2>13, PlacesDiffer
    <3>2. \A p \in Ctx : H(p) = {} BY <2>9, <2>13, PlacesDiffer, ZenonT(40)
    <3>3. \A m \in List : m # l => W(m) = {} BY <2>10, <2>13, PlacesDiffer, ZenonT(40)
    <3>4. WU = W(l) /\ HU = {} BY <2>u, <3>2, <3>3, ZenonT(60)
    <3>5. Places(r) = W(l) BY <2>6, <3>1, <3>4
    <3>6. QED BY <2>10, <2>13, <3>5
  <2>14. QED BY <2>4, <2>11, <2>12, <2>13, PlacesDiffer, ZenonT(40) DEF Heads
<1>10. QED BY <1>4, <1>5, <1>9 DEF ListsSound, OnePlace
=============================================================================
