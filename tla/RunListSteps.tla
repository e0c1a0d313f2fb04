---------------------------- MODULE RunListSteps ----------------------------
(***************************************************************************)
(* Proofs about RunList, continued: the steps that move runnables from one *)
(* place to another keep the invariant, and every step is one of           *)
(* RunListSpec, or none.  That the operators which read the queues off the *)
(* pointers return what the invariant says (Shown, Mapping) is shown in    *)
(* RunListProofs.                                                          *)
(***************************************************************************)
EXTENDS RunListPlaces

\* time limits of the provers
USE SMTT(30), ZenonT(40)

-----------------------------------------------------------------------------
(* sched_queue_many and sched_queue_list.                                  *)

LEMMA CasOkStep ==
  ASSUME NEW g, NEW loc, Represents(g, loc), NEW p \in Ctx, CasOk(p),
         NEW l \in Heads, op[p].list = l
  PROVE  /\ g[C(p)] # <<>>
         /\ \E loc2 : Represents(Moved(g, C(p), L(l), g[C(p)] \o g[L(l)]), loc2)'
<1> DEFINE s == g[C(p)]
           t == g[L(l)]
           u == s \o t
           g2 == Moved(g, C(p), L(l), u)
           loc2 == Relocated(loc, C(p), L(l))
<1>1. /\ op[p] \in Ops /\ Moving(op[p], next, s) /\ Linked(next, s) /\ C(p) \in Place
      /\ s \in Seq(Runnable)
  BY HeldFacts DEF Ops
<1>2. op[p].pc = "cas" /\ head[l] = op[p].nxt /\ head' = [head EXCEPT ![l] = op[p].first]
      /\ op' = [op EXCEPT ![p] = Idle] /\ UNCHANGED <<next, rqhead, rqtail, out>>
  BY DEF CasOk
<1>3. L(l) \in Place /\ L(l) # C(p) /\ L(l) # Off /\ C(p) # Off BY <1>1, PlacesDiffer
<1>4. t \in Seq(Runnable) /\ Linked(next, t) /\ Ended(next, t) /\ head[l] = First(t)
  BY <1>1, <1>3 DEF Represents, Placed, Pointers
<1>5. s # <<>> /\ op[p].first = s[1] /\ op[p].last = s[Len(s)] /\ next[op[p].last] = op[p].nxt
  BY <1>1, <1>2 DEF Moving
<1> HIDE DEF s, t
<1>u. Joined(u, s, t) BY <1>1, <1>4, ConcatJoined, ZenonT(60)
<1> HIDE DEF u
<1>6. Holds(loc, {C(p), L(l)}, u)
  <2>1. Placed(g, loc) BY DEF Represents
  <2>2. Holds(loc, {C(p)}, s) BY <1>1, <2>1, PlaceFacts, ZenonT(60) DEF s
  <2>3. Holds(loc, {L(l)}, t) BY <1>3, <2>1, PlaceFacts, ZenonT(60) DEF t
  <2>4. QED BY <1>3, <1>u, <2>2, <2>3, JoinMembers, ZenonT(60)
<1>7. Linked(next, u) /\ Ended(next, u) /\ First(u) = s[1]
  <2>1. Leads(next, s, t) BY <1>2, <1>4, <1>5, ZenonT(60) DEF Leads
  <2>2. /\ Linked(next, u) /\ Ended(next, u) /\ First(u) = IF s = <<>> THEN First(t) ELSE s[1]
    <3>1. s \in Seq(Runnable) /\ Linked(next, s) BY <1>1, ZenonT(60)
    <3>2. t \in Seq(Runnable) /\ Linked(next, t) /\ Ended(next, t) BY <1>4, ZenonT(60)
    <3>3. QED BY <1>u, <2>1, <3>1, <3>2, JoinLinks, ZenonT(60)
  <2>3. QED BY <1>5, <2>2
<1>8. Placed(g2, loc2)
  <2>1. Placed(g, loc) BY DEF Represents
  <2>2. C(p) \in Place /\ L(l) \in Place /\ C(p) # L(l) BY <1>1, <1>3, ZenonT(60)
  <2>3. QED BY <1>6, <2>1, <2>2, Merge, ZenonT(60)
<1>9. g \in [Place -> Seq(Runnable)] /\ loc \in [Runnable -> Place \union {Off}]
  BY DEF Represents, Placed
<1>10. g2[L(l)] = u /\ g2[C(p)] = <<>> /\ \A y \in Place : y \notin {L(l), C(p)} => g2[y] = g[y]
  BY <1>1, <1>3, <1>9 DEF Moved
<1>11. out' = {r \in Runnable : loc2[r] = Off} BY <1>2, <1>3, <1>9 DEF Represents, Relocated
<1> HIDE DEF g2, loc2
<1>12. head' \in [Heads -> Ptr] /\ head'[l] = First(u) /\ \A m \in Heads : m # l => head'[m] = head[m]
  <2>1. op[p].first \in Ptr BY <1>1 DEF Ops
  <2>2. QED BY <1>1, <1>2, <1>5, <1>7, <2>1 DEF Represents, Pointers
<1>13. Idle \in Ops /\ Idle.pc = "idle" BY PlacesDiffer DEF Idle, Ops, Ptr
<1>14. op' \in [Ctx -> Ops] /\ op'[p] = Idle /\ \A q \in Ctx : q # p => op'[q] = op[q]
  BY <1>2, <1>13 DEF Represents, Pointers
<1>15. \A q \in Ctx : Moving(op'[q], next', g2[C(q)])
  <2>1. \A q \in Ctx : q # p => C(q) \notin {C(p), L(l)} /\ C(q) \in Place BY <1>1, PlacesDiffer
  <2>2. \A q \in Ctx : Moving(op[q], next, g[C(q)]) BY DEF Represents, Pointers
  <2>3. Moving(Idle, next, <<>>) BY DEF Moving, Idle
  <2>4. QED BY <1>2, <1>10, <1>14, <2>1, <2>2, <2>3
<1>16. \A y \in Place : Linked(next', g2[y])
  <2>1. \A y \in Place : Linked(next, g[y]) BY DEF Represents, Pointers
  <2>2. Linked(next, <<>>) BY DEF Linked
  <2>3. QED BY <2>1, <2>2, <1>2, <1>7, <1>10
<1>17. \A m \in Heads : head'[m] = First(g2[L(m)]) /\ Ended(next', g2[L(m)])
  <2>1. \A m \in Heads : head[m] = First(g[L(m)]) /\ Ended(next, g[L(m)]) BY DEF Represents, Pointers
  <2>2. \A m \in Heads : m # l => L(m) \in Place /\ L(m) \notin {L(l), C(p)} BY <1>1, PlacesDiffer
  <2>3. QED BY <2>1, <2>2, <1>2, <1>7, <1>10, <1>12
<1>18. g2[Rq] = g[Rq] BY <1>1, <1>10, PlacesDiffer
<1>19. Pointers(g2)' BY <1>2, <1>12, <1>14, <1>15, <1>16, <1>17, <1>18, ZenonT(40) DEF Pointers, Represents
<1>20. Represents(g2, loc2)' BY <1>8, <1>11, <1>19 DEF Represents
<1>21. QED BY <1>1, <1>5, <1>20 DEF g2, loc2, u, s, t

LEMMA ExchangeStep ==
  ASSUME NEW g, NEW loc, Represents(g, loc), NEW p \in Ctx, NEW dest \in Heads, NEW src \in List,
         Exchange(p, dest, src)
  PROVE  /\ g[C(p)] = <<>> /\ g[L(src)] # <<>>
         /\ \E loc2 : Represents(Moved(g, L(src), C(p), g[L(src)]), loc2)'
<1> DEFINE s == g[L(src)]
           g2 == Moved(g, L(src), C(p), s)
           loc2 == Relocated(loc, L(src), C(p))
           o == [pc |-> "walk", list |-> dest, first |-> head[src], last |-> head[src], nxt |-> Null]
<1>1. op[p].pc = "idle" /\ head[src] # Null /\ head' = [head EXCEPT ![src] = Null]
      /\ op' = [op EXCEPT ![p] = o] /\ UNCHANGED <<next, rqhead, rqtail, out>>
  BY DEF Exchange
<1>2. /\ C(p) \in Place /\ L(src) \in Place /\ L(src) # C(p) /\ L(src) # Off /\ C(p) # Off
      /\ src \in Heads
  BY PlacesDiffer
<1>3. g[C(p)] = <<>> BY <1>1, HeldFacts, ZenonT(40) DEF Moving
<1>4. /\ s \in Seq(Runnable) /\ Linked(next, s) /\ Ended(next, s) /\ head[src] = First(s)
      /\ s # <<>> /\ head[src] = s[1] /\ head[src] \in Ptr
  BY <1>1, <1>2 DEF Represents, Placed, Pointers, First
<1>5. Placed(g2, loc2)
  <2>1. Placed(g, loc) BY DEF Represents
  <2>2. Holds(loc, {L(src)}, s) BY <1>2, <2>1, PlaceFacts, ZenonT(60)
  <2>3. Holds(loc, {C(p)}, <<>>) BY <1>2, <1>3, <2>1, PlaceFacts, ZenonT(60)
  <2>4. \A r \in Runnable : loc[r] # C(p) BY <2>3 DEF Holds
  <2>5. Holds(loc, {L(src), C(p)}, s) BY <2>2, <2>4, ZenonT(60) DEF Holds
  <2>6. L(src) \in Place /\ C(p) \in Place /\ L(src) # C(p) BY <1>2, ZenonT(60)
  <2> HIDE DEF s
  <2>7. QED BY <2>1, <2>5, <2>6, Merge, ZenonT(60)
<1> HIDE DEF s
<1>6. g \in [Place -> Seq(Runnable)] /\ loc \in [Runnable -> Place \union {Off}]
  BY DEF Represents, Placed
<1>7. g2[C(p)] = s /\ g2[L(src)] = <<>> /\ \A y \in Place : y \notin {L(src), C(p)} => g2[y] = g[y]
  BY <1>2, <1>6 DEF Moved
<1>8. out' = {r \in Runnable : loc2[r] = Off} BY <1>1, <1>2, <1>6 DEF Represents, Relocated
<1> HIDE DEF g2, loc2
<1>9. head' \in [Heads -> Ptr] /\ head'[src] = Null /\ \A m \in Heads : m # src => head'[m] = head[m]
  BY <1>1, <1>2, ZenonT(40) DEF Represents, Pointers, Ptr
<1>10. o \in Ops BY <1>4 DEF Ops, Ptr
<1>11. Moving(o, next, s)
  <2>1. 1 \in 1..Len(s) BY <1>4
  <2>2. QED BY <1>4, <2>1 DEF Moving
<1> HIDE DEF o
<1>12. op' \in [Ctx -> Ops] /\ op'[p] = o /\ \A q \in Ctx : q # p => op'[q] = op[q]
  BY <1>1, <1>10 DEF Represents, Pointers
<1>13. \A q \in Ctx : Moving(op'[q], next', g2[C(q)])
  <2>1. \A q \in Ctx : q # p => C(q) \notin {L(src), C(p)} /\ C(q) \in Place BY <1>2, PlacesDiffer
  <2>2. \A q \in Ctx : Moving(op[q], next, g[C(q)]) BY DEF Represents, Pointers
  <2>3. QED BY <1>1, <1>7, <1>11, <1>12, <2>1, <2>2
<1>14. \A y \in Place : Linked(next', g2[y])
  <2>1. \A y \in Place : Linked(next, g[y]) BY ZenonT(40) DEF Represents, Pointers
  <2>2. Linked(next, <<>>) BY DEF Linked
  <2>3. QED BY <2>1, <2>2, <1>1, <1>4, <1>7
<1>15. \A m \in Heads : head'[m] = First(g2[L(m)]) /\ Ended(next', g2[L(m)])
  <2>1. \A m \in Heads : head[m] = First(g[L(m)]) /\ Ended(next, g[L(m)]) BY ZenonT(40) DEF Represents, Pointers
  <2>2. \A m \in Heads : m # src => L(m) \in Place /\ L(m) \notin {L(src), C(p)} BY <1>2, PlacesDiffer
  <2>3. First(<<>>) = Null /\ Ended(next, <<>>) BY DEF First, Ended
  <2>4. QED BY <2>1, <2>2, <2>3, <1>1, <1>7, <1>9
<1>16. g2[Rq] = g[Rq] BY <1>2, <1>7, PlacesDiffer
<1>17. Pointers(g2)' BY <1>1, <1>9, <1>12, <1>13, <1>14, <1>15, <1>16, ZenonT(40) DEF Pointers, Represents
<1>18. Represents(g2, loc2)' BY <1>5, <1>8, <1>17 DEF Represents
<1>19. QED BY <1>3, <1>4, <1>18 DEF g2, loc2, s

-----------------------------------------------------------------------------
(* sched_unqueue.                                                          *)

\* the fresh entries, oldest first, are behind those of the runqueue
LEMMA SpliceIs ==
  ASSUME NEW g, NEW loc, Represents(g, loc), NEW u, Joined(u, g[Rq], Reverse(g[L(Fresh)])),
         Chain(next, head[Fresh]) = g[L(Fresh)]
  PROVE  /\ Splice.next \in [Runnable -> Ptr] /\ Linked(Splice.next, u) /\ Ended(Splice.next, u)
         /\ Splice.head = First(u) /\ (u # <<>> => Splice.tail = u[Len(u)])
         /\ \A r \in Runnable : loc[r] \notin {L(Fresh), Rq} => Splice.next[r] = next[r]
<1> DEFINE f == g[L(Fresh)]
           q == g[Rq]
           v == Reverse(f)
           ny == Reversed(next, f)
<1>1. L(Fresh) \in Place /\ Rq \in Place /\ L(Fresh) # Rq BY PlacesDiffer
<1>2. /\ f \in Seq(Runnable) /\ Inj(f)
      /\ \A i \in 1..Len(f) : f[i] \in Runnable /\ loc[f[i]] = L(Fresh)
  <2>1. Placed(g, loc) BY DEF Represents
  <2>2. Holds(loc, {L(Fresh)}, f) BY <1>1, <2>1, PlaceFacts, ZenonT(60)
  <2> HIDE DEF f
  <2>3. QED BY <2>2 DEF Holds
<1>3. /\ q \in Seq(Runnable) /\ Inj(q)
      /\ \A i \in 1..Len(q) : q[i] \in Runnable /\ loc[q[i]] = Rq
  <2>1. Placed(g, loc) BY DEF Represents
  <2>2. Holds(loc, {Rq}, q) BY <1>1, <2>1, PlaceFacts, ZenonT(60)
  <2> HIDE DEF q
  <2>3. QED BY <2>2 DEF Holds
<1>4. /\ next \in [Runnable -> Ptr] /\ Linked(next, f) /\ Ended(next, f) /\ head[Fresh] = First(f)
      /\ Linked(next, q) /\ Ended(next, q) /\ rqhead = First(q)
      /\ rqtail = IF q = <<>> THEN RqHead ELSE q[Len(q)]
  BY <1>1, PlacesDiffer, ZenonT(40) DEF Represents, Pointers, Last
<1>5. Chain(next, head[Fresh]) = f BY DEF f
<1> HIDE DEF f, q
<1>6. /\ v \in Seq(Runnable) /\ Len(v) = Len(f)
      /\ \A i \in 1..Len(f) : v[i] = f[Len(f) - i + 1]
  BY <1>2, ReverseType, ZenonT(60)
<1>7. /\ ny \in [Runnable -> Ptr] /\ Linked(ny, v) /\ Ended(ny, v)
      /\ \A r \in Runnable : (\A i \in 1..Len(f) : f[i] # r) => ny[r] = next[r]
  BY <1>2, <1>4, ReversedLinks, ZenonT(60)
<1> HIDE DEF v, ny
<1>8. Joined(u, q, v) BY DEF q, v, f
<1>qv. q \in Seq(Runnable) /\ v \in Seq(Runnable) BY <1>3, <1>6, ZenonT(60)
<1>9. CASE f = <<>>
  <2>1. Splice = [next |-> next, head |-> rqhead, tail |-> rqtail] BY <1>5, <1>9, ZenonT(40) DEF Splice
  <2>2. v = <<>> /\ Len(v) = 0 BY <1>6, <1>9
  <2>3. Linked(next, <<>>) /\ Ended(next, <<>>) /\ First(<<>>) = Null BY DEF Linked, Ended, First
  <2>4. Leads(next, q, v) BY <1>4, <2>2, <2>3 DEF Ended, Leads
  <2>5. Linked(next, u) /\ Ended(next, u) /\ First(u) = IF q = <<>> THEN First(v) ELSE q[1]
    <3>1. Linked(next, q) /\ Linked(next, v) /\ Ended(next, v) BY <1>4, <2>2, <2>3
    <3>2. QED BY <1>8, <1>qv, <2>4, <3>1, JoinLinks, ZenonT(60)
  <2>6. First(u) = First(q) BY <2>2, <2>3, <2>5 DEF First
  <2>7. u # <<>> => q # <<>> /\ u[Len(u)] = q[Len(q)]
    <3>1. /\ u \in Seq(Runnable) /\ Len(u) = Len(q) + Len(v) /\ \A i \in 1..Len(q) : u[i] = q[i]
      BY <1>8, ZenonT(60) DEF Joined
    <3>2. Len(u) = Len(q) /\ Len(q) \in Nat BY <1>3, <2>2, <3>1
    <3>3. u # <<>> => q # <<>> /\ Len(q) \in 1..Len(q) BY <1>3, <3>1, <3>2
    <3>4. QED BY <3>1, <3>2, <3>3
  <2>8. QED BY <1>4, <2>1, <2>5, <2>6, <2>7, ZenonT(40)
<1>10. ASSUME f # <<>>
       PROVE  /\ Len(f) \in 1..Len(f) /\ 1 \in 1..Len(f) /\ v # <<>> /\ u # <<>>
              /\ First(v) = f[Len(f)] /\ v[1] = f[Len(f)] /\ u[Len(u)] = f[1]
              /\ Last(f) = f[Len(f)] /\ Head(f) = f[1]
  <2>1. Len(f) \in Nat /\ Len(f) \in 1..Len(f) /\ 1 \in 1..Len(f) BY <1>2, <1>10
  <2>2. v[1] = f[Len(f)] /\ v[Len(f)] = f[1] BY <1>6, <2>1
  <2>3. v # <<>> /\ First(v) = v[1] BY <1>6, <2>1 DEF First
  <2>4. Len(q) \in Nat /\ Len(u) = Len(q) + Len(f) /\ u \in Seq(Runnable)
    <3>1. u \in Seq(Runnable) /\ Len(u) = Len(q) + Len(v) BY <1>8, ZenonT(60) DEF Joined
    <3>2. QED BY <1>3, <1>6, <3>1
  <2>5. Len(u) \in (Len(q) + 1)..(Len(q) + Len(v)) /\ Len(u) - Len(q) = Len(f) /\ u # <<>>
    BY <1>6, <2>1, <2>4
  <2>6. u[Len(u)] = v[Len(f)] BY <1>8, <2>5, ZenonT(60) DEF Joined
  <2>7. QED BY <1>2, <1>10, <2>1, <2>2, <2>3, <2>5, <2>6 DEF Last
<1>11. CASE f # <<>> /\ q = <<>>
  <2>1. RqHead # Null BY RunListAssumption
  <2>2. Splice = [next |-> ny, head |-> Last(f), tail |-> Head(f)]
    BY <1>4, <1>5, <1>11, <2>1, ZenonT(40) DEF Splice, ny
  <2>3. Linked(ny, q) BY <1>11 DEF Linked
  <2>4. Linked(ny, u) /\ Ended(ny, u) /\ First(u) = First(v)
    <3>1. Leads(ny, q, v) BY <1>11 DEF Leads
    <3>3. Linked(ny, v) /\ Ended(ny, v) BY <1>7, ZenonT(60)
    <3>2. /\ Linked(ny, u) /\ Ended(ny, u) /\ First(u) = IF q = <<>> THEN First(v) ELSE q[1]
      BY <1>8, <1>qv, <2>3, <3>1, <3>3, JoinLinks, ZenonT(60)
    <3>4. QED BY <1>11, <3>2
  <2>5. \A r \in Runnable : loc[r] # L(Fresh) => ny[r] = next[r] BY <1>2, <1>7
  <2>6. QED BY <1>7, <1>10, <1>11, <2>2, <2>4, <2>5, ZenonT(40)
<1>12. CASE f # <<>> /\ q # <<>>
  <2> DEFINE nz == [ny EXCEPT ![q[Len(q)]] = f[Len(f)]]
  <2>1. Len(q) \in Nat /\ Len(q) \in 1..Len(q) /\ q[Len(q)] \in Runnable /\ loc[q[Len(q)]] = Rq
    BY <1>3, <1>12
  <2>2. rqtail = q[Len(q)] /\ rqtail # Null /\ rqtail # RqHead BY <1>4, <1>12, <2>1, RunListAssumption, ZenonT(40)
  <2>3. Splice = [next |-> nz, head |-> rqhead, tail |-> Head(f)]
    BY <1>5, <1>10, <1>12, <2>2, ZenonT(40) DEF Splice, ny
  <2>4. f[Len(f)] \in Ptr BY <1>2, <1>10, <1>12 DEF Ptr
  <2>5. /\ nz \in [Runnable -> Ptr] /\ nz[q[Len(q)]] = f[Len(f)]
        /\ \A r \in Runnable : r # q[Len(q)] => nz[r] = ny[r]
    BY <1>7, <2>1, <2>4, ZenonT(40)
  <2> HIDE DEF nz
  <2>6. Linked(nz, q)
    <3>1. ASSUME NEW i \in 1..(Len(q) - 1) PROVE nz[q[i]] = q[i + 1]
      <4>1. i \in 1..Len(q) /\ i # Len(q) BY <2>1
      <4>2. q[i] # q[Len(q)] BY <1>3, <2>1, <4>1 DEF Inj
      <4>3. q[i] \in Runnable /\ \A j \in 1..Len(f) : f[j] # q[i] BY <1>1, <1>2, <1>3, <4>1, ZenonT(40)
      <4>4. nz[q[i]] = next[q[i]] BY <1>7, <2>5, <4>2, <4>3, ZenonT(40)
      <4>5. QED BY <1>4, <4>4 DEF Linked
    <3>2. QED BY <3>1 DEF Linked
  <2>7. Linked(nz, v) /\ Ended(nz, v)
    <3>1. ASSUME NEW i \in 1..Len(v) PROVE nz[v[i]] = ny[v[i]]
      <4>1. Len(f) - i + 1 \in 1..Len(f) /\ v[i] = f[Len(f) - i + 1] BY <1>2, <1>6
      <4>2. v[i] \in Runnable /\ loc[v[i]] = L(Fresh) BY <1>2, <4>1, ZenonT(40)
      <4>3. QED BY <1>1, <2>1, <2>5, <4>2
    <3>2. QED BY <1>6, <1>7, <3>1, SameLinks, ZenonT(60)
  <2>8. Linked(nz, u) /\ Ended(nz, u) /\ First(u) = First(q)
    <3>1. Leads(nz, q, v) BY <1>10, <1>12, <2>5 DEF Leads
    <3>2. /\ Linked(nz, u) /\ Ended(nz, u) /\ First(u) = IF q = <<>> THEN First(v) ELSE q[1]
      BY <1>8, <1>qv, <2>6, <2>7, <3>1, JoinLinks, ZenonT(60)
    <3>3. QED BY <1>12, <3>2 DEF First
  <2>9. \A r \in Runnable : loc[r] \notin {L(Fresh), Rq} => nz[r] = next[r]
    <3>1. \A r \in Runnable : loc[r] # L(Fresh) => ny[r] = next[r] BY <1>2, <1>7
    <3>2. QED BY <2>1, <2>5, <3>1, ZenonT(40)
  <2>10. QED BY <1>4, <1>10, <1>12, <2>3, <2>5, <2>8, <2>9, ZenonT(40)
<1>13. QED BY <1>9, <1>11, <1>12, ZenonT(40)

LEMMA UnqueueStep ==
  ASSUME NEW g, NEW loc, Represents(g, loc), Unqueue,
         NEW u, Joined(u, g[Rq], Reverse(g[L(Fresh)])), Chain(next, head[Fresh]) = g[L(Fresh)]
  PROVE  /\ u \in Seq(Runnable) /\ u # <<>> /\ out' = out \union {u[1]}
         /\ \E loc2 : Represents([Moved(g, L(Fresh), Rq, u) EXCEPT ![Rq] = Tail(u)], loc2)'
<1> DEFINE f == g[L(Fresh)]
           q == g[Rq]
           v == Reverse(f)
           g1 == Moved(g, L(Fresh), Rq, u)
           loc1 == Relocated(loc, L(Fresh), Rq)
           g2 == [g1 EXCEPT ![Rq] = Tail(u)]
           loc2 == [loc1 EXCEPT ![u[1]] = Off]
<1>1. L(Fresh) \in Place /\ Rq \in Place /\ L(Fresh) # Rq /\ L(Fresh) # Off /\ Rq # Off /\ Fresh \in Heads
  BY PlacesDiffer
<1>2. Placed(g, loc) BY DEF Represents
<1>3. Holds(loc, {L(Fresh)}, f) BY <1>1, <1>2, PlaceFacts, ZenonT(60)
<1>4. Holds(loc, {Rq}, q) BY <1>1, <1>2, PlaceFacts, ZenonT(60)
<1> HIDE DEF f, q
<1>5. /\ f \in Seq(Runnable) /\ Inj(f)
      /\ v \in Seq(Runnable) /\ Len(v) = Len(f) /\ \A i \in 1..Len(f) : v[i] = f[Len(f) - i + 1]
  <2>1. f \in Seq(Runnable) /\ Inj(f) BY <1>3, ZenonT(60) DEF Holds
  <2>2. QED BY <2>1, ReverseType, ZenonT(60)
<1> HIDE DEF v
<1>6. q \in Seq(Runnable) BY <1>4, ZenonT(60) DEF Holds
<1>7. Joined(u, q, v) BY DEF q, v, f
<1>8. Holds(loc, {L(Fresh)}, v) BY <1>3, ReverseHeld, ZenonT(60) DEF v
<1>9. Holds(loc, {L(Fresh), Rq}, u)
  <2>1. Rq # L(Fresh) BY <1>1
  <2>2. Holds(loc, {Rq, L(Fresh)}, u) BY <1>4, <1>7, <1>8, <2>1, JoinMembers, ZenonT(60)
  <2>3. {Rq, L(Fresh)} = {L(Fresh), Rq} OBVIOUS
  <2>4. QED BY <2>2, <2>3, ZenonT(60)
<1>10. /\ Splice.next \in [Runnable -> Ptr] /\ Linked(Splice.next, u) /\ Ended(Splice.next, u)
       /\ Splice.head = First(u) /\ (u # <<>> => Splice.tail = u[Len(u)])
       /\ \A r \in Runnable : loc[r] \notin {L(Fresh), Rq} => Splice.next[r] = next[r]
  BY SpliceIs, ZenonT(60)
<1>11. /\ Splice.head # Null /\ head' = [head EXCEPT ![Fresh] = Null] /\ next' = Splice.next
       /\ rqhead' = Splice.next[Splice.head]
       /\ rqtail' = IF rqhead' = Null THEN RqHead ELSE Splice.tail
       /\ out' = out \union {Splice.head} /\ op' = op
  BY ZenonT(40) DEF Unqueue
<1>12. u \in Seq(Runnable) /\ u # <<>> /\ Splice.head = u[1] /\ u[1] \in Runnable /\ Len(u) \in Nat \ {0}
  <2>1. u \in Seq(Runnable) BY <1>9, ZenonT(60) DEF Holds
  <2>2. u # <<>> BY <1>10, <1>11, ZenonT(40) DEF First
  <2>3. QED BY <1>10, <2>1, <2>2 DEF First
<1>13. Placed(g1, loc1) BY <1>1, <1>2, <1>9, Merge, ZenonT(60)
<1>14. g \in [Place -> Seq(Runnable)] /\ loc \in [Runnable -> Place \union {Off}]
  BY <1>2 DEF Placed
<1>15. g1[Rq] = u /\ g1[L(Fresh)] = <<>> /\ \A y \in Place : y \notin {L(Fresh), Rq} => g1[y] = g[y]
  BY <1>1, <1>14 DEF Moved
<1>16. g1 \in [Place -> Seq(Runnable)] BY <1>13, ZenonT(40) DEF Placed
<1>17. loc1[u[1]] = Rq /\ \A r \in Runnable : loc1[r] = Off <=> loc[r] = Off
  <2>1. loc[u[1]] \in {L(Fresh), Rq} BY <1>9, <1>12 DEF Holds
  <2>2. QED BY <1>1, <1>12, <1>14, <2>1 DEF Relocated
<1>18. loc1 \in [Runnable -> Place \union {Off}] BY <1>13, ZenonT(40) DEF Placed
<1> HIDE DEF g1, loc1
<1>19. Placed(g2, loc2)
  <2>1. Placed([g1 EXCEPT ![Rq] = Tail(g1[Rq])], [loc1 EXCEPT ![g1[Rq][1]] = Off])
    <3>1. g1[Rq] # <<>> BY <1>12, <1>15, ZenonT(40)
    <3>2. QED BY <1>1, <1>13, <3>1, Pop
  <2>2. QED BY <1>15, <2>1, ZenonT(40)
<1>20. out' = {r \in Runnable : loc2[r] = Off}
  <2>1. out = {r \in Runnable : loc[r] = Off} BY DEF Represents
  <2>2. loc2[u[1]] = Off /\ \A r \in Runnable : r # u[1] => loc2[r] = loc1[r] BY <1>12, <1>18
  <2> HIDE DEF loc2
  <2>3. QED BY <1>11, <1>12, <1>17, <2>1, <2>2, ZenonT(40)
<1>21. /\ g2[Rq] = Tail(u) /\ g2[L(Fresh)] = <<>>
       /\ \A y \in Place : y \notin {L(Fresh), Rq} => g2[y] = g[y]
  BY <1>1, <1>15, <1>16, ZenonT(40)
<1> HIDE DEF g2, loc2
<1> DEFINE w == Tail(u)
<1>22. w \in Seq(Runnable) /\ Len(w) = Len(u) - 1 /\ \A i \in 1..Len(w) : w[i] = u[i + 1] BY <1>12
<1> HIDE DEF w
<1>23. /\ Linked(next', w) /\ Ended(next', w) /\ rqhead' = First(w)
       /\ rqtail' = IF w = <<>> THEN RqHead ELSE w[Len(w)]
  <2>1. Linked(next', u) /\ Ended(next', u) BY <1>10, <1>11, ZenonT(40)
  <2>2. Linked(next', w)
    <3>1. ASSUME NEW i \in 1..(Len(w) - 1) PROVE next'[w[i]] = w[i + 1]
      <4>1. /\ i \in 1..Len(w) /\ i + 1 \in 1..Len(w) /\ i + 1 \in 1..(Len(u) - 1)
        BY <1>12, <1>22
      <4>2. w[i] = u[i + 1] /\ w[i + 1] = u[(i + 1) + 1] BY <1>22, <4>1, ZenonT(60)
      <4>3. next'[u[i + 1]] = u[(i + 1) + 1] BY <2>1, <4>1, ZenonT(40) DEF Linked
      <4>4. QED BY <4>2, <4>3, ZenonT(40)
    <3>2. QED BY <3>1, ZenonT(40) DEF Linked
  <2>3. w # <<>> => w[Len(w)] = u[Len(u)] /\ First(w) = u[2] /\ next'[u[1]] = u[2] /\ u[2] \in Runnable
    <3>1. SUFFICES ASSUME w # <<>> PROVE w[Len(w)] = u[Len(u)] /\ First(w) = u[2] /\ next'[u[1]] = u[2] /\ u[2] \in Runnable
      OBVIOUS
    <3>2. Len(w) \in 1..Len(w) /\ 1 \in 1..Len(w) /\ Len(w) + 1 = Len(u) /\ 1 \in 1..(Len(u) - 1) /\ 2 \in 1..Len(u)
      BY <1>12, <1>22, <3>1
    <3>3. w[Len(w)] = u[Len(u)] /\ w[1] = u[2] BY <1>22, <3>2
    <3>4. next'[u[1]] = u[1 + 1] BY <2>1, <3>2, ZenonT(40) DEF Linked
    <3>5. u[2] \in Runnable BY <1>12, <3>2
    <3>6. QED BY <3>1, <3>3, <3>4, <3>5 DEF First
  <2>4. w = <<>> => next'[u[1]] = Null
    <3>1. w = <<>> => Len(u) = 1 BY <1>12, <1>22
    <3>2. QED BY <1>12, <2>1, <3>1, ZenonT(60) DEF Ended
  <2>5. Ended(next', w) BY <2>1, <2>3, <1>12 DEF Ended
  <2>6. rqhead' = next'[u[1]] BY <1>11, <1>12, ZenonT(40)
  <2>7. w = <<>> => First(w) = Null BY DEF First
  <2>8. rqhead' = First(w) BY <2>3, <2>4, <2>6, <2>7, ZenonT(40)
  <2>9. u[2] \in Runnable => u[2] # Null BY RunListAssumption
  <2>10. Splice.tail = u[Len(u)] BY <1>10, <1>12, ZenonT(40)
  <2>11. QED BY <1>11, <2>2, <2>3, <2>4, <2>5, <2>6, <2>8, <2>9, <2>10, ZenonT(40)
<1>24. ASSUME NEW y \in Place, y \notin {L(Fresh), Rq}
       PROVE  /\ g2[y] = g[y] /\ g[y] \in Seq(Runnable)
              /\ \A i \in 1..Len(g[y]) : next'[g[y][i]] = next[g[y][i]]
  <2>1. g2[y] = g[y] /\ g[y] \in Seq(Runnable) BY <1>14, <1>21, <1>24, ZenonT(40)
  <2>2. ASSUME NEW i \in 1..Len(g[y]) PROVE next'[g[y][i]] = next[g[y][i]]
    <3>1. loc[g[y][i]] = y BY <1>2 DEF Placed
    <3>2. g[y][i] \in Runnable BY <2>1
    <3>3. QED BY <1>10, <1>11, <1>24, <3>1, <3>2, ZenonT(40)
  <2>3. QED BY <2>1, <2>2, ZenonT(40)
<1>25. head' \in [Heads -> Ptr] /\ head'[Fresh] = Null /\ \A m \in Heads : m # Fresh => head'[m] = head[m]
  BY <1>1, <1>11, ZenonT(40) DEF Represents, Pointers, Ptr
<1>26. \A y \in Place : Linked(next', g2[y])
  <2>1. Linked(next', <<>>) BY DEF Linked
  <2>2. ASSUME NEW y \in Place, y \notin {L(Fresh), Rq} PROVE Linked(next', g2[y])
    <3>1. Linked(next, g[y]) BY ZenonT(40) DEF Represents, Pointers
    <3>2. Linked(next', g[y]) BY <1>24, <2>2, <3>1, SameLinks, ZenonT(60)
    <3>3. QED BY <1>24, <2>2, <3>2, ZenonT(40)
  <2>3. Linked(next', g2[Rq]) BY <1>21, <1>23, ZenonT(40) DEF w
  <2>4. QED BY <1>21, <2>1, <2>2, <2>3, ZenonT(60)
<1>27. \A m \in Heads : head'[m] = First(g2[L(m)]) /\ Ended(next', g2[L(m)])
  <2>1. First(<<>>) = Null /\ Ended(next', <<>>) BY DEF First, Ended
  <2>2. ASSUME NEW m \in Heads, m # Fresh PROVE head'[m] = First(g2[L(m)]) /\ Ended(next', g2[L(m)])
    <3>1. L(m) \in Place /\ L(m) \notin {L(Fresh), Rq} BY <1>1, <2>2, PlacesDiffer, ZenonT(40)
    <3>2. head[m] = First(g[L(m)]) /\ Ended(next, g[L(m)]) BY ZenonT(40) DEF Represents, Pointers
    <3>3. Ended(next', g[L(m)]) BY <1>24, <3>1, <3>2, SameLinks, ZenonT(60)
    <3>4. g2[L(m)] = g[L(m)] BY <1>24, <3>1, ZenonT(40)
    <3>5. QED BY <1>25, <2>2, <3>2, <3>3, <3>4, ZenonT(40)
  <2>3. QED BY <1>21, <1>25, <2>1, <2>2, ZenonT(40)
<1>28. \A p \in Ctx : Moving(op'[p], next', g2[C(p)])
  <2>1. ASSUME NEW p \in Ctx PROVE Moving(op[p], next', g2[C(p)])
    <3>1. C(p) \in Place /\ C(p) \notin {L(Fresh), Rq} BY <1>1, PlacesDiffer, ZenonT(40)
    <3>2. Moving(op[p], next, g[C(p)]) BY ZenonT(40) DEF Represents, Pointers
    <3>3. Moving(op[p], next', g[C(p)]) BY <1>24, <3>1, <3>2, MovingSame, ZenonT(60)
    <3>4. QED BY <1>24, <3>1, <3>3, ZenonT(40)
  <2>2. QED BY <1>11, <2>1, ZenonT(40)
<1>29. Pointers(g2)'
  <2>1. next' \in [Runnable -> Ptr] BY <1>10, <1>11, ZenonT(40)
  <2>2. op' \in [Ctx -> Ops] BY <1>11, ZenonT(40) DEF Represents, Pointers
  <2>3. rqhead' = First(g2[Rq]) /\ Ended(next', g2[Rq])
        /\ rqtail' = IF g2[Rq] = <<>> THEN RqHead ELSE Last(g2[Rq])
    BY <1>21, <1>23, ZenonT(40) DEF w, Last
  <2>4. QED BY <1>25, <1>26, <1>27, <1>28, <2>1, <2>2, <2>3, ZenonT(40) DEF Pointers
<1>30. Represents(g2, loc2)' BY <1>19, <1>20, <1>29 DEF Represents
<1>31. QED BY <1>11, <1>12, <1>30, ZenonT(40) DEF g2, g1

-----------------------------------------------------------------------------
(* Every step of the pointers is a step of the queues, or none.            *)

\* the variables of RunListSpec have the values that g gives them
MappedTo(g) ==
  /\ ReadyQ = ReadyOf(g)
  /\ [l \in List |-> WaitingQ(l)] = WaitingOf(g)
  /\ [p \in Ctx |-> HeldQ(p)] = HeldOf(g)

\* what is to be shown of the operators that read the queues
Mapping == \A g, loc : Represents(g, loc) => MappedTo(g)

LEMMA RepresentsType ==
  ASSUME NEW g, NEW loc, Represents(g, loc), NEW x \in Place
  PROVE  /\ g \in [Place -> Seq(Runnable)] /\ g[x] \in Seq(Runnable)
         /\ Reverse(g[x]) \in Seq(Runnable) /\ (Reverse(g[x]) = <<>> <=> g[x] = <<>>)
<1>1. g \in [Place -> Seq(Runnable)] /\ g[x] \in Seq(Runnable) BY DEF Represents, Placed
<1>2. Reverse(g[x]) \in Seq(Runnable) /\ Len(Reverse(g[x])) = Len(g[x]) BY <1>1, ReverseType, ZenonT(60)
<1>3. QED BY <1>1, <1>2

LEMMA StutterMaps ==
  ASSUME Mapping, Mapping', NEW g, NEW loc, Represents(g, loc), Represents(g, loc)', out' = out
  PROVE  UNCHANGED Queues!vars
<1>1. MappedTo(g) /\ MappedTo(g)' BY ZenonT(60) DEF Mapping
<1>2. QED BY <1>1 DEF MappedTo, Queues!vars

LEMMA PickMaps ==
  ASSUME Mapping, Mapping', NEW g, NEW loc, Represents(g, loc), NEW p \in Ctx, NEW l \in Heads, NEW r \in Runnable,
         QueueSingle(p, l, r)
  PROVE  Queues!Pick(p, r)
<1> DEFINE g2 == [g EXCEPT ![C(p)] = <<r>>]
<1>1. g[C(p)] = <<>> /\ Represents(g2, [loc EXCEPT ![r] = C(p)])' BY QueueSingleStep, ZenonT(60)
<1>2. C(p) \in Place /\ Rq \in Place /\ L(Fresh) \in Place /\ Rq # C(p) /\ L(Fresh) # C(p)
  BY PlacesDiffer, ZenonT(40)
<1>3. g \in [Place -> Seq(Runnable)] BY <1>2, RepresentsType
<1>4. g2[C(p)] = <<r>> /\ \A x \in Place : x # C(p) => g2[x] = g[x] BY <1>2, <1>3
<1> HIDE DEF g2
<1>5. MappedTo(g) /\ MappedTo(g2)' BY <1>1, ZenonT(60) DEF Mapping
<1>6. ReadyOf(g2) = ReadyOf(g) BY <1>2, <1>4, ZenonT(60) DEF ReadyOf
<1>7. WaitingOf(g2) = WaitingOf(g)
  <2>1. \A m \in List : g2[L(m)] = g[L(m)] BY <1>4, PlacesDiffer, ZenonT(40)
  <2>2. QED BY <2>1, ZenonT(40) DEF WaitingOf
<1>8. HeldOf(g)[p] = <<>> /\ HeldOf(g2) = [HeldOf(g) EXCEPT ![p] = <<r>>]
  <2>1. \A q \in Ctx : q # p => g2[C(q)] = g[C(q)] BY <1>4, PlacesDiffer
  <2>2. Reverse(g[C(p)]) = <<>> BY <1>1, ReverseEmpty, ZenonT(60)
  <2>3. Reverse(g2[C(p)]) = <<r>> BY <1>4, ReverseOne, ZenonT(60)
  <2>4. QED BY <2>1, <2>2, <2>3, ZenonT(60) DEF HeldOf
<1>9. r \in out /\ out' = out \ {r} BY DEF QueueSingle
<1>10. QED BY <1>5, <1>6, <1>7, <1>8, <1>9, ZenonT(60) DEF Queues!Pick, MappedTo

LEMMA TakeAllMaps ==
  ASSUME Mapping, Mapping', NEW g, NEW loc, Represents(g, loc), NEW p \in Ctx, NEW dest \in Heads, NEW src \in List,
         Exchange(p, dest, src)
  PROVE  Queues!TakeAll(p, src)
<1> DEFINE g2 == Moved(g, L(src), C(p), g[L(src)])
<1>1. g[C(p)] = <<>> /\ g[L(src)] # <<>> /\ \E loc2 : Represents(g2, loc2)' BY ExchangeStep, ZenonT(60)
<1>2. /\ C(p) \in Place /\ L(src) \in Place /\ Rq \in Place /\ L(Fresh) \in Place
      /\ L(src) # C(p) /\ Rq \notin {L(src), C(p)} /\ L(Fresh) \notin {L(src), C(p)}
  BY PlacesDiffer
<1>3. g \in [Place -> Seq(Runnable)] BY <1>2, RepresentsType
<1>4. /\ g2[C(p)] = g[L(src)] /\ g2[L(src)] = <<>>
      /\ \A x \in Place : x \notin {L(src), C(p)} => g2[x] = g[x]
  BY <1>2, <1>3 DEF Moved
<1> HIDE DEF g2
<1>5. MappedTo(g) /\ MappedTo(g2)' BY <1>1, ZenonT(60) DEF Mapping
<1>6. ReadyOf(g2) = ReadyOf(g) BY <1>2, <1>4, ZenonT(60) DEF ReadyOf
<1>7. WaitingOf(g)[src] = Reverse(g[L(src)]) /\ WaitingOf(g2) = [WaitingOf(g) EXCEPT ![src] = <<>>]
  <2>1. \A m \in List : m # src => g2[L(m)] = g[L(m)] BY <1>4, PlacesDiffer, ZenonT(40)
  <2>2. Reverse(g2[L(src)]) = <<>> BY <1>4, ReverseEmpty, ZenonT(60)
  <2>3. QED BY <2>1, <2>2, ZenonT(60) DEF WaitingOf
<1>8. HeldOf(g)[p] = <<>> /\ HeldOf(g2) = [HeldOf(g) EXCEPT ![p] = Reverse(g[L(src)])]
  <2>1. \A q \in Ctx : q # p => g2[C(q)] = g[C(q)] BY <1>4, PlacesDiffer, ZenonT(40)
  <2>2. Reverse(g[C(p)]) = <<>> BY <1>1, ReverseEmpty, ZenonT(60)
  <2>3. QED BY <1>4, <2>1, <2>2, ZenonT(60) DEF HeldOf
<1>9. Reverse(g[L(src)]) # <<>> BY <1>1, <1>2, RepresentsType
<1>10. out' = out BY DEF Exchange
<1>11. QED BY <1>5, <1>6, <1>7, <1>8, <1>9, <1>10, ZenonT(60) DEF Queues!TakeAll, MappedTo

\* what a context holds is added to a list, or to the fresh list of the runqueue
LEMMA AddMaps ==
  ASSUME Mapping, Mapping', NEW g, NEW loc, Represents(g, loc), NEW p \in Ctx, CasOk(p)
  PROVE  (\E l \in List : Queues!AddToList(p, l)) \/ Queues!AddToRunqueue(p)
<1>1. PICK l \in Heads : op[p].list = l BY HeldFacts, ZenonT(40) DEF Ops
<1> DEFINE s == g[C(p)]
           t == g[L(l)]
           g2 == Moved(g, C(p), L(l), s \o t)
<1>2. s # <<>> /\ \E loc2 : Represents(g2, loc2)' BY <1>1, CasOkStep, ZenonT(60)
<1>3. /\ C(p) \in Place /\ L(l) \in Place /\ Rq \in Place /\ L(Fresh) \in Place
      /\ L(l) # C(p) /\ Rq \notin {L(l), C(p)} /\ L(Fresh) # C(p)
  BY PlacesDiffer
<1>4. /\ g \in [Place -> Seq(Runnable)] /\ g[Rq] \in Seq(Runnable)
      /\ s \in Seq(Runnable) /\ t \in Seq(Runnable)
      /\ Reverse(s) \in Seq(Runnable) /\ Reverse(t) \in Seq(Runnable) /\ Reverse(s) # <<>>
  BY <1>2, <1>3, RepresentsType
<1>5. Reverse(s \o t) = Reverse(t) \o Reverse(s) BY <1>4, ReverseConcat, ZenonT(60)
<1>6. /\ g2[C(p)] = <<>> /\ Reverse(g2[L(l)]) = Reverse(t) \o Reverse(s)
      /\ \A x \in Place : x \notin {L(l), C(p)} => g2[x] = g[x]
  <2> DEFINE st == s \o t
  <2> HIDE DEF s, t, st
  <2>1. g2 = [g EXCEPT ![L(l)] = st, ![C(p)] = <<>>] BY DEF g2, st, Moved
  <2> HIDE DEF g2
  <2>2. /\ g2[C(p)] = <<>> /\ g2[L(l)] = st /\ \A x \in Place : x \notin {L(l), C(p)} => g2[x] = g[x]
    BY <1>3, <1>4, <2>1
  <2>3. QED BY <1>5, <2>2, ZenonT(60) DEF st
<1>7. MappedTo(g) /\ MappedTo(g2)' BY <1>2, ZenonT(60) DEF Mapping
<1> HIDE DEF g2
<1>8. HeldOf(g)[p] = Reverse(s) /\ HeldOf(g2) = [HeldOf(g) EXCEPT ![p] = <<>>]
  <2>1. \A q \in Ctx : q # p => g2[C(q)] = g[C(q)] BY <1>6, PlacesDiffer, ZenonT(40)
  <2>2. Reverse(g2[C(p)]) = <<>> BY <1>6, ReverseEmpty, ZenonT(60)
  <2>3. QED BY <2>1, <2>2, ZenonT(60) DEF HeldOf
<1>9. out' = out BY DEF CasOk
<1>10. \A m \in List : m # l => g2[L(m)] = g[L(m)] BY <1>6, PlacesDiffer, ZenonT(40)
<1>11. CASE l = Fresh
  <2>1. WaitingOf(g2) = WaitingOf(g)
    <3>1. \A m \in List : g2[L(m)] = g[L(m)] BY <1>10, <1>11, PlacesDiffer
    <3>2. QED BY <3>1 DEF WaitingOf
  <2>2. ReadyOf(g2) = ReadyOf(g) \o Reverse(s)
    <3>1. ReadyOf(g2) = g[Rq] \o (Reverse(t) \o Reverse(s)) BY <1>3, <1>6, <1>11, ZenonT(60) DEF ReadyOf
    <3>2. ReadyOf(g) = g[Rq] \o Reverse(t) BY <1>11 DEF ReadyOf
    <3>3. (g[Rq] \o Reverse(t)) \o Reverse(s) = g[Rq] \o (Reverse(t) \o Reverse(s))
      <4>1. g[Rq] \in Seq(Runnable) /\ Reverse(t) \in Seq(Runnable) /\ Reverse(s) \in Seq(Runnable) BY <1>4
      <4> HIDE DEF s, t
      <4>2. Associative(g[Rq], Reverse(t), Reverse(s)) BY <4>1, ConcatAssoc, ZenonT(60)
      <4>3. QED BY <4>2, ZenonT(60) DEF Associative
    <3>4. QED BY <3>1, <3>2, <3>3, ZenonT(60)
  <2> HIDE DEF s, t
  <2>3. Queues!AddToRunqueue(p)
    BY <1>4, <1>7, <1>8, <1>9, <2>1, <2>2, ZenonT(60) DEF Queues!AddToRunqueue, MappedTo
  <2>4. QED BY <2>3
<1>12. CASE l # Fresh
  <2>1. l \in List BY <1>12 DEF Heads
  <2>2. WaitingOf(g)[l] = Reverse(t) BY <2>1 DEF WaitingOf
  <2> DEFINE new == Reverse(t) \o Reverse(s)
  <2>3. WaitingOf(g2) = [WaitingOf(g) EXCEPT ![l] = new]
    <3>1. Reverse(g2[L(l)]) = new BY <1>6, ZenonT(40)
    <3> HIDE DEF new, s, t
    <3>2. QED BY <1>10, <2>1, <3>1, ZenonT(60) DEF WaitingOf
  <2>4. ReadyOf(g2) = ReadyOf(g)
    <3>1. g2[L(Fresh)] = g[L(Fresh)] /\ g2[Rq] = g[Rq] BY <1>3, <1>6, <1>12, PlacesDiffer, ZenonT(40)
    <3>2. QED BY <3>1, ZenonT(60) DEF ReadyOf
  <2>5. new = WaitingOf(g)[l] \o HeldOf(g)[p] BY <1>8, <2>2, ZenonT(60)
  <2> HIDE DEF s, t, new
  <2>6. Queues!AddToList(p, l)
    BY <1>4, <1>7, <1>8, <1>9, <2>3, <2>4, <2>5, ZenonT(60) DEF Queues!AddToList, MappedTo
  <2>7. QED BY <2>1, <2>6
<1>13. QED BY <1>11, <1>12

LEMMA UnqueueMaps ==
  ASSUME Mapping, Mapping', NEW g, NEW loc, Represents(g, loc), Unqueue,
         Chain(next, head[Fresh]) = g[L(Fresh)]
  PROVE  Queues!Unqueue
<1> DEFINE u == ReadyOf(g)
           g2 == [Moved(g, L(Fresh), Rq, u) EXCEPT ![Rq] = Tail(u)]
<1>1. Joined(u, g[Rq], Reverse(g[L(Fresh)])) BY ReadyJoined, ZenonT(60)
<1> HIDE DEF u
<1>2. /\ u \in Seq(Runnable) /\ u # <<>> /\ out' = out \union {u[1]}
      /\ \E loc2 : Represents(g2, loc2)'
  BY <1>1, UnqueueStep, ZenonT(60)
<1>3. L(Fresh) \in Place /\ Rq \in Place /\ Rq # L(Fresh) BY PlacesDiffer, ZenonT(40)
<1>4. g \in [Place -> Seq(Runnable)] BY <1>3, RepresentsType
<1>5. /\ g2[Rq] = Tail(u) /\ g2[L(Fresh)] = <<>>
      /\ \A x \in Place : x \notin {L(Fresh), Rq} => g2[x] = g[x]
  BY <1>3, <1>4 DEF Moved
<1> HIDE DEF g2
<1>6. MappedTo(g) /\ MappedTo(g2)' BY <1>2, ZenonT(60) DEF Mapping
<1>7. ReadyOf(g2) = Tail(u)
  <2>1. ReadyOf(g2) = Tail(u) \o <<>> BY <1>5, ReverseEmpty, ZenonT(60) DEF ReadyOf
  <2>2. QED BY <1>2, <2>1
<1>8. WaitingOf(g2) = WaitingOf(g)
  <2>1. \A m \in List : g2[L(m)] = g[L(m)] BY <1>5, PlacesDiffer, ZenonT(40)
  <2>2. QED BY <2>1 DEF WaitingOf
<1>9. HeldOf(g2) = HeldOf(g)
  <2>1. \A p \in Ctx : g2[C(p)] = g[C(p)] BY <1>5, PlacesDiffer, ZenonT(40)
  <2>2. QED BY <2>1 DEF HeldOf
<1>10. Head(u) = u[1] BY <1>2
<1>11. ReadyQ = u /\ ReadyQ' = Tail(u) BY <1>6, <1>7, ZenonT(60) DEF MappedTo, u
<1>12. QED BY <1>2, <1>6, <1>8, <1>9, <1>10, <1>11, ZenonT(60) DEF Queues!Unqueue, MappedTo

=============================================================================
