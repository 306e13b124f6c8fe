------------------------ MODULE LinkPipelineProofs -------------------------
(* What TLAPS proves of LinkPipeline, for any links, channels and lists. *)
EXTENDS LinkPipeline, TLAPS

Elems(q) == {q[k] : k \in DOMAIN q}

\* The channel that the link carries, if any, is in the list file of the leg.
Noted(leg, key) == OchOf[key] = NoOch \/ OchOf[key] \in Elems(ochList[leg])

CurrentNoted == i <= Len(list) /\ Noted(list[i].leg, list[i].key)

\* The link that phyLinkTrans works on and the links that have left South are
\* noted.
PhyInv ==
  /\ list \in Seq(Items) /\ i \in Nat \ {0}
  /\ ochList \in [Legs -> Seq(OchKeys)]
  /\ pc \in {"insert", "delete"} => CurrentNoted
  /\ \A d \in Docs \ src : \E leg \in Legs : Db(leg) = DbOf[d] /\ Noted(leg, KeyOf[d])

\* ochLinkTrans walks all that is noted, and leaves nothing of an item behind.
OchInv ==
  /\ ochWork \in Seq([leg : Legs, key : OchKeys]) /\ ochI \in Nat \ {0}
  /\ ochPc \in Running =>
       \A leg \in Legs : \A k \in Elems(ochList[leg]) : [leg |-> leg, key |-> k] \in Elems(ochWork)
  /\ \A n \in 1 .. (ochI - 1) : och!Match(ochWork[n]) = {}

PipelineInv == PhyInv /\ OchInv

\* phyLinkTrans inserts every document of the cursor, the others the last.
LEMMA ScriptFacts ==
  Script.insert = "each" /\ ochLinkProcess.insert = "last" /\ ochLinkProcess.onNull = "next"
BY PipelineAssumption DEF phyLinkProcess, ochLinkProcess

\* The elements of two sequences put together are those of both.
LEMMA ConcatElems ==
  ASSUME NEW S, NEW a \in Seq(S), NEW b \in Seq(S)
  PROVE  a \o b \in Seq(S) /\ Elems(a \o b) = Elems(a) \cup Elems(b)
<1> DEFINE c == a \o b
<1>1. /\ c \in Seq(S) /\ Len(a) \in Nat /\ Len(b) \in Nat
      /\ DOMAIN a = 1 .. Len(a) /\ DOMAIN b = 1 .. Len(b) /\ DOMAIN c = 1 .. (Len(a) + Len(b))
      /\ \A k \in 1 .. Len(a) : c[k] = a[k]
      /\ \A k \in 1 .. Len(b) : c[Len(a) + k] = b[k]
  OBVIOUS
<1> HIDE DEF c
<1>2. Elems(a) \subseteq Elems(c)
  <2>1. \A k \in DOMAIN a : k \in DOMAIN c /\ c[k] = a[k]
    BY <1>1
  <2> QED BY <2>1 DEF Elems
<1>3. Elems(b) \subseteq Elems(c)
  <2>1. \A k \in DOMAIN b : Len(a) + k \in DOMAIN c /\ c[Len(a) + k] = b[k]
    BY <1>1
  <2> QED BY <2>1 DEF Elems
<1>4. Elems(c) \subseteq Elems(a) \cup Elems(b)
  <2> SUFFICES ASSUME NEW k \in DOMAIN c
               PROVE  c[k] \in Elems(a) \cup Elems(b)
    BY DEF Elems
  <2>1. CASE k \in 1 .. Len(a)
    BY <1>1, <2>1 DEF Elems
  <2>2. CASE k \notin 1 .. Len(a)
    <3>1. k - Len(a) \in 1 .. Len(b) /\ Len(a) + (k - Len(a)) = k
      BY <1>1, <2>2
    <3>2. c[k] = b[k - Len(a)]
      BY <1>1, <3>1
    <3> QED BY <1>1, <3>1, <3>2 DEF Elems
  <2> QED BY <2>1, <2>2
<1> QED BY <1>1, <1>2, <1>3, <1>4 DEF c

\* The items ochLinkTrans starts with are all that is in the list files.
LEMMA ItemsComplete ==
  ASSUME ochList \in [Legs -> Seq(OchKeys)]
  PROVE  /\ OchItems \in Seq([leg : Legs, key : OchKeys])
         /\ \A leg \in Legs : \A k \in Elems(ochList[leg]) : [leg |-> leg, key |-> k] \in Elems(OchItems)
<1> DEFINE S == [leg : Legs, key : OchKeys]
           Of(leg) == [n \in DOMAIN ochList[leg] |-> [leg |-> leg, key |-> ochList[leg][n]]]
<1>1. ASSUME NEW leg \in Legs
      PROVE  /\ Of(leg) \in Seq(S)
             /\ \A k \in Elems(ochList[leg]) : [leg |-> leg, key |-> k] \in Elems(Of(leg))
  <2> DEFINE q == ochList[leg]
             r == Of(leg)
  <2>1. q \in Seq(OchKeys) /\ Len(q) \in Nat /\ DOMAIN q = 1 .. Len(q)
        /\ \A n \in 1 .. Len(q) : q[n] \in OchKeys
    OBVIOUS
  <2>2. DOMAIN r = DOMAIN q /\ \A n \in DOMAIN q : r[n] = [leg |-> leg, key |-> q[n]]
    OBVIOUS
  <2>3. \A n \in 1 .. Len(q) : [leg |-> leg, key |-> q[n]] \in S
    BY <2>1
  <2>4. r \in [1 .. Len(q) -> S]
    BY <2>1, <2>3
  <2>5. r \in Seq(S)
    BY <2>1, <2>4
  <2> HIDE DEF q, r, S
  <2>6. \A k \in Elems(q) : [leg |-> leg, key |-> k] \in Elems(r)
    BY <2>2 DEF Elems
  <2> QED BY <2>5, <2>6 DEF q, r
<1>2. {"BH_S1", "TD_S1", "BH_S2", "TD_S2"} = Legs
  BY DEF Legs
<1>3. OchItems = ((Of("BH_S1") \o Of("TD_S1")) \o Of("BH_S2")) \o Of("TD_S2")
  BY DEF OchItems
<1> HIDE DEF S, Of
<1> DEFINE a == Of("BH_S1")
           b == Of("TD_S1")
           c == Of("BH_S2")
           e == Of("TD_S2")
           ab == a \o b
           abc == ab \o c
<1>4. /\ a \in Seq(S) /\ b \in Seq(S) /\ c \in Seq(S) /\ e \in Seq(S)
      /\ \A leg \in Legs : Of(leg) \in {a, b, c, e}
      /\ OchItems = abc \o e
  BY <1>1, <1>2, <1>3
<1> HIDE DEF a, b, c, e
<1>5. ab \in Seq(S) /\ Elems(ab) = Elems(a) \cup Elems(b)
  BY <1>4, ConcatElems
<1> HIDE DEF ab
<1>6. abc \in Seq(S) /\ Elems(abc) = Elems(ab) \cup Elems(c)
  BY <1>4, <1>5, ConcatElems
<1> HIDE DEF abc
<1>7. abc \o e \in Seq(S) /\ Elems(abc \o e) = Elems(abc) \cup Elems(e)
  BY <1>4, <1>6, ConcatElems
<1>8. \A leg \in Legs : Elems(Of(leg)) \subseteq Elems(OchItems)
  <2>1. \A x \in {a, b, c, e} : Elems(x) \subseteq Elems(abc \o e)
    BY <1>5, <1>6, <1>7
  <2> QED BY <1>4, <2>1
<1> QED BY <1>1, <1>4, <1>7, <1>8 DEF S

\* What is noted stays noted: the list files are appended to.
LEMMA NotesGrow ==
  ASSUME PhyInv, NEW item \in Items, AppendOch(item)
  PROVE  /\ ochList' \in [Legs -> Seq(OchKeys)]
         /\ \A leg \in Legs : Elems(ochList[leg]) \subseteq Elems(ochList'[leg])
         /\ OchOf[item.key] = NoOch \/ OchOf[item.key] \in Elems(ochList'[item.leg])
<1>1. ochList \in [Legs -> Seq(OchKeys)] /\ item.leg \in Legs /\ item.key \in Keys
  BY DEF PhyInv, Items
<1>2. CASE OchOf[item.key] = NoOch
  BY <1>1, <1>2 DEF AppendOch
<1>3. CASE OchOf[item.key] # NoOch
  <2> DEFINE x == OchOf[item.key]
             q == ochList[item.leg]
  <2>1. x \in OchKeys /\ q \in Seq(OchKeys) /\ ochList' = [ochList EXCEPT ![item.leg] = Append(q, x)]
    BY <1>1, <1>3, PipelineAssumption DEF AppendOch
  <2>2. Append(q, x) \in Seq(OchKeys) /\ Elems(q) \subseteq Elems(Append(q, x)) /\ x \in Elems(Append(q, x))
    <3> HIDE DEF x, q
    <3>1. /\ Len(q) \in Nat /\ DOMAIN q = 1 .. Len(q) /\ DOMAIN Append(q, x) = 1 .. (Len(q) + 1)
          /\ Append(q, x)[Len(q) + 1] = x /\ \A k \in 1 .. Len(q) : Append(q, x)[k] = q[k]
          /\ Append(q, x) \in Seq(OchKeys)
      BY <2>1
    <3>2. Len(q) + 1 \in DOMAIN Append(q, x) /\ \A k \in DOMAIN q : k \in DOMAIN Append(q, x)
      BY <3>1
    <3> QED BY <3>1, <3>2 DEF Elems
  <2> HIDE DEF x
  <2>3. /\ ochList' \in [Legs -> Seq(OchKeys)] /\ ochList'[item.leg] = Append(q, x)
        /\ \A leg \in Legs : leg # item.leg => ochList'[leg] = ochList[leg]
    BY <1>1, <2>1, <2>2
  <2>4. \A leg \in Legs : Elems(ochList[leg]) \subseteq Elems(ochList'[leg])
    <3>1. Elems(ochList[item.leg]) \subseteq Elems(ochList'[item.leg])
      BY <2>2, <2>3
    <3> QED BY <2>3, <3>1
  <2> QED BY <2>2, <2>3, <2>4 DEF x
<1> QED BY <1>2, <1>3

\* The steps of phyLinkTrans keep the invariant.
LEMMA PhyStepInv ==
  ASSUME PhyInv, OchInv, phyStep
  PROVE  PhyInv' /\ OchInv'
<1>0. /\ list \in Seq(Items) /\ i \in Nat \ {0} /\ ochList \in [Legs -> Seq(OchKeys)] /\ Len(list) \in Nat
      /\ \A n \in 1 .. Len(list) : list[n] \in Items
  BY DEF PhyInv
<1>1. OchInv'
  <2>1. ochPc \notin Running /\ UNCHANGED <<ochSrc, ochWork, ochI, ochPc>>
    BY DEF phyStep, Running, Ended, ochVars
  <2> QED BY <2>1 DEF OchInv, och!Match
\* A step that deletes nothing.
<1>2. ASSUME UNCHANGED src, list' \in Seq(Items), i' \in Nat \ {0},
             ochList' \in [Legs -> Seq(OchKeys)],
             \A leg \in Legs : Elems(ochList[leg]) \subseteq Elems(ochList'[leg]),
             pc' \in {"insert", "delete"} => CurrentNoted'
      PROVE  PhyInv'
  <2>1. \A leg \in Legs : \A key : Noted(leg, key) => Noted(leg, key)'
    BY <1>2 DEF Noted
  <2>2. \A d \in Docs \ src' : \E leg \in Legs : Db(leg) = DbOf[d] /\ Noted(leg, KeyOf[d])'
    BY <1>2, <2>1 DEF PhyInv
  <2> QED BY <1>2, <2>2 DEF PhyInv
<1>3. ASSUME NEW l \in Lists, Start(l)
      PROVE  PhyInv'
  <2>1. /\ UNCHANGED <<src, ochList>> /\ list' = l /\ i' = 1 /\ pc' = "query"
    BY <1>3 DEF Start, phyStep, Ended
  <2>2. /\ list' \in Seq(Items) /\ i' \in Nat \ {0} /\ ochList' \in [Legs -> Seq(OchKeys)]
        /\ \A leg \in Legs : Elems(ochList[leg]) \subseteq Elems(ochList'[leg])
    BY <1>0, <2>1, DataAssumption
  <2> QED BY <1>2, <2>1, <2>2
<1>4. CASE QueryEach
  <2>1. /\ i <= Len(list) /\ UNCHANGED <<src, list, i>> /\ AppendOch(list[i])
        /\ pc' \in {"insert", "delete"}
    BY <1>4 DEF QueryEach, phyStep
  <2>2. list[i] \in Items
    BY <1>0, <2>1
  <2>3. /\ ochList' \in [Legs -> Seq(OchKeys)]
        /\ \A leg \in Legs : Elems(ochList[leg]) \subseteq Elems(ochList'[leg])
        /\ OchOf[list[i].key] = NoOch \/ OchOf[list[i].key] \in Elems(ochList'[list[i].leg])
    BY <2>1, <2>2, NotesGrow
  <2>4. CurrentNoted'
    BY <2>1, <2>3 DEF CurrentNoted, Noted
  <2>5. list' \in Seq(Items) /\ i' \in Nat \ {0}
    BY <1>0, <2>1
  <2> QED BY <1>1, <1>2, <2>1, <2>3, <2>4, <2>5
<1>5. CASE Crash
  <2>1. /\ UNCHANGED <<src, list, i>> /\ pc' = "crashed"
        /\ ochList' = ochList \/ (i <= Len(list) /\ AppendOch(list[i]))
    BY <1>5 DEF Crash, phyStep
  <2>2. /\ ochList' \in [Legs -> Seq(OchKeys)]
        /\ \A leg \in Legs : Elems(ochList[leg]) \subseteq Elems(ochList'[leg])
    <3>1. CASE ochList' = ochList
      BY <1>0, <3>1
    <3>2. CASE i <= Len(list) /\ AppendOch(list[i])
      <4>1. list[i] \in Items
        BY <1>0, <3>2
      <4> QED BY <3>2, <4>1, NotesGrow
    <3> QED BY <2>1, <3>1, <3>2
  <2>3. list' \in Seq(Items) /\ i' \in Nat \ {0}
    BY <1>0, <2>1
  <2> QED BY <1>1, <1>2, <2>1, <2>2, <2>3
<1>6. ASSUME NEW m \in Images, InsertOk(m) \/ InsertZero(m) \/ InsertThrow(m)
      PROVE  PhyInv'
  <2>1. UNCHANGED <<src, list, i, ochList>> /\ pc = "insert"
    BY <1>6 DEF InsertOk, InsertZero, InsertThrow, phyStep
  <2>2. CurrentNoted'
    BY <2>1 DEF PhyInv, CurrentNoted, Noted
  <2>3. /\ list' \in Seq(Items) /\ i' \in Nat \ {0} /\ ochList' \in [Legs -> Seq(OchKeys)]
        /\ \A leg \in Legs : Elems(ochList[leg]) \subseteq Elems(ochList'[leg])
    BY <1>0, <2>1
  <2> QED BY <1>2, <2>1, <2>2, <2>3
<1>7. CASE DeleteOk \/ DeleteThrow
  <2>1. /\ UNCHANGED <<list, ochList>> /\ pc = "delete" /\ i' \in {i, i + 1} /\ pc' \notin {"insert", "delete"}
        /\ \E gone \in SUBSET Match(list[i]) : src' = src \ gone
    BY <1>7 DEF DeleteOk, DeleteThrow, phyStep
  <2>2. i \in 1 .. Len(list) /\ Noted(list[i].leg, list[i].key)
    BY <1>0, <2>1 DEF PhyInv, CurrentNoted
  <2>3. list[i].leg \in Legs
    BY <1>0, <2>2 DEF Items
  <2>4. ASSUME NEW d \in Docs \ src'
        PROVE  \E leg \in Legs : Db(leg) = DbOf[d] /\ Noted(leg, KeyOf[d])
    BY <2>1, <2>2, <2>3 DEF Match, PhyInv
  <2>5. \A d \in Docs \ src' : \E leg \in Legs : Db(leg) = DbOf[d] /\ Noted(leg, KeyOf[d])'
    BY <2>1, <2>4 DEF Noted
  <2>6. list' \in Seq(Items) /\ i' \in Nat \ {0} /\ ochList' \in [Legs -> Seq(OchKeys)]
    BY <1>0, <2>1
  <2> QED BY <1>1, <2>1, <2>5, <2>6 DEF PhyInv
<1>8. CASE Finish
  <2>1. /\ UNCHANGED <<src, list, i, ochList>> /\ pc' = "done"
    BY <1>0, <1>8 DEF Finish, phyStep
  <2>2. /\ list' \in Seq(Items) /\ i' \in Nat \ {0} /\ ochList' \in [Legs -> Seq(OchKeys)]
        /\ \A leg \in Legs : Elems(ochList[leg]) \subseteq Elems(ochList'[leg])
    BY <1>0, <2>1
  <2> QED BY <1>1, <1>2, <2>1, <2>2
<1>9. \/ \E l \in Lists : Start(l)
      \/ QueryEach \/ DeleteOk \/ DeleteThrow \/ Finish \/ Crash
      \/ \E m \in Images : InsertOk(m) \/ InsertZero(m) \/ InsertThrow(m)
  BY ScriptFacts DEF phyStep, Step, Query
<1> QED BY <1>1, <1>3, <1>4, <1>5, <1>6, <1>7, <1>8, <1>9

\* The steps of ochLinkTrans keep the invariant.
LEMMA OchStepInv ==
  ASSUME PhyInv, OchInv, ochStep
  PROVE  PhyInv' /\ OchInv'
<1>0. /\ ochWork \in Seq([leg : Legs, key : OchKeys]) /\ ochI \in Nat \ {0}
      /\ UNCHANGED <<src, pc, list, i, ochList>>
  BY DEF OchInv, ochStep, phyVars, vars
<1>1. PhyInv'
  BY <1>0 DEF PhyInv, CurrentNoted, Noted
<1>2. CASE och!Start(OchItems)
  <2>1. ochWork' = OchItems /\ ochI' = 1
    BY <1>2 DEF och!Start
  <2>2. /\ OchItems \in Seq([leg : Legs, key : OchKeys])
        /\ \A leg \in Legs : \A k \in Elems(ochList[leg]) : [leg |-> leg, key |-> k] \in Elems(OchItems)
    BY ItemsComplete DEF PhyInv
  <2> HIDE DEF OchItems
  <2>3. /\ ochWork' \in Seq([leg : Legs, key : OchKeys]) /\ ochI' \in Nat \ {0}
        /\ \A leg \in Legs : \A k \in Elems(ochList'[leg]) : [leg |-> leg, key |-> k] \in Elems(ochWork')
    BY <1>0, <2>1, <2>2
  <2>4. 1 .. (ochI' - 1) = {}
    BY <2>1
  <2> QED BY <1>1, <2>3, <2>4 DEF OchInv
\* The items that were handled stay without documents in South.
<1>3. ASSUME ochSrc' \subseteq ochSrc, UNCHANGED ochWork, ochI' \in {ochI, ochI + 1},
             ochI' = ochI + 1 => \A item : item = ochWork[ochI] => och!Match(item)' = {},
             ochPc \in Running
      PROVE  OchInv'
  <2>1. ochI' \in Nat \ {0}
    BY <1>0, <1>3
  <2>2. \A item : och!Match(item) = {} => och!Match(item)' = {}
    BY <1>3 DEF och!Match
  <2>3. \A n \in 1 .. (ochI - 1) : och!Match(ochWork[n]) = {}
    BY DEF OchInv
  <2>4. ASSUME NEW n \in 1 .. (ochI' - 1)
        PROVE  och!Match(ochWork[n])' = {}
    <3>1. ochI \in Nat /\ ochI' \in {ochI, ochI + 1}
      BY <1>0, <1>3
    <3>2. n \in 1 .. (ochI - 1) \/ (n = ochI /\ ochI' = ochI + 1)
      <4>1. CASE ochI' = ochI
        BY <4>1
      <4>2. CASE ochI' = ochI + 1
        <5>1. n \in Nat /\ 1 <= n /\ n <= ochI
          BY <3>1, <4>2
        <5> QED BY <3>1, <4>2, <5>1
      <4> QED BY <3>1, <4>1, <4>2
    <3>3. PICK item : item = ochWork[n]
      OBVIOUS
    <3>4. och!Match(item)' = {}
      BY <1>3, <2>2, <2>3, <3>2, <3>3
    <3> QED BY <1>3, <3>3, <3>4
  <2>5. \A leg \in Legs : \A k \in Elems(ochList'[leg]) : [leg |-> leg, key |-> k] \in Elems(ochWork')
    BY <1>0, <1>3 DEF OchInv
  <2> QED BY <1>0, <1>1, <1>3, <2>1, <2>4, <2>5 DEF OchInv
<1>4. ASSUME ochPc \in Running, ochSrc' \subseteq ochSrc, UNCHANGED <<ochWork, ochI>>
      PROVE  OchInv'
  <2>1. ochI' # ochI + 1
    BY <1>0, <1>4
  <2> QED BY <1>3, <1>4, <2>1
<1>5. CASE och!QueryLast \/ och!QueryNothingCarried
  <2>1. ochPc \in Running /\ UNCHANGED <<ochSrc, ochWork, ochI>>
    BY <1>5 DEF och!QueryLast, och!QueryNothingCarried, Running
  <2> QED BY <1>1, <1>4, <2>1
<1>6. CASE och!QueryNothing
  <2>1. /\ ochPc \in Running /\ ochI' = ochI + 1 /\ UNCHANGED <<ochSrc, ochWork>>
        /\ och!Match(ochWork[ochI]) = {}
    BY <1>6, ScriptFacts DEF och!QueryNothing, Running
  <2>2. \A item : och!Match(item)' = och!Match(item)
    BY <2>1 DEF och!Match
  <2>3. \A item : item = ochWork[ochI] => och!Match(item)' = {}
    BY <2>1, <2>2
  <2> QED BY <1>1, <1>3, <2>1, <2>3
<1>7. ASSUME NEW m \in och!Images, och!InsertOk(m) \/ och!InsertZero(m) \/ och!InsertThrow(m)
      PROVE  OchInv'
  <2>1. ochPc \in Running /\ UNCHANGED <<ochSrc, ochWork, ochI>>
    BY <1>7 DEF och!InsertOk, och!InsertZero, och!InsertThrow, Running
  <2> QED BY <1>4, <2>1
<1>8. CASE och!DeleteOk
  <2>1. /\ ochPc \in Running /\ ochI' = ochI + 1 /\ UNCHANGED ochWork
        /\ ochSrc' = ochSrc \ och!Match(ochWork[ochI])
    BY <1>8 DEF och!DeleteOk, Running
  <2>2. \A item : item = ochWork[ochI] => och!Match(item)' = {}
    BY <2>1 DEF och!Match
  <2> QED BY <1>1, <1>3, <2>1, <2>2
<1>9. CASE och!DeleteThrow
  <2>1. ochPc \in Running /\ ochSrc' \subseteq ochSrc /\ UNCHANGED <<ochWork, ochI>>
    BY <1>9 DEF och!DeleteThrow, Running
  <2> QED BY <1>1, <1>4, <2>1
<1>10. CASE och!Finish \/ och!Crash
  <2>1. ochPc \in Running /\ UNCHANGED <<ochSrc, ochWork, ochI>>
    BY <1>10 DEF och!Finish, och!Crash, och!Running, Running
  <2> QED BY <1>1, <1>4, <2>1
<1>11. \/ och!Start(OchItems)
       \/ och!QueryLast \/ och!QueryNothingCarried \/ och!QueryNothing
       \/ \E m \in och!Images : och!InsertOk(m) \/ och!InsertZero(m) \/ och!InsertThrow(m)
       \/ och!DeleteOk \/ och!DeleteThrow \/ och!Finish \/ och!Crash
  BY ScriptFacts DEF ochStep, och!Step, och!Query
<1> QED BY <1>1, <1>2, <1>5, <1>6, <1>7, <1>8, <1>9, <1>10, <1>11

\* The invariant holds from the start and through every step.
THEOREM PipelineInvariant == PipelineSpec => []PipelineInv
<1>1. PipelineInit => PipelineInv
  <2> SUFFICES ASSUME PipelineInit
               PROVE  PipelineInv
    OBVIOUS
  <2>1. /\ src = Docs /\ pc = "idle" /\ list = <<>> /\ i = 1 /\ ochList = [leg \in Legs |-> <<>>]
        /\ ochPc = "idle" /\ ochWork = <<>> /\ ochI = 1
    BY DEF PipelineInit, Init, och!Init
  <2>2. PhyInv
    BY <2>1 DEF PhyInv
  <2>3. 1 .. (ochI - 1) = {} /\ ochPc \notin Running
    BY <2>1 DEF Running
  <2>4. OchInv
    BY <2>1, <2>3 DEF OchInv
  <2> QED BY <2>2, <2>4 DEF PipelineInv
<1>2. PipelineInv /\ [phyStep \/ ochStep]_pipelineVars => PipelineInv'
  <2> SUFFICES ASSUME PhyInv, OchInv, [phyStep \/ ochStep]_pipelineVars
               PROVE  PhyInv' /\ OchInv'
    BY DEF PipelineInv
  <2>1. CASE UNCHANGED pipelineVars
    BY <2>1 DEF pipelineVars, vars, ochVars, PhyInv, CurrentNoted, Noted, OchInv, och!Match
  <2> QED BY <2>1, PhyStepInv, OchStepInv
<1> QED BY <1>1, <1>2, PTL DEF PipelineSpec

\* The channels of the links that left South are gone when ochLinkTrans ends
\* well: they were listed before the links moved, and every listed channel
\* has been handled.
THEOREM ChannelsFollow == PipelineSpec => ChannelsFollowLinks
<1>1. ASSUME PhyInv, OchInv, [phyStep \/ ochStep]_pipelineVars, ochPc # "done", ochPc' = "done",
             NEW d \in Docs \ src, NEW e \in OchDocs,
             OchKeyOf[e] = OchOf[KeyOf[d]], OchDbOf[e] = DbOf[d]
      PROVE  e \notin ochSrc
  <2>1. ochStep
    BY <1>1 DEF phyStep, pipelineVars, ochVars
  <2>2. ochPc \in Running /\ ochI > Len(ochWork)
    BY <1>1, <2>1, ScriptFacts
       DEF ochStep, och!Start, och!Step, och!Query, och!QueryLast, och!QueryNothingCarried,
           och!QueryNothing, och!InsertOk, och!InsertZero, och!InsertThrow, och!DeleteOk,
           och!DeleteThrow, och!Finish, och!Crash, Running
  <2>3. PICK leg \in Legs : Db(leg) = DbOf[d] /\ Noted(leg, KeyOf[d])
    BY <1>1 DEF PhyInv
  <2>4. OchKeyOf[e] \in Elems(ochList[leg])
    BY <1>1, <2>3, PipelineAssumption DEF Noted
  <2>5. [leg |-> leg, key |-> OchKeyOf[e]] \in Elems(ochWork)
    BY <1>1, <2>2, <2>4 DEF OchInv
  <2>6. PICK n \in 1 .. Len(ochWork) : ochWork[n] = [leg |-> leg, key |-> OchKeyOf[e]]
    BY <1>1, <2>5 DEF Elems, OchInv
  <2>7. n \in 1 .. (ochI - 1)
    BY <1>1, <2>2, <2>6 DEF OchInv
  <2>8. och!Match([leg |-> leg, key |-> OchKeyOf[e]]) = {}
    BY <1>1, <2>6, <2>7 DEF OchInv
  <2>9. och!Db(leg) = OchDbOf[e]
    BY <1>1, <2>3 DEF Db, och!Db
  <2> QED BY <2>8, <2>9 DEF och!Match
<1>2. PipelineInv /\ [phyStep \/ ochStep]_pipelineVars
        => [ochPc # "done" /\ ochPc' = "done" =>
              \A d \in Docs \ src : \A e \in OchDocs :
                OchKeyOf[e] = OchOf[KeyOf[d]] /\ OchDbOf[e] = DbOf[d] => e \notin ochSrc]_pipelineVars
  BY <1>1 DEF PipelineInv
<1> QED BY <1>2, PipelineInvariant, PTL DEF PipelineSpec, ChannelsFollowLinks
=============================================================================
