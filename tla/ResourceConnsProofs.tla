------------------------- MODULE ResourceConnsProofs -------------------------
(***************************************************************************)
(* Accounting of the connection scopes, for any number of connections and  *)
(* peers and any limits.                                                   *)
(***************************************************************************)
EXTENDS ResourceConns, FiniteSetTheorems, TLAPS

B2N(b) == IF b THEN 1 ELSE 0

(* A subset of a finite set that changes on one element only.              *)
LEMMA CardMove ==
  ASSUME NEW S, IsFiniteSet(S), NEW A \in SUBSET S, NEW B \in SUBSET S,
         NEW c \in S, \A x \in S \ {c} : x \in A <=> x \in B
  PROVE  /\ Cardinality(A) \in Nat
         /\ Cardinality(B) = Cardinality(A) + B2N(c \in B) - B2N(c \in A)
<1>1. IsFiniteSet(A) /\ IsFiniteSet(B)
  BY FS_Subset
<1>2. Cardinality(A) \in Nat
  BY <1>1, FS_CardinalityType
<1>3. CASE (c \in A) <=> (c \in B)
  <2>1. A = B
    BY <1>3
  <2> QED  BY <1>2, <2>1, <1>3 DEF B2N
<1>4. CASE c \in A /\ c \notin B
  <2>1. B = A \ {c}
    BY <1>4
  <2>2. Cardinality(B) = Cardinality(A) - 1
    BY <1>1, <1>4, <2>1, FS_RemoveElement
  <2> QED  BY <1>2, <1>4, <2>2 DEF B2N
<1>5. CASE c \notin A /\ c \in B
  <2>1. B = A \cup {c}
    BY <1>5
  <2>2. Cardinality(B) = Cardinality(A) + 1
    BY <1>1, <1>5, <2>1, FS_AddElement
  <2> QED  BY <1>2, <1>5, <2>2 DEF B2N
<1> QED  BY <1>3, <1>4, <1>5

(* A step of the goroutine of c leaves the other connections alone.        *)
OnlyMoves(c) ==
  \A x \in Conns \ {c} : stage'[x] = stage[x] /\ dir'[x] = dir[x] /\ peer'[x] = peer[x]

Charged(c, s, d) == dir[c] = d /\ ChargedTo(c, s)
Refers(c, p)     == peer[c] = p /\ stage[c] \notin {"idle", "gone"}
Waits(c, s, d)   == dir[c] = d /\ InWindow(c, s)
Races(c)         == stage[c] \in {"sysAdd", "transAdd", "peerAdd"}

(* How the counted sets change: by the connection that moves.              *)
LEMMA SetsMove ==
  ASSUME NEW c \in Conns, OnlyMoves(c)
  PROVE  /\ \A s \in Scopes, d \in Dirs :
              /\ Cardinality(Holders(s, d)) \in Nat
              /\ Cardinality(Holders(s, d)') = Cardinality(Holders(s, d))
                   + B2N(Charged(c, s, d)') - B2N(Charged(c, s, d))
         /\ \A p \in Peers :
              /\ Cardinality(Referrers(p)) \in Nat
              /\ Cardinality(Referrers(p)') = Cardinality(Referrers(p))
                   + B2N(Refers(c, p)') - B2N(Refers(c, p))
         /\ \A s \in Scopes, d \in Dirs :
              /\ Cardinality(WindowOf(s, d)) \in Nat
              /\ Cardinality(WindowOf(s, d)') = Cardinality(WindowOf(s, d))
                   + B2N(Waits(c, s, d)') - B2N(Waits(c, s, d))
         /\ \A s \in Scopes :
              /\ Cardinality(Window(s)) \in Nat
              /\ Cardinality(Window(s)') = Cardinality(Window(s))
                   + B2N(InWindow(c, s)') - B2N(InWindow(c, s))
         /\ /\ Cardinality(Racing) \in Nat
            /\ Cardinality(Racing') = Cardinality(Racing)
                 + B2N(Races(c)') - B2N(Races(c))
<1>1. ASSUME NEW s \in Scopes, NEW d \in Dirs
      PROVE  /\ Cardinality(Holders(s, d)) \in Nat
             /\ Cardinality(Holders(s, d)') = Cardinality(Holders(s, d))
                  + B2N(Charged(c, s, d)') - B2N(Charged(c, s, d))
  <2> DEFINE A == Holders(s, d)
             B == Holders(s, d)'
  <2>1. A \in SUBSET Conns /\ B \in SUBSET Conns
    BY DEF Holders
  <2>2. \A x \in Conns \ {c} : x \in A <=> x \in B
    BY DEF OnlyMoves, Holders, ChargedTo
  <2>3. (c \in A <=> Charged(c, s, d)) /\ (c \in B <=> Charged(c, s, d)')
    BY DEF Holders, Charged
  <2> HIDE DEF A, B
  <2>4. Cardinality(A) \in Nat /\ Cardinality(B) = Cardinality(A) + B2N(c \in B) - B2N(c \in A)
    BY <2>1, <2>2, CardMove, ConnsFinite
  <2> QED  BY <2>3, <2>4 DEF A, B, B2N
<1>2. ASSUME NEW p \in Peers
      PROVE  /\ Cardinality(Referrers(p)) \in Nat
             /\ Cardinality(Referrers(p)') = Cardinality(Referrers(p))
                  + B2N(Refers(c, p)') - B2N(Refers(c, p))
  <2> DEFINE A == Referrers(p)
             B == Referrers(p)'
  <2>1. A \in SUBSET Conns /\ B \in SUBSET Conns
    BY DEF Referrers
  <2>2. \A x \in Conns \ {c} : x \in A <=> x \in B
    BY DEF OnlyMoves, Referrers
  <2>3. (c \in A <=> Refers(c, p)) /\ (c \in B <=> Refers(c, p)')
    BY DEF Referrers, Refers
  <2> HIDE DEF A, B
  <2>4. Cardinality(A) \in Nat /\ Cardinality(B) = Cardinality(A) + B2N(c \in B) - B2N(c \in A)
    BY <2>1, <2>2, CardMove, ConnsFinite
  <2> QED  BY <2>3, <2>4 DEF A, B, B2N
<1>3. ASSUME NEW s \in Scopes, NEW d \in Dirs
      PROVE  /\ Cardinality(WindowOf(s, d)) \in Nat
             /\ Cardinality(WindowOf(s, d)') = Cardinality(WindowOf(s, d))
                  + B2N(Waits(c, s, d)') - B2N(Waits(c, s, d))
  <2> DEFINE A == WindowOf(s, d)
             B == WindowOf(s, d)'
  <2>1. A \in SUBSET Conns /\ B \in SUBSET Conns
    BY DEF WindowOf
  <2>2. \A x \in Conns \ {c} : x \in A <=> x \in B
    BY DEF OnlyMoves, WindowOf, InWindow
  <2>3. (c \in A <=> Waits(c, s, d)) /\ (c \in B <=> Waits(c, s, d)')
    BY DEF WindowOf, Waits
  <2> HIDE DEF A, B
  <2>4. Cardinality(A) \in Nat /\ Cardinality(B) = Cardinality(A) + B2N(c \in B) - B2N(c \in A)
    BY <2>1, <2>2, CardMove, ConnsFinite
  <2> QED  BY <2>3, <2>4 DEF A, B, B2N
<1>4. ASSUME NEW s \in Scopes
      PROVE  /\ Cardinality(Window(s)) \in Nat
             /\ Cardinality(Window(s)') = Cardinality(Window(s))
                  + B2N(InWindow(c, s)') - B2N(InWindow(c, s))
  <2> DEFINE A == Window(s)
             B == Window(s)'
  <2>1. A \in SUBSET Conns /\ B \in SUBSET Conns
    BY DEF Window
  <2>2. \A x \in Conns \ {c} : x \in A <=> x \in B
    BY DEF OnlyMoves, Window, InWindow
  <2>3. (c \in A <=> InWindow(c, s)) /\ (c \in B <=> InWindow(c, s)')
    BY DEF Window
  <2> HIDE DEF A, B
  <2>4. Cardinality(A) \in Nat /\ Cardinality(B) = Cardinality(A) + B2N(c \in B) - B2N(c \in A)
    BY <2>1, <2>2, CardMove, ConnsFinite
  <2> QED  BY <2>3, <2>4 DEF A, B, B2N
<1>5. /\ Cardinality(Racing) \in Nat
      /\ Cardinality(Racing') = Cardinality(Racing) + B2N(Races(c)') - B2N(Races(c))
  <2> DEFINE A == Racing
             B == Racing'
  <2>1. A \in SUBSET Conns /\ B \in SUBSET Conns
    BY DEF Racing
  <2>2. \A x \in Conns \ {c} : x \in A <=> x \in B
    BY DEF OnlyMoves, Racing
  <2>3. (c \in A <=> Races(c)) /\ (c \in B <=> Races(c)')
    BY DEF Racing, Races
  <2> HIDE DEF A, B
  <2>4. Cardinality(A) \in Nat /\ Cardinality(B) = Cardinality(A) + B2N(c \in B) - B2N(c \in A)
    BY <2>1, <2>2, CardMove, ConnsFinite
  <2> QED  BY <2>3, <2>4 DEF A, B, B2N
<1> QED  BY <1>1, <1>2, <1>3, <1>4, <1>5

(***************************************************************************)
(* What an action of one connection owes the invariant: the counters move  *)
(* with the connection's own charges, its reference count with its own     *)
(* reference, and it only leaves a window by paying into the counter.      *)
(***************************************************************************)
ChargesFollow(c) ==
  /\ \A s \in Scopes, d \in Dirs :
       cnt'[s][d] = cnt[s][d] + B2N(Charged(c, s, d)') - B2N(Charged(c, s, d))
  /\ \A p \in Peers :
       refCnt'[p] = refCnt[p] + B2N(Refers(c, p)') - B2N(Refers(c, p))

LEMMA AccountingStep ==
  ASSUME Accounting, NEW c \in Conns, OnlyMoves(c), ChargesFollow(c)
  PROVE  Accounting'
<1>1. \A s \in Scopes, d \in Dirs : cnt'[s][d] = Cardinality(Holders(s, d)')
  BY SetsMove DEF Accounting, ChargesFollow
<1>2. \A p \in Peers : refCnt'[p] = Cardinality(Referrers(p)')
  BY SetsMove DEF Accounting, ChargesFollow
<1> QED  BY <1>1, <1>2 DEF Accounting

(* Leaving a window: what the counters gain the windows lose.              *)
PaysIn(c) ==
  /\ \A s \in Scopes : Total(cnt'[s]) + B2N(InWindow(c, s)')
                         <= Total(cnt[s]) + B2N(InWindow(c, s))
  /\ \A s \in Scopes, d \in Dirs :
       cnt'[s][d] + B2N(Waits(c, s, d)') <= cnt[s][d] + B2N(Waits(c, s, d))
  /\ Races(c)' => Races(c)

LEMMA LimitsNat ==
  \A s \in Scopes : /\ Limit[s].total \in Nat
                    /\ \A d \in Dirs : Limit[s][d] \in Nat
BY LimitType DEF LimitRecord, Dirs

LEMMA TotalsInt ==
  ASSUME VarTypes
  PROVE  \A s \in Scopes : Total(cnt[s]) \in Int /\ \A d \in Dirs : cnt[s][d] \in Int
BY DEF VarTypes, Total, Dirs

LEMMA SlackStep ==
  ASSUME VarTypes, VarTypes', Slack, Cardinality(Racing) <= MaxRacing,
         NEW c \in Conns, OnlyMoves(c), PaysIn(c)
  PROVE  Slack' /\ Cardinality(Racing') <= MaxRacing
<1>1. Cardinality(Racing') <= MaxRacing
  BY SetsMove, RacingType DEF PaysIn, B2N
<1>2. ASSUME NEW s \in Scopes, Limit[s].total > 0
      PROVE  Total(cnt'[s]) + Cardinality(Window(s)') <= Limit[s].total + MaxRacing - 1
  <2>1. Total(cnt[s]) + Cardinality(Window(s)) <= Limit[s].total + MaxRacing - 1
    BY <1>2 DEF Slack
  <2>2. Total(cnt'[s]) \in Int /\ Total(cnt[s]) \in Int
    BY DEF VarTypes, Total, Dirs
  <2>3. /\ Cardinality(Window(s)) \in Nat
        /\ Cardinality(Window(s)') = Cardinality(Window(s))
             + B2N(InWindow(c, s)') - B2N(InWindow(c, s))
    BY SetsMove
  <2>4. Total(cnt'[s]) + B2N(InWindow(c, s)') <= Total(cnt[s]) + B2N(InWindow(c, s))
    BY DEF PaysIn
  <2> QED  BY <2>1, <2>2, <2>3, <2>4, LimitsNat, RacingType DEF B2N
<1>3. ASSUME NEW s \in Scopes, NEW d \in Dirs, Limit[s][d] > 0
      PROVE  cnt'[s][d] + Cardinality(WindowOf(s, d)') <= Limit[s][d] + MaxRacing - 1
  <2>1. cnt[s][d] + Cardinality(WindowOf(s, d)) <= Limit[s][d] + MaxRacing - 1
    BY <1>3 DEF Slack
  <2>2. cnt'[s][d] \in Int /\ cnt[s][d] \in Int
    BY DEF VarTypes
  <2>3. /\ Cardinality(WindowOf(s, d)) \in Nat
        /\ Cardinality(WindowOf(s, d)') = Cardinality(WindowOf(s, d))
             + B2N(Waits(c, s, d)') - B2N(Waits(c, s, d))
    BY SetsMove
  <2>4. cnt'[s][d] + B2N(Waits(c, s, d)') <= cnt[s][d] + B2N(Waits(c, s, d))
    BY DEF PaysIn
  <2> QED  BY <2>1, <2>2, <2>3, <2>4, LimitsNat, RacingType DEF B2N
<1> QED  BY <1>1, <1>2, <1>3 DEF Slack

(* Entering the window of scope t: the test held, and no more than         *)
(* MaxRacing connections are in any window afterwards.                     *)
Enters(c, t) ==
  /\ cnt' = cnt /\ dir' = dir
  /\ Fits(cnt[t], dir[c], Limit[t])
  /\ MayRace /\ ~Races(c) /\ Races(c)'
  /\ \A s \in Scopes : InWindow(c, s)' => s = t

LEMMA EnterStep ==
  ASSUME VarTypes, VarTypes', Slack, NEW c \in Conns, OnlyMoves(c),
         NEW t \in Scopes, Enters(c, t)
  PROVE  Slack' /\ Cardinality(Racing') <= MaxRacing
<1>1. Cardinality(Racing') <= MaxRacing
  BY SetsMove, RacingType DEF Enters, MayRace, B2N
<1>2. \A s \in Scopes, d \in Dirs :
        /\ Window(s)' \in SUBSET Racing' /\ WindowOf(s, d)' \in SUBSET Racing'
  BY DEF Window, WindowOf, InWindow, Racing
<1>3. IsFiniteSet(Racing')
  <2>1. Racing' \in SUBSET Conns
    BY DEF Racing
  <2> QED  BY <2>1, ConnsFinite, FS_Subset
<1>4. \A s \in Scopes, d \in Dirs :
        /\ Cardinality(Window(s)') <= Cardinality(Racing')
        /\ Cardinality(WindowOf(s, d)') <= Cardinality(Racing')
  BY <1>2, <1>3, FS_Subset
<1>5. Cardinality(Racing') \in Nat
  BY <1>3, FS_CardinalityType
<1>6. \A s \in Scopes, d \in Dirs :
        /\ Cardinality(Window(s)') \in Int /\ Cardinality(WindowOf(s, d)') \in Int
        /\ s # t => /\ Cardinality(Window(s)') <= Cardinality(Window(s))
                    /\ Cardinality(WindowOf(s, d)') <= Cardinality(WindowOf(s, d))
  BY SetsMove DEF Enters, B2N, Waits
<1>7. ASSUME NEW s \in Scopes, Limit[s].total > 0
      PROVE  Total(cnt'[s]) + Cardinality(Window(s)') <= Limit[s].total + MaxRacing - 1
  <2>1. CASE s = t
    <3>1. Total(cnt[s]) + 1 <= Limit[s].total
      BY <2>1, <1>7 DEF Enters, Fits, Within
    <3> QED
      BY <1>1, <1>4, <1>5, <1>6, <3>1, TotalsInt, LimitsNat, RacingType DEF Enters, Dirs
  <2>2. CASE s # t
    <3>1. Total(cnt[s]) + Cardinality(Window(s)) <= Limit[s].total + MaxRacing - 1
      BY <1>7 DEF Slack
    <3>2. Cardinality(Window(s)) \in Nat
      BY SetsMove
    <3> QED
      BY <1>6, <2>2, <3>1, <3>2, TotalsInt, LimitsNat, RacingType DEF Enters, Dirs
  <2> QED  BY <2>1, <2>2
<1>8. ASSUME NEW s \in Scopes, NEW d \in Dirs, Limit[s][d] > 0
      PROVE  cnt'[s][d] + Cardinality(WindowOf(s, d)') <= Limit[s][d] + MaxRacing - 1
  <2>0. cnt[s][d] + Cardinality(WindowOf(s, d)) <= Limit[s][d] + MaxRacing - 1
    BY <1>8 DEF Slack
  <2>1. CASE s = t /\ d = dir[c]
    <3>1. cnt[s][d] + 1 <= Limit[s][d]
      BY <2>1, <1>8 DEF Enters, Fits, Within
    <3> QED
      BY <1>1, <1>4, <1>5, <1>6, <3>1, TotalsInt, LimitsNat, RacingType DEF Enters
  <2>2. CASE ~(s = t /\ d = dir[c])
    <3>1. Cardinality(WindowOf(s, d)') <= Cardinality(WindowOf(s, d))
          /\ Cardinality(WindowOf(s, d)) \in Nat
      BY <2>2, SetsMove DEF Enters, B2N, Waits
    <3> QED
      BY <1>6, <2>0, <3>1, TotalsInt, LimitsNat, RacingType DEF Enters
  <2> QED  BY <2>1, <2>2
<1> QED  BY <1>1, <1>7, <1>8 DEF Slack

LEMMA MoveStep ==
  ASSUME IInv, VarTypes', PeerSet', NEW c \in Conns, OnlyMoves(c), ChargesFollow(c),
         PaysIn(c) \/ \E t \in Scopes : Enters(c, t)
  PROVE  IInv'
BY AccountingStep, SlackStep, EnterStep DEF IInv

-----------------------------------------------------------------------------
(* One lemma for the steps that move no counter, one for the entries into  *)
(* a window, one for the additions and one for the releases.               *)

LEMMA QuietStep ==
  ASSUME IInv, NEW c \in Conns,
         RefuseAtSystem(c) \/ RefuseAtTransient(c) \/ SkipPeer(c)
            \/ FailHandshake(c) \/ Done(c) \/ (\E d \in Dirs : Again(c, d))
            \/ RefuseAtPeer(c)
  PROVE  IInv'
<1>1. CASE RefuseAtSystem(c)
  <2>1. OnlyMoves(c)
    BY <1>1 DEF IInv, VarTypes, OnlyMoves, RefuseAtSystem, MoveTo
  <2>2. VarTypes'
    BY <1>1 DEF IInv, VarTypes, PeerSet, RefuseAtSystem, At, MoveTo, PC, Scopes
  <2>3. PeerSet'
    BY <1>1 DEF IInv, VarTypes, PeerSet, RefuseAtSystem, At, MoveTo
  <2>4. ChargesFollow(c)
    BY <1>1, ScopesDistinct
    DEF IInv, VarTypes, PeerSet, RefuseAtSystem, At, MoveTo, ChargesFollow, Charged, ChargedTo, Refers, B2N, Scopes
  <2>5. PaysIn(c)
    BY <1>1, ScopesDistinct
    DEF IInv, VarTypes, PeerSet, RefuseAtSystem, At, MoveTo, PaysIn, Waits, InWindow, Races, B2N, Scopes, Total, Dirs
  <2> QED  BY <2>1, <2>2, <2>3, <2>4, <2>5, MoveStep
<1>2. CASE RefuseAtTransient(c)
  <2>1. OnlyMoves(c)
    BY <1>2 DEF IInv, VarTypes, OnlyMoves, RefuseAtTransient, MoveTo
  <2>2. VarTypes'
    BY <1>2 DEF IInv, VarTypes, PeerSet, RefuseAtTransient, At, MoveTo, PC, Scopes
  <2>3. PeerSet'
    BY <1>2 DEF IInv, VarTypes, PeerSet, RefuseAtTransient, At, MoveTo
  <2>4. ChargesFollow(c)
    BY <1>2, ScopesDistinct
    DEF IInv, VarTypes, PeerSet, RefuseAtTransient, At, MoveTo, ChargesFollow, Charged, ChargedTo, Refers, B2N, Scopes
  <2>5. PaysIn(c)
    BY <1>2, ScopesDistinct
    DEF IInv, VarTypes, PeerSet, RefuseAtTransient, At, MoveTo, PaysIn, Waits, InWindow, Races, B2N, Scopes, Total, Dirs
  <2> QED  BY <2>1, <2>2, <2>3, <2>4, <2>5, MoveStep
<1>3. CASE SkipPeer(c)
  <2>1. OnlyMoves(c)
    BY <1>3 DEF IInv, VarTypes, OnlyMoves, SkipPeer, MoveTo
  <2>2. VarTypes'
    BY <1>3 DEF IInv, VarTypes, PeerSet, SkipPeer, At, MoveTo, PC, Scopes
  <2>3. PeerSet'
    BY <1>3 DEF IInv, VarTypes, PeerSet, SkipPeer, At, MoveTo
  <2>4. ChargesFollow(c)
    <3>1. /\ stage[c] = "handshake" /\ stage'[c] = "open" /\ peer[c] = NoPeer
          /\ dir' = dir /\ peer' = peer /\ cnt' = cnt /\ refCnt' = refCnt
      BY <1>3 DEF IInv, VarTypes, PeerSet, SkipPeer, At, MoveTo
    <3>2. \A s \in Scopes, d \in Dirs : Charged(c, s, d)' <=> Charged(c, s, d)
      BY <3>1, ScopesDistinct DEF Charged, ChargedTo, Scopes
    <3>3. \A p \in Peers : ~Refers(c, p) /\ ~Refers(c, p)'
      BY <3>1, ScopesDistinct DEF Refers
    <3>4. /\ \A s \in Scopes, d \in Dirs : cnt[s][d] \in Int
          /\ \A p \in Peers : refCnt[p] \in Int
      BY DEF IInv, VarTypes
    <3>5. \A s \in Scopes, d \in Dirs : B2N(Charged(c, s, d)') = B2N(Charged(c, s, d))
      BY <3>2 DEF B2N
    <3>6. \A p \in Peers : B2N(Refers(c, p)') = 0 /\ B2N(Refers(c, p)) = 0
      BY <3>3 DEF B2N
    <3>7. \A s \in Scopes, d \in Dirs : B2N(Charged(c, s, d)) \in Int
      BY DEF B2N
    <3> QED
      BY <3>1, <3>4, <3>5, <3>6, <3>7 DEF ChargesFollow
  <2>5. PaysIn(c)
    BY <1>3, ScopesDistinct
    DEF IInv, VarTypes, PeerSet, SkipPeer, At, MoveTo, PaysIn, Waits, InWindow, Races, B2N, Scopes, Total, Dirs
  <2> QED  BY <2>1, <2>2, <2>3, <2>4, <2>5, MoveStep
<1>4. CASE FailHandshake(c)
  <2>1. OnlyMoves(c)
    BY <1>4 DEF IInv, VarTypes, OnlyMoves, FailHandshake, MoveTo
  <2>2. VarTypes'
    BY <1>4 DEF IInv, VarTypes, PeerSet, FailHandshake, At, MoveTo, PC, Scopes
  <2>3. PeerSet'
    BY <1>4 DEF IInv, VarTypes, PeerSet, FailHandshake, At, MoveTo
  <2>4. ChargesFollow(c)
    <3>1. /\ stage[c] = "handshake" /\ stage'[c] = "doneSys" /\ peer[c] = NoPeer
          /\ dir' = dir /\ peer' = peer /\ cnt' = cnt /\ refCnt' = refCnt
      BY <1>4 DEF IInv, VarTypes, PeerSet, FailHandshake, At, MoveTo
    <3>2. \A s \in Scopes, d \in Dirs : Charged(c, s, d)' <=> Charged(c, s, d)
      BY <3>1, ScopesDistinct DEF Charged, ChargedTo, Scopes
    <3>3. \A p \in Peers : ~Refers(c, p) /\ ~Refers(c, p)'
      BY <3>1, ScopesDistinct DEF Refers
    <3>4. /\ \A s \in Scopes, d \in Dirs : cnt[s][d] \in Int
          /\ \A p \in Peers : refCnt[p] \in Int
      BY DEF IInv, VarTypes
    <3>5. \A s \in Scopes, d \in Dirs : B2N(Charged(c, s, d)') = B2N(Charged(c, s, d))
      BY <3>2 DEF B2N
    <3>6. \A p \in Peers : B2N(Refers(c, p)') = 0 /\ B2N(Refers(c, p)) = 0
      BY <3>3 DEF B2N
    <3>7. \A s \in Scopes, d \in Dirs : B2N(Charged(c, s, d)) \in Int
      BY DEF B2N
    <3> QED
      BY <3>1, <3>4, <3>5, <3>6, <3>7 DEF ChargesFollow
  <2>5. PaysIn(c)
    BY <1>4, ScopesDistinct
    DEF IInv, VarTypes, PeerSet, FailHandshake, At, MoveTo, PaysIn, Waits, InWindow, Races, B2N, Scopes, Total, Dirs
  <2> QED  BY <2>1, <2>2, <2>3, <2>4, <2>5, MoveStep
<1>5. CASE Done(c)
  <2>1. OnlyMoves(c)
    BY <1>5 DEF IInv, VarTypes, OnlyMoves, Done, MoveTo
  <2>2. VarTypes'
    BY <1>5 DEF IInv, VarTypes, PeerSet, Done, At, MoveTo, PC, Scopes
  <2>3. PeerSet'
    BY <1>5 DEF IInv, VarTypes, PeerSet, Done, At, MoveTo
  <2>4. ChargesFollow(c)
    BY <1>5, ScopesDistinct
    DEF IInv, VarTypes, PeerSet, Done, At, MoveTo, ChargesFollow, Charged, ChargedTo, Refers, B2N, Scopes
  <2>5. PaysIn(c)
    BY <1>5, ScopesDistinct
    DEF IInv, VarTypes, PeerSet, Done, At, MoveTo, PaysIn, Waits, InWindow, Races, B2N, Scopes, Total, Dirs
  <2> QED  BY <2>1, <2>2, <2>3, <2>4, <2>5, MoveStep
<1>6. CASE \E d \in Dirs : Again(c, d)
  <2>1. OnlyMoves(c)
    BY <1>6 DEF IInv, VarTypes, OnlyMoves, Again, MoveTo
  <2>2. VarTypes'
    BY <1>6 DEF IInv, VarTypes, PeerSet, Again, At, MoveTo, PC, Scopes
  <2>3. PeerSet'
    BY <1>6 DEF IInv, VarTypes, PeerSet, Again, At, MoveTo
  <2>4. ChargesFollow(c)
    BY <1>6, ScopesDistinct
    DEF IInv, VarTypes, PeerSet, Again, At, MoveTo, ChargesFollow, Charged, ChargedTo, Refers, B2N, Scopes
  <2>5. PaysIn(c)
    BY <1>6, ScopesDistinct
    DEF IInv, VarTypes, PeerSet, Again, At, MoveTo, PaysIn, Waits, InWindow, Races, B2N, Scopes, Total, Dirs
  <2> QED  BY <2>1, <2>2, <2>3, <2>4, <2>5, MoveStep
<1>7. CASE RefuseAtPeer(c)
  <2>1. OnlyMoves(c)
    BY <1>7 DEF IInv, VarTypes, OnlyMoves, RefuseAtPeer, MoveTo
  <2>2. VarTypes'
    BY <1>7 DEF IInv, VarTypes, PeerSet, RefuseAtPeer, At, MoveTo, PC, Scopes
  <2>3. PeerSet'
    BY <1>7 DEF IInv, VarTypes, PeerSet, RefuseAtPeer, At, MoveTo
  <2>4. ChargesFollow(c)
    BY <1>7, ScopesDistinct
    DEF IInv, VarTypes, PeerSet, RefuseAtPeer, At, MoveTo, ChargesFollow, Charged, ChargedTo, Refers, B2N, Scopes
  <2>5. PaysIn(c)
    BY <1>7, ScopesDistinct
    DEF IInv, VarTypes, PeerSet, RefuseAtPeer, At, MoveTo, PaysIn, Waits, InWindow, Races, B2N, Scopes, Total, Dirs
  <2> QED  BY <2>1, <2>2, <2>3, <2>4, <2>5, MoveStep
<1> QED  BY <1>1, <1>2, <1>3, <1>4, <1>5, <1>6, <1>7

(* SetPeer takes a reference before it tests, and drops it when it fails.  *)
LEMMA ReferenceStep ==
  ASSUME IInv, NEW c \in Conns,
         DropPeer(c) \/ \E p \in Peers : TakePeer(c, p)
  PROVE  IInv'
<1>1. CASE DropPeer(c)
  <2>1. OnlyMoves(c)
    BY <1>1 DEF IInv, VarTypes, OnlyMoves, DropPeer, MoveTo
  <2>2. VarTypes'
    BY <1>1 DEF IInv, VarTypes, PeerSet, DropPeer, At, MoveTo, PC, Scopes
  <2>3. PeerSet'
    BY <1>1 DEF IInv, VarTypes, PeerSet, DropPeer, At, MoveTo
  <2>4. ChargesFollow(c)
    <3>1. /\ stage[c] = "peerUndo" /\ stage'[c] = "doneSys" /\ peer[c] \in Peers
          /\ peer'[c] = NoPeer /\ dir' = dir /\ cnt' = cnt
      BY <1>1 DEF IInv, VarTypes, PeerSet, DropPeer, At, MoveTo
    <3>2. \A s \in Scopes, d \in Dirs : Charged(c, s, d)' <=> Charged(c, s, d)
      BY <3>1, ScopesDistinct DEF Charged, ChargedTo, Scopes
    <3>3. \A p \in Peers : ~Refers(c, p)' /\ (Refers(c, p) <=> p = peer[c])
      BY <3>1, ScopesDistinct DEF Refers
    <3>4. \A p \in Peers : refCnt'[p] = IF p = peer[c] THEN refCnt[p] - 1 ELSE refCnt[p]
      BY <1>1 DEF DropPeer, IInv, VarTypes
    <3>5. \A p \in Peers : refCnt[p] \in Int
      BY DEF IInv, VarTypes
    <3>6. \A p \in Peers : refCnt'[p] = refCnt[p] + B2N(Refers(c, p)') - B2N(Refers(c, p))
      BY <3>3, <3>4, <3>5 DEF B2N
    <3>7. \A s \in Scopes, d \in Dirs : cnt[s][d] \in Int
      BY DEF IInv, VarTypes
    <3>8. \A s \in Scopes, d \in Dirs :
            /\ B2N(Charged(c, s, d)') = B2N(Charged(c, s, d))
            /\ B2N(Charged(c, s, d)) \in Int
      BY <3>2 DEF B2N
    <3> QED
      BY <3>1, <3>6, <3>7, <3>8 DEF ChargesFollow
  <2>5. PaysIn(c)
    BY <1>1, ScopesDistinct
    DEF IInv, VarTypes, PeerSet, DropPeer, At, MoveTo, PaysIn, Waits, InWindow, Races, B2N, Scopes, Total, Dirs
  <2> QED  BY <2>1, <2>2, <2>3, <2>4, <2>5, MoveStep
<1>2. CASE \E p \in Peers : TakePeer(c, p)
  <2>0. PICK p \in Peers : TakePeer(c, p)
    BY <1>2
  <2>1. OnlyMoves(c)
    BY <2>0 DEF IInv, VarTypes, OnlyMoves, TakePeer, MoveTo
  <2>2. VarTypes'
    BY <2>0 DEF IInv, VarTypes, PeerSet, TakePeer, At, MoveTo, PC, Scopes
  <2>3. PeerSet'
    BY <2>0 DEF IInv, VarTypes, PeerSet, TakePeer, At, MoveTo
  <2>4. ChargesFollow(c)
    BY <2>0, ScopesDistinct
    DEF IInv, VarTypes, PeerSet, TakePeer, At, MoveTo, ChargesFollow, Charged, ChargedTo, Refers, B2N, Scopes
  <2>5. PaysIn(c)
    BY <2>0, ScopesDistinct
    DEF IInv, VarTypes, PeerSet, TakePeer, At, MoveTo, PaysIn, Waits, InWindow, Races, B2N, Scopes, Total, Dirs
  <2> QED  BY <2>1, <2>2, <2>3, <2>4, <2>5, MoveStep
<1> QED  BY <1>1, <1>2

LEMMA EntryStep ==
  ASSUME IInv, NEW c \in Conns,
         CheckSystem(c) \/ CheckTransient(c) \/ CheckPeer(c)
  PROVE  IInv'
<1>1. CASE CheckSystem(c)
  <2>1. OnlyMoves(c)
    BY <1>1 DEF IInv, VarTypes, OnlyMoves, CheckSystem, MoveTo
  <2>2. VarTypes'
    BY <1>1 DEF IInv, VarTypes, CheckSystem, MoveTo, PC
  <2>3. PeerSet'
    BY <1>1 DEF IInv, VarTypes, PeerSet, CheckSystem, At, MoveTo
  <2>4. ChargesFollow(c)
    BY <1>1, ScopesDistinct
    DEF IInv, VarTypes, PeerSet, CheckSystem, At, MoveTo, ChargesFollow, Charged, ChargedTo, Refers, B2N, Scopes
  <2>5. Enters(c, System)
    BY <1>1, ScopesDistinct
    DEF IInv, VarTypes, PeerSet, CheckSystem, At, MoveTo, Enters, InWindow, Races, Scopes
  <2> QED  BY <2>1, <2>2, <2>3, <2>4, <2>5, MoveStep DEF Scopes
<1>2. CASE CheckTransient(c)
  <2>1. OnlyMoves(c)
    BY <1>2 DEF IInv, VarTypes, OnlyMoves, CheckTransient, MoveTo
  <2>2. VarTypes'
    BY <1>2 DEF IInv, VarTypes, CheckTransient, MoveTo, PC
  <2>3. PeerSet'
    BY <1>2 DEF IInv, VarTypes, PeerSet, CheckTransient, At, MoveTo
  <2>4. ChargesFollow(c)
    BY <1>2, ScopesDistinct
    DEF IInv, VarTypes, PeerSet, CheckTransient, At, MoveTo, ChargesFollow, Charged, ChargedTo, Refers, B2N, Scopes
  <2>5. Enters(c, Transient)
    BY <1>2, ScopesDistinct
    DEF IInv, VarTypes, PeerSet, CheckTransient, At, MoveTo, Enters, InWindow, Races, Scopes
  <2> QED  BY <2>1, <2>2, <2>3, <2>4, <2>5, MoveStep DEF Scopes
<1>3. CASE CheckPeer(c)
  <2>1. OnlyMoves(c)
    BY <1>3 DEF IInv, VarTypes, OnlyMoves, CheckPeer, MoveTo
  <2>2. VarTypes'
    BY <1>3 DEF IInv, VarTypes, CheckPeer, MoveTo, PC
  <2>3. PeerSet'
    BY <1>3 DEF IInv, VarTypes, PeerSet, CheckPeer, At, MoveTo
  <2>4. ChargesFollow(c)
    BY <1>3, ScopesDistinct
    DEF IInv, VarTypes, PeerSet, CheckPeer, At, MoveTo, ChargesFollow, Charged, ChargedTo, Refers, B2N, Scopes
  <2>5. Enters(c, peer[c])
    BY <1>3, ScopesDistinct
    DEF IInv, VarTypes, PeerSet, CheckPeer, At, MoveTo, Enters, InWindow, Races, Scopes
  <2>6. peer[c] \in Scopes
    BY <1>3 DEF IInv, PeerSet, CheckPeer, At, Scopes
  <2> QED  BY <2>1, <2>2, <2>3, <2>4, <2>5, <2>6, MoveStep
<1> QED  BY <1>1, <1>2, <1>3

LEMMA AdditionStep ==
  ASSUME IInv, NEW c \in Conns,
         AddSystem(c) \/ AddTransient(c) \/ AddPeer(c)
  PROVE  IInv'
<1>1. CASE AddSystem(c)
  <2>1. OnlyMoves(c)
    BY <1>1 DEF IInv, VarTypes, OnlyMoves, AddSystem, MoveTo
  <2>2. VarTypes'
    BY <1>1 DEF IInv, VarTypes, PeerSet, AddSystem, At, MoveTo, PC, Scopes, Reserve
  <2>3. PeerSet'
    BY <1>1 DEF IInv, VarTypes, PeerSet, AddSystem, At, MoveTo
  <2>4. ChargesFollow(c)
    BY <1>1, ScopesDistinct
    DEF IInv, VarTypes, PeerSet, AddSystem, At, MoveTo, ChargesFollow, Charged, ChargedTo, Refers, B2N, Scopes, Reserve
  <2>5. PaysIn(c)
    BY <1>1, ScopesDistinct
    DEF IInv, VarTypes, PeerSet, AddSystem, At, MoveTo, PaysIn, Waits, InWindow, Races, B2N, Scopes, Total, Dirs, Reserve
  <2> QED  BY <2>1, <2>2, <2>3, <2>4, <2>5, MoveStep
<1>2. CASE AddTransient(c)
  <2>1. OnlyMoves(c)
    BY <1>2 DEF IInv, VarTypes, OnlyMoves, AddTransient, MoveTo
  <2>2. VarTypes'
    BY <1>2 DEF IInv, VarTypes, PeerSet, AddTransient, At, MoveTo, PC, Scopes, Reserve
  <2>3. PeerSet'
    BY <1>2 DEF IInv, VarTypes, PeerSet, AddTransient, At, MoveTo
  <2>4. ChargesFollow(c)
    BY <1>2, ScopesDistinct
    DEF IInv, VarTypes, PeerSet, AddTransient, At, MoveTo, ChargesFollow, Charged, ChargedTo, Refers, B2N, Scopes, Reserve
  <2>5. PaysIn(c)
    BY <1>2, ScopesDistinct
    DEF IInv, VarTypes, PeerSet, AddTransient, At, MoveTo, PaysIn, Waits, InWindow, Races, B2N, Scopes, Total, Dirs, Reserve
  <2> QED  BY <2>1, <2>2, <2>3, <2>4, <2>5, MoveStep
<1>3. CASE AddPeer(c)
  <2>1. OnlyMoves(c)
    BY <1>3 DEF IInv, VarTypes, OnlyMoves, AddPeer, MoveTo
  <2>2. VarTypes'
    BY <1>3 DEF IInv, VarTypes, PeerSet, AddPeer, At, MoveTo, PC, Scopes, Reserve
  <2>3. PeerSet'
    BY <1>3 DEF IInv, VarTypes, PeerSet, AddPeer, At, MoveTo
  <2>4. ChargesFollow(c)
    BY <1>3, ScopesDistinct
    DEF IInv, VarTypes, PeerSet, AddPeer, At, MoveTo, ChargesFollow, Charged, ChargedTo, Refers, B2N, Scopes, Reserve
  <2>5. PaysIn(c)
    BY <1>3, ScopesDistinct
    DEF IInv, VarTypes, PeerSet, AddPeer, At, MoveTo, PaysIn, Waits, InWindow, Races, B2N, Scopes, Total, Dirs, Reserve
  <2> QED  BY <2>1, <2>2, <2>3, <2>4, <2>5, MoveStep
<1> QED  BY <1>1, <1>2, <1>3

LEMMA ReleaseStep ==
  ASSUME IInv, NEW c \in Conns,
         UndoSystem(c) \/ ReleaseTransient(c) \/ DoneSystem(c) \/ DoneLast(c)
  PROVE  IInv'
<1>1. CASE UndoSystem(c)
  <2>1. OnlyMoves(c)
    BY <1>1 DEF IInv, VarTypes, OnlyMoves, UndoSystem, MoveTo
  <2>2. VarTypes'
    BY <1>1 DEF IInv, VarTypes, PeerSet, UndoSystem, At, MoveTo, PC, Scopes, Release
  <2>3. PeerSet'
    BY <1>1 DEF IInv, VarTypes, PeerSet, UndoSystem, At, MoveTo
  <2>4. ChargesFollow(c)
    BY <1>1, ScopesDistinct
    DEF IInv, VarTypes, PeerSet, UndoSystem, At, MoveTo, ChargesFollow, Charged, ChargedTo, Refers, B2N, Scopes, Release
  <2>5. PaysIn(c)
    BY <1>1, ScopesDistinct
    DEF IInv, VarTypes, PeerSet, UndoSystem, At, MoveTo, PaysIn, Waits, InWindow, Races, B2N, Scopes, Total, Dirs, Release
  <2> QED  BY <2>1, <2>2, <2>3, <2>4, <2>5, MoveStep
<1>2. CASE ReleaseTransient(c)
  <2>1. OnlyMoves(c)
    BY <1>2 DEF IInv, VarTypes, OnlyMoves, ReleaseTransient, MoveTo
  <2>2. VarTypes'
    BY <1>2 DEF IInv, VarTypes, PeerSet, ReleaseTransient, At, MoveTo, PC, Scopes, Release
  <2>3. PeerSet'
    BY <1>2 DEF IInv, VarTypes, PeerSet, ReleaseTransient, At, MoveTo
  <2>4. ChargesFollow(c)
    BY <1>2, ScopesDistinct
    DEF IInv, VarTypes, PeerSet, ReleaseTransient, At, MoveTo, ChargesFollow, Charged, ChargedTo, Refers, B2N, Scopes, Release
  <2>5. PaysIn(c)
    BY <1>2, ScopesDistinct
    DEF IInv, VarTypes, PeerSet, ReleaseTransient, At, MoveTo, PaysIn, Waits, InWindow, Races, B2N, Scopes, Total, Dirs, Release
  <2> QED  BY <2>1, <2>2, <2>3, <2>4, <2>5, MoveStep
<1>3. CASE DoneSystem(c)
  <2>1. OnlyMoves(c)
    BY <1>3 DEF IInv, VarTypes, OnlyMoves, DoneSystem, MoveTo
  <2>2. VarTypes'
    BY <1>3 DEF IInv, VarTypes, PeerSet, DoneSystem, At, MoveTo, PC, Scopes, Release
  <2>3. PeerSet'
    BY <1>3 DEF IInv, VarTypes, PeerSet, DoneSystem, At, MoveTo
  <2>4. ChargesFollow(c)
    BY <1>3, ScopesDistinct
    DEF IInv, VarTypes, PeerSet, DoneSystem, At, MoveTo, ChargesFollow, Charged, ChargedTo, Refers, B2N, Scopes, Release
  <2>5. PaysIn(c)
    BY <1>3, ScopesDistinct
    DEF IInv, VarTypes, PeerSet, DoneSystem, At, MoveTo, PaysIn, Waits, InWindow, Races, B2N, Scopes, Total, Dirs, Release
  <2> QED  BY <2>1, <2>2, <2>3, <2>4, <2>5, MoveStep
<1>4. CASE DoneLast(c)
  <2>1. OnlyMoves(c)
    BY <1>4 DEF IInv, VarTypes, OnlyMoves, DoneLast, MoveTo
  <2>2. VarTypes'
    BY <1>4 DEF IInv, VarTypes, PeerSet, DoneLast, At, MoveTo, PC, Scopes, Release
  <2>3. PeerSet'
    BY <1>4 DEF IInv, VarTypes, PeerSet, DoneLast, At, MoveTo
  <2>4. ChargesFollow(c)
    BY <1>4, ScopesDistinct
    DEF IInv, VarTypes, PeerSet, DoneLast, At, MoveTo, ChargesFollow, Charged, ChargedTo, Refers, B2N, Scopes, Release
  <2>5. PaysIn(c)
    BY <1>4, ScopesDistinct
    DEF IInv, VarTypes, PeerSet, DoneLast, At, MoveTo, PaysIn, Waits, InWindow, Races, B2N, Scopes, Total, Dirs, Release
  <2> QED  BY <2>1, <2>2, <2>3, <2>4, <2>5, MoveStep
<1> QED  BY <1>1, <1>2, <1>3, <1>4

-----------------------------------------------------------------------------
LEMMA InitIInv == InitConns => IInv
<1> SUFFICES ASSUME InitConns PROVE IInv
  OBVIOUS
<1>0. NoUsage \in [Dirs -> Int] /\ NoUsage["in"] = 0 /\ NoUsage["out"] = 0
  BY DEF NoUsage, Dirs
<1>1. VarTypes /\ PeerSet
  <2>1. cnt \in [Scopes -> [Dirs -> Int]]
    BY <1>0 DEF InitConns
  <2>2. refCnt \in [Peers -> Int]
    BY DEF InitConns
  <2>3. closed \in BOOLEAN
    BY DEF InitConns
  <2>4. stage \in [Conns -> PC] /\ peer \in [Conns -> Peers \cup {NoPeer}] /\ PeerSet
    BY DEF InitConns, PeerSet, PC
  <2> QED  BY <2>1, <2>2, <2>3, <2>4 DEF InitConns, VarTypes
<1>2. Cardinality({}) = 0
  BY FS_EmptySet
<1>3. Racing = {} /\ \A p \in Peers : Referrers(p) = {}
  BY DEF InitConns, Racing, Referrers
<1>4. \A s \in Scopes, d \in Dirs :
        Holders(s, d) = {} /\ Window(s) = {} /\ WindowOf(s, d) = {}
  BY DEF InitConns, Holders, ChargedTo, Window, WindowOf, InWindow
<1>5. Accounting
  BY <1>2, <1>3, <1>4 DEF InitConns, Accounting, NoUsage
<1>6. Slack
  <2>1. \A s \in Scopes : Total(cnt[s]) = 0 /\ \A d \in Dirs : cnt[s][d] = 0
    BY <1>0 DEF InitConns, Total, Dirs
  <2>2. \A s \in Scopes : /\ Cardinality(Window(s)) = 0
                          /\ \A d \in Dirs : Cardinality(WindowOf(s, d)) = 0
    BY <1>2, <1>4 DEF Dirs
  <2> QED  BY <2>1, <2>2, LimitsNat, RacingType DEF Slack
<1> QED  BY <1>1, <1>2, <1>3, <1>5, <1>6, RacingType DEF IInv

LEMMA CloseStep ==
  ASSUME IInv, UNCHANGED <<stage, dir, peer, cnt, refCnt>>, closed' \in BOOLEAN
  PROVE  IInv'
<1>1. VarTypes' /\ PeerSet' /\ Racing' = Racing
  BY DEF IInv, VarTypes, PeerSet, Racing
<1>2. \A s, d : Holders(s, d)' = Holders(s, d) /\ WindowOf(s, d)' = WindowOf(s, d)
  BY DEF Holders, ChargedTo, WindowOf, InWindow
<1>3. \A s : Referrers(s)' = Referrers(s) /\ Window(s)' = Window(s)
  BY DEF Referrers, Window, InWindow
<1>4. Accounting'
  BY <1>2, <1>3 DEF IInv, Accounting
<1>5. Slack'
  BY <1>2, <1>3 DEF IInv, Slack
<1> QED  BY <1>1, <1>4, <1>5 DEF IInv

LEMMA NextIInv == IInv /\ [ConnNext]_cvars => IInv'
<1> SUFFICES ASSUME IInv, [ConnNext]_cvars PROVE IInv'
  OBVIOUS
<1>1. CASE \E c \in Conns : Upgrade(c) \/ Finish(c) \/ \E d \in Dirs : Again(c, d)
  <2> PICK c \in Conns : Upgrade(c) \/ Finish(c) \/ \E d \in Dirs : Again(c, d)
    BY <1>1
  <2> QED  BY QuietStep, ReferenceStep, EntryStep, AdditionStep, ReleaseStep DEF Upgrade, Finish
<1>2. CASE Close
  BY <1>2, CloseStep DEF Close
<1>3. CASE UNCHANGED cvars
  BY <1>3, CloseStep DEF cvars, IInv, VarTypes
<1> QED  BY <1>1, <1>2, <1>3 DEF ConnNext

(* Type correctness and the inductive invariant of the connection scopes.  *)
THEOREM InductiveInvariant == ConnSpec => []IInv
<1>1. InitConns => IInv
  BY InitIInv
<1>2. IInv /\ [ConnNext]_cvars => IInv'
  BY NextIInv
<1> QED  BY <1>1, <1>2, PTL DEF ConnSpec

(* No counter of a scope and no reference count ever goes below zero.      *)
THEOREM TypeCorrect == ConnSpec => []TypeOK
<1>1. IInv => TypeOK
  <2> SUFFICES ASSUME IInv PROVE TypeOK
    OBVIOUS
  <2>1. \A S \in SUBSET Conns : Cardinality(S) \in Nat
    BY ConnsFinite, FS_Subset, FS_CardinalityType
  <2>2. \A s \in Scopes, d \in Dirs : cnt[s][d] \in Nat
    BY <2>1 DEF IInv, Accounting, Holders
  <2>3. \A p \in Peers : refCnt[p] \in Nat
    BY <2>1 DEF IInv, Accounting, Referrers
  <2>4. \A s \in Scopes : cnt[s] \in [Dirs -> Nat]
    BY <2>2 DEF IInv, VarTypes
  <2> QED  BY <2>3, <2>4 DEF IInv, VarTypes, TypeOK
<1> QED  BY <1>1, InductiveInvariant, PTL

(* Every counter of OpenConnection, SetPeer and Done equals the number of  *)
(* connections charged to the scope.                                       *)
THEOREM AccountingHolds == ConnSpec => []Accounting
<1>1. IInv => Accounting
  BY DEF IInv
<1> QED  BY <1>1, InductiveInvariant, PTL

(* When no connection is open or being opened nothing is charged.          *)
THEOREM NothingLeaksHolds == ConnSpec => []NothingLeaks
<1>1. IInv => NothingLeaks
  <2> SUFFICES ASSUME IInv, \A c \in Conns : stage[c] \in {"idle", "gone"}
               PROVE  /\ cnt = [s \in Scopes |-> NoUsage]
                      /\ refCnt = [p \in Peers |-> 0]
    BY DEF NothingLeaks
  <2>1. \A s \in Scopes, d \in Dirs : Holders(s, d) = {}
    BY DEF Holders, ChargedTo
  <2>2. \A p \in Peers : Referrers(p) = {}
    BY DEF Referrers
  <2>3. \A s \in Scopes, d \in Dirs : cnt[s][d] = 0
    BY <2>1, FS_EmptySet DEF IInv, Accounting
  <2>4. \A p \in Peers : refCnt[p] = 0
    BY <2>2, FS_EmptySet DEF IInv, Accounting
  <2>5. \A s \in Scopes : cnt[s] = NoUsage
    BY <2>3 DEF IInv, VarTypes, NoUsage
  <2> QED  BY <2>4, <2>5 DEF IInv, VarTypes
<1> QED  BY <1>1, InductiveInvariant, PTL

(* A scope exceeds its limit by no more than the reservations that raced.  *)
THEOREM BoundedOvershootHolds == ConnSpec => []BoundedOvershoot
<1>1. IInv => BoundedOvershoot
  <2> SUFFICES ASSUME IInv, NEW s \in Scopes
               PROVE  /\ Limit[s].total > 0 => Total(cnt[s]) <= Limit[s].total + MaxRacing - 1
                      /\ \A d \in Dirs : Limit[s][d] > 0 => cnt[s][d] <= Limit[s][d] + MaxRacing - 1
    BY DEF BoundedOvershoot
  <2>1. Total(cnt[s]) \in Int /\ \A d \in Dirs : cnt[s][d] \in Int
    BY TotalsInt DEF IInv
  <2>2. /\ Cardinality(Window(s)) \in Nat
        /\ \A d \in Dirs : Cardinality(WindowOf(s, d)) \in Nat
    <3>1. Window(s) \in SUBSET Conns /\ \A d \in Dirs : WindowOf(s, d) \in SUBSET Conns
      BY DEF Window, WindowOf
    <3> QED  BY <3>1, ConnsFinite, FS_Subset, FS_CardinalityType
  <2> QED  BY <2>1, <2>2, LimitsNat, RacingType DEF IInv, Slack
<1> QED  BY <1>1, InductiveInvariant, PTL

(* A peer scope with no reference left carries no charge.                  *)
THEOREM RefCoversChargesHolds == ConnSpec => []RefCoversCharges
<1>1. IInv => RefCoversCharges
  <2> SUFFICES ASSUME IInv, NEW p \in Peers PROVE Total(cnt[p]) <= refCnt[p]
    BY DEF RefCoversCharges
  <2> DEFINE A == Holders(p, "in")
             B == Holders(p, "out")
  <2>1. A \cap B = {} /\ A \cup B \in SUBSET Referrers(p) /\ Referrers(p) \in SUBSET Conns
    BY ScopesDistinct DEF Holders, Referrers, ChargedTo
  <2>2. IsFiniteSet(A) /\ IsFiniteSet(B) /\ IsFiniteSet(Referrers(p))
    <3>1. A \in SUBSET Conns /\ B \in SUBSET Conns
      BY DEF Holders
    <3> QED  BY <2>1, <3>1, ConnsFinite, FS_Subset
  <2>3. cnt[p]["in"] = Cardinality(A) /\ cnt[p]["out"] = Cardinality(B)
        /\ refCnt[p] = Cardinality(Referrers(p))
    BY DEF IInv, Accounting, Scopes, Dirs
  <2> HIDE DEF A, B
  <2>4. Cardinality(A \cup B) = Cardinality(A) + Cardinality(B) - Cardinality(A \cap B)
    BY <2>2, FS_Union
  <2>5. Cardinality(A \cap B) = 0
    BY <2>1, FS_EmptySet
  <2>6. Cardinality(A \cup B) <= Cardinality(Referrers(p))
    BY <2>1, <2>2, FS_Subset
  <2>7. Cardinality(A) \in Nat /\ Cardinality(B) \in Nat
    BY <2>2, FS_CardinalityType
  <2> QED  BY <2>3, <2>4, <2>5, <2>6, <2>7 DEF Total
<1> QED  BY <1>1, InductiveInvariant, PTL
=============================================================================
