---------------------- MODULE WorkerGroupBarrierProofs ----------------------
(***************************************************************************)
(* The exit barrier of the agents (BarrierHolds).  The inductive invariant *)
(* is BarrierInv: the counter of a round is at least the number of members *)
(* that were counted in, all of them are of that round's world, and the    *)
(* last key is set, or about to be set, only when the counter has reached  *)
(* the size of the world.                                                  *)
(***************************************************************************)
EXTENDS WorkerGroupProofs

LastKey(k) == kv[<<k, "last">>]

LEMMA ArrivedFinite ==
  ASSUME NEW k
  PROVE  IsFiniteSet(Arrived(k)) /\ Cardinality(Arrived(k)) \in Nat
<1>1. IsFiniteSet(Ranks) /\ Arrived(k) \subseteq Ranks
  BY RanksAssumption DEF Arrived
<1>2. QED
  BY <1>1, FS_Subset, FS_CardinalityType

LEMMA WorldFinite ==
  ASSUME NEW W \in SUBSET Ranks
  PROVE  IsFiniteSet(W) /\ Cardinality(W) \in Nat
BY RanksAssumption, FS_Subset, FS_CardinalityType

LEMMA GotoAt ==
  ASSUME StoreShape, NEW r \in Ranks, NEW label, Goto(r, label)
  PROVE  group'[r].at = label /\ \A s \in Ranks : s # r => group'[s] = group[s]
<1>1. /\ \A s \in Ranks : s # r => group'[s] = group[s]
      /\ group'[r] = [at |-> label, order |-> group[r].order,
                      addr |-> group[r].addr, port |-> group[r].port]
  BY GotoFacts
<1>2. QED
  BY <1>1

\* A step that leaves the counters alone, and brings no agent to the end of
\* the barrier while the last key is missing.
LEMMA BarrierFrame ==
  ASSUME TypeInv, BarrierInv, UNCHANGED <<round, rdzv, reached>>,
         \A k \in 0 .. MaxRound :
           kv'[<<k, "members">>] = kv[<<k, "members">>] /\ LastKey(k)' = LastKey(k),
         \A s \in Ranks : pc'[s] = "run" =>
           /\ pc[s] = "run" /\ wround'[s] = wround[s] /\ world'[s] = world[s]
           /\ group'[s].at \in {"last", "passed"} =>
                group[s].at \in {"last", "passed"} \/ LastKey(wround[s]) # Empty
  PROVE  BarrierInv'
<1>1. \A k \in 0 .. MaxRound : Members(k)' = Members(k) /\ Arrived(k)' = Arrived(k)
  BY DEF Members, Arrived
<1>2. round \in 0 .. MaxRound /\ \A s \in Ranks : wround[s] \in 0 .. MaxRound
  BY DEF TypeInv, TypeOK
<1>3. Members(round)' = Members(round) /\ Arrived(round)' = Arrived(round)
      /\ kv'[<<round, "last">>] = kv[<<round, "last">>]
  BY <1>2 DEF Members, Arrived, LastKey
<1>4. ASSUME NEW s \in Ranks, pc'[s] = "run"
      PROVE  (/\ Arrived(wround[s]) \subseteq world[s]
              /\ \/ kv[<<wround[s], "last">>] # Empty
                 \/ group[s].at \in {"last", "passed"}
                 => Members(wround[s]) >= Cardinality(world[s]))'
  <2>1. /\ pc[s] = "run" /\ wround'[s] = wround[s] /\ world'[s] = world[s]
        /\ group'[s].at \in {"last", "passed"} =>
             group[s].at \in {"last", "passed"} \/ kv[<<wround[s], "last">>] # Empty
    BY <1>4 DEF LastKey
  <2>2. /\ Members(wround[s])' = Members(wround[s])
        /\ Arrived(wround[s])' = Arrived(wround[s])
        /\ kv'[<<wround[s], "last">>] = kv[<<wround[s], "last">>]
    BY <1>2, <2>1 DEF Members, Arrived, LastKey
  <2>3. /\ Arrived(wround[s]) \subseteq world[s]
        /\ \/ kv[<<wround[s], "last">>] # Empty
           \/ group[s].at \in {"last", "passed"}
           => Members(wround[s]) >= Cardinality(world[s])
    BY <2>1 DEF BarrierInv
  <2>4. QED
    BY <2>1, <2>2, <2>3
<1>5. QED
  BY <1>1, <1>2, <1>3, <1>4 DEF BarrierInv, LastKey

LEMMA BarrierInvRdzv ==
  ASSUME TypeInv, SafetyInv, BarrierInv, RendezvousStep
  PROVE  BarrierInv'
<1>1. Next /\ GroupFollows /\ UNCHANGED <<kv, reached>>
  BY RendezvousStepIsNext DEF RendezvousStep
<1>2. /\ \A r \in Ranks : pc'[r] = "run" /\ pc[r] = "run" =>
           UNCHANGED <<wround[r], world[r], inc[r]>>
      /\ \A r \in Ranks : pc'[r] = "run" /\ pc[r] # "run" =>
           /\ pc[r] = "poll" /\ r \in rdzv'
           /\ wround'[r] = round' /\ world'[r] = rdzv'
      /\ \/ round' = round + 1 /\ rdzv = {} /\ rdzv' # {}
         \/ round' = round /\ rdzv' = rdzv
         \/ round' = round /\ rdzv' = {}
  BY <1>1, RendezvousFacts
<1>3. \A k : UNCHANGED <<Members(k), Arrived(k)>>
  BY <1>1 DEF Members, Arrived
<1>4. round \in 0 .. MaxRound /\ round' \in 0 .. MaxRound /\ rdzv' \in SUBSET Ranks
  BY <1>1, TypeInvNext DEF TypeInv, TypeOK
<1>5. ASSUME rdzv' # {}
      PROVE  /\ Arrived(round') \subseteq rdzv'
             /\ kv[<<round', "last">>] # Empty =>
                  Members(round') >= Cardinality(rdzv')
  <2>1. CASE round' = round + 1
    <3>1. Arrived(round') = {} /\ kv[<<round', "last">>] = Empty
      BY <1>4, <2>1 DEF BarrierInv
    <3>2. QED
      BY <3>1
  <2>2. CASE round' = round /\ rdzv' = rdzv
    BY <1>5, <2>2 DEF BarrierInv
  <2>3. QED
    BY <1>2, <1>5, <2>1, <2>2
<1>6. ASSUME NEW r \in Ranks, pc'[r] = "run"
      PROVE  /\ Arrived(wround'[r]) \subseteq world'[r]
             /\ \/ kv[<<wround'[r], "last">>] # Empty
                \/ group'[r].at \in {"last", "passed"}
                => Members(wround'[r]) >= Cardinality(world'[r])
  <2>1. CASE pc[r] = "run"
    <3>1. group'[r] = group[r]
      BY <1>1, <1>6, <2>1, GroupFollowsFacts
    <3>2. QED
      BY <1>2, <1>6, <2>1, <3>1 DEF BarrierInv
  <2>2. CASE pc[r] # "run"
    <3>1. group'[r].at \in {"setaddr", "getaddr"}
      BY <1>1, <1>6, <2>2, GroupFollowsFacts
    <3>2. QED
      BY <1>2, <1>5, <1>6, <2>2, <3>1
  <2>3. QED
    BY <2>1, <2>2
<1>7. \A k \in 0 .. MaxRound : Members(k) >= Cardinality(Arrived(k))
  BY DEF BarrierInv
<1>8. \A k \in 0 .. MaxRound : k > round' =>
        Arrived(k) = {} /\ kv[<<k, "last">>] = Empty
  BY <1>2, <1>4 DEF BarrierInv
<1>9. QED
  BY <1>1, <1>5, <1>6, <1>7, <1>8 DEF BarrierInv, Members, Arrived

\* An agent is counted in.
LEMMA BarrierInvAdd ==
  ASSUME TypeInv, SafetyInv, StoreShape, BarrierInv, NEW r \in Ranks, BarrierAdd(r)
  PROVE  BarrierInv'
<1> DEFINE w == wround[r]
<1>1. /\ pc[r] = "run" /\ w \in 0 .. MaxRound /\ round \in 0 .. MaxRound
      /\ UNCHANGED <<pc, wround, world, round, rdzv>>
      /\ KvSet(r, "members", kv[StoreKey(r, "members")] + 1)
      /\ reached' = reached \cup {<<w, r>>}
      /\ \/ UNCHANGED group
         \/ Goto(r, "wait")
         \/ kv'[<<w, "members">>] = Cardinality(world[r]) /\ Goto(r, "last")
  BY DEF BarrierAdd, At, vars, masterVars, agentVars, KvSet, StoreKey,
         BarrierSize, TypeInv, TypeOK
<1>2. /\ kv'[<<w, "members">>] = kv[<<w, "members">>] + 1
      /\ \A k \in 0 .. MaxRound, n \in Names :
           k # w \/ n # "members" => kv'[<<k, n>>] = kv[<<k, n>>]
  <2>1. "members" \in Names
    BY DEF Names
  <2>2. QED
    BY <1>1, <2>1, KvUpdate DEF StoreKey
<1>3. \A k \in 0 .. MaxRound : kv[<<k, "members">>] \in Nat
  BY DEF StoreShape, Members
<1>4. \A k \in 0 .. MaxRound :
        /\ kv'[<<k, "last">>] = kv[<<k, "last">>]
        /\ kv'[<<k, "members">>] >= kv[<<k, "members">>]
        /\ kv'[<<k, "members">>] \in Nat
        /\ k # w => kv'[<<k, "members">>] = kv[<<k, "members">>]
  <2>1. "last" \in Names /\ "members" \in Names
    BY DEF Names
  <2>2. \A k \in 0 .. MaxRound :
          /\ kv'[<<k, "last">>] = kv[<<k, "last">>]
          /\ k # w => kv'[<<k, "members">>] = kv[<<k, "members">>]
    BY <1>2, <2>1
  <2> HIDE DEF w
  <2>3. ASSUME NEW k \in 0 .. MaxRound
        PROVE  kv'[<<k, "members">>] >= kv[<<k, "members">>] /\ kv'[<<k, "members">>] \in Nat
    <3>1. kv[<<k, "members">>] \in Nat
      BY <1>3
    <3>2. kv'[<<k, "members">>] \in {kv[<<k, "members">>], kv[<<k, "members">>] + 1}
      BY <1>2, <2>2
    <3>3. QED
      BY <3>1, <3>2
  <2>4. QED
    BY <2>2, <2>3
<1>5. ASSUME NEW k \in 0 .. MaxRound
      PROVE  Arrived(k)' = IF k = w THEN Arrived(k) \cup {r} ELSE Arrived(k)
  BY <1>1 DEF Arrived
<1>6. w <= round /\ r \in world[r] /\ (w = round /\ rdzv # {} => world[r] = rdzv)
  BY <1>1 DEF SafetyInv, WorldsCurrent
<1>7. \A s \in Ranks : pc[s] = "run" /\ wround[s] = w => r \in world[s]
  BY <1>1 DEF SafetyInv, WorldAgreement
<1>8. \A k \in 0 .. MaxRound : (Members(k) >= Cardinality(Arrived(k)))'
  <2> SUFFICES ASSUME NEW k \in 0 .. MaxRound
               PROVE  kv'[<<k, "members">>] >= Cardinality(Arrived(k)')
    BY DEF Members
  <2>1. kv[<<k, "members">>] >= Cardinality(Arrived(k))
    BY DEF BarrierInv, Members
  <2>2. CASE k # w
    BY <1>4, <1>5, <2>1, <2>2
  <2>3. CASE k = w
    <3> DEFINE A == Arrived(k)
    <3>1. IsFiniteSet(A) /\ Cardinality(A) \in Nat
      BY ArrivedFinite
    <3>2. Arrived(k)' = A \cup {r}
      BY <1>5, <2>3
    <3>3. Cardinality(A \cup {r}) \in {Cardinality(A), Cardinality(A) + 1}
      <4> HIDE DEF A
      <4>1. QED
        BY <3>1, FS_AddElement
    <3>4. kv'[<<k, "members">>] = kv[<<k, "members">>] + 1 /\ kv[<<k, "members">>] \in Nat
      BY <1>2, <1>3, <2>3
    <3>5. QED
      BY <2>1, <3>1, <3>2, <3>3, <3>4
  <2>4. QED
    BY <2>2, <2>3
<1>9. ASSUME NEW k \in 0 .. MaxRound, k > round
      PROVE  (Arrived(k) = {} /\ kv[<<k, "last">>] = Empty)'
  <2>1. k # w
    BY <1>1, <1>6, <1>9
  <2>2. QED
    BY <1>4, <1>5, <1>9, <2>1 DEF BarrierInv
<1>10. ASSUME rdzv # {}
       PROVE  /\ Arrived(round)' \subseteq rdzv
              /\ kv'[<<round, "last">>] # Empty =>
                   kv'[<<round, "members">>] >= Cardinality(rdzv)
  <2>1. /\ Arrived(round) \subseteq rdzv
        /\ kv[<<round, "last">>] # Empty =>
             kv[<<round, "members">>] >= Cardinality(rdzv)
    BY <1>10 DEF BarrierInv, Members
  <2>2. Cardinality(rdzv) \in Nat
    BY WorldFinite DEF TypeInv, TypeOK
  <2>3. Arrived(round)' \subseteq Arrived(round) \cup (IF w = round THEN {r} ELSE {})
    BY <1>1 DEF Arrived
  <2>4. Arrived(round)' \subseteq rdzv
    BY <1>6, <1>10, <2>1, <2>3
  <2>5. QED
    BY <1>1, <1>3, <1>4, <2>1, <2>2, <2>4
<1>11. ASSUME NEW s \in Ranks, pc[s] = "run"
       PROVE  /\ Arrived(wround[s])' \subseteq world[s]
              /\ \/ kv'[<<wround[s], "last">>] # Empty
                 \/ group'[s].at \in {"last", "passed"}
                 => kv'[<<wround[s], "members">>] >= Cardinality(world[s])
  <2>1. /\ Arrived(wround[s]) \subseteq world[s]
        /\ \/ kv[<<wround[s], "last">>] # Empty
           \/ group[s].at \in {"last", "passed"}
           => kv[<<wround[s], "members">>] >= Cardinality(world[s])
    BY <1>11 DEF BarrierInv, Members
  <2>2. wround[s] \in 0 .. MaxRound /\ Cardinality(world[s]) \in Nat
    BY WorldFinite DEF TypeInv, TypeOK
  <2>3. Arrived(wround[s])' \subseteq
          Arrived(wround[s]) \cup (IF w = wround[s] THEN {r} ELSE {})
    BY <1>1 DEF Arrived
  <2>4. Arrived(wround[s])' \subseteq world[s]
    BY <1>7, <1>11, <2>1, <2>3
  <2>5. \/ group'[s].at = group[s].at
        \/ s = r /\ group'[s].at = "wait"
        \/ s = r /\ kv'[<<w, "members">>] = Cardinality(world[r])
    <3>1. CASE UNCHANGED group
      BY <3>1
    <3>2. CASE Goto(r, "wait")
      BY <3>2, GotoAt
    <3>3. CASE kv'[<<w, "members">>] = Cardinality(world[r]) /\ Goto(r, "last")
      BY <3>3, GotoAt
    <3>4. QED
      BY <1>1, <3>1, <3>2, <3>3
  <2>6. kv'[<<wround[s], "last">>] # Empty \/ group[s].at \in {"last", "passed"}
          => kv'[<<wround[s], "members">>] >= Cardinality(world[s])
    BY <1>3, <1>4, <2>1, <2>2
  <2>7. QED
    BY <2>2, <2>4, <2>5, <2>6
<1>12. QED
  BY <1>1, <1>8, <1>9, <1>10, <1>11 DEF BarrierInv, Members, Arrived

\* Who counted the last member in tells the others.
LEMMA BarrierInvLast ==
  ASSUME TypeInv, SafetyInv, StoreShape, BarrierInv, NEW r \in Ranks, BarrierLast(r)
  PROVE  BarrierInv'
<1> DEFINE w == wround[r]
<1>1. /\ pc[r] = "run" /\ group[r].at = "last"
      /\ w \in 0 .. MaxRound /\ round \in 0 .. MaxRound
      /\ UNCHANGED <<pc, wround, world, round, rdzv, reached>>
      /\ KvSet(r, "last", <<"val_ignored">>) /\ Goto(r, "wait")
  BY DEF BarrierLast, At, vars, masterVars, agentVars, TypeInv, TypeOK
<1>2. \A k \in 0 .. MaxRound, n \in Names :
        k # w \/ n # "last" => kv'[<<k, n>>] = kv[<<k, n>>]
  <2>1. "last" \in Names
    BY DEF Names
  <2>2. QED
    BY <1>1, <2>1, KvUpdate
<1>3. \A k \in 0 .. MaxRound :
        /\ kv'[<<k, "members">>] = kv[<<k, "members">>]
        /\ k # w => kv'[<<k, "last">>] = kv[<<k, "last">>]
  BY <1>2 DEF Names
<1>4. \A k : Arrived(k)' = Arrived(k)
  BY <1>1 DEF Arrived
<1>5. w <= round /\ (w = round /\ rdzv # {} => world[r] = rdzv)
  BY <1>1 DEF SafetyInv, WorldsCurrent
<1>6. \A s \in Ranks : pc[s] = "run" /\ wround[s] = w => world[s] = world[r]
  BY <1>1 DEF SafetyInv, WorldAgreement
<1>7. kv[<<w, "members">>] >= Cardinality(world[r])
  BY <1>1 DEF BarrierInv, Members
<1>8. ASSUME NEW k \in 0 .. MaxRound, k > round
      PROVE  Arrived(k) = {} /\ kv'[<<k, "last">>] = Empty
  <2>1. k # w
    BY <1>1, <1>5, <1>8
  <2>2. QED
    BY <1>3, <1>8, <2>1 DEF BarrierInv
<1>9. ASSUME rdzv # {}
      PROVE  /\ Arrived(round) \subseteq rdzv
             /\ kv'[<<round, "last">>] # Empty =>
                  kv[<<round, "members">>] >= Cardinality(rdzv)
  BY <1>1, <1>3, <1>5, <1>7, <1>9 DEF BarrierInv, Members
<1>10. ASSUME NEW s \in Ranks, pc[s] = "run"
       PROVE  /\ Arrived(wround[s]) \subseteq world[s]
              /\ \/ kv'[<<wround[s], "last">>] # Empty
                 \/ group'[s].at \in {"last", "passed"}
                 => kv[<<wround[s], "members">>] >= Cardinality(world[s])
  <2>1. wround[s] \in 0 .. MaxRound
    BY DEF TypeInv, TypeOK
  <2>2. s # r => group'[s] = group[s]
    BY <1>1, GotoAt
  <2>3. CASE wround[s] = w
    BY <1>6, <1>7, <1>10, <2>3 DEF BarrierInv
  <2>4. CASE wround[s] # w
    BY <1>3, <1>10, <2>1, <2>2, <2>4 DEF BarrierInv, Members
  <2>5. QED
    BY <2>3, <2>4
<1>11. \A s \in Ranks : wround[s] \in 0 .. MaxRound
  BY DEF TypeInv, TypeOK
<1>12. QED
  BY <1>1, <1>3, <1>4, <1>8, <1>9, <1>10, <1>11 DEF BarrierInv, Members, Arrived

LEMMA BarrierInvNext ==
  TypeInv /\ SafetyInv /\ StoreInv /\ BarrierInv /\ [WgNext]_wgVars => BarrierInv'
<1> SUFFICES ASSUME TypeInv, SafetyInv, StoreInv, BarrierInv, [WgNext]_wgVars
             PROVE  BarrierInv'
  OBVIOUS
<1>1. StoreShape
  BY DEF StoreInv
<1>2. CASE RendezvousStep
  BY <1>2, BarrierInvRdzv
<1>3. ASSUME NEW r \in Ranks, BarrierAdd(r) \/ BarrierLast(r) PROVE BarrierInv'
  BY <1>1, <1>3, BarrierInvAdd, BarrierInvLast
<1>4. ASSUME NEW r \in Ranks, SetMasterAddr(r) \/ SetMasterPort(r)
      PROVE  BarrierInv'
  <2>1. PICK name \in {"MASTER_ADDR", "MASTER_PORT"}, value \in {<<r, inc[r]>>, <<r, inc[r], wround[r]>>} :
          KvSet(r, name, value)
    BY <1>4 DEF SetMasterAddr, SetMasterPort
  <2>2. /\ UNCHANGED <<pc, wround, world, round, rdzv, reached>>
        /\ Goto(r, "setport") \/ Goto(r, "getaddr")
    BY <1>4 DEF SetMasterAddr, SetMasterPort, vars, masterVars, agentVars
  <2>3. \A s \in Ranks : group'[s] = group[s] \/ group'[s].at \in {"setport", "getaddr"}
    <3>1. CASE Goto(r, "setport")
      BY <1>1, <3>1, GotoAt
    <3>2. CASE Goto(r, "getaddr")
      BY <1>1, <3>2, GotoAt
    <3>3. QED
      BY <2>2, <3>1, <3>2
  <2>4. \A k \in 0 .. MaxRound :
          kv'[<<k, "members">>] = kv[<<k, "members">>] /\ LastKey(k)' = LastKey(k)
    <3>1. name \in Names /\ "members" \in Names /\ "last" \in Names
      BY DEF Names
    <3>2. \A k \in 0 .. MaxRound, n \in Names :
            k # wround[r] \/ n # name => kv'[<<k, n>>] = kv[<<k, n>>]
      BY <1>1, <2>1, <3>1, KvUpdate
    <3>3. name # "members" /\ name # "last"
      OBVIOUS
    <3>4. QED
      BY <3>1, <3>2, <3>3 DEF LastKey
  <2>5. QED
    BY <2>2, <2>3, <2>4, BarrierFrame
<1>5. ASSUME NEW r \in Ranks, GetMasterAddr(r) \/ GetMasterPort(r)
      PROVE  BarrierInv'
  <2>1. UNCHANGED <<pc, wround, world, round, rdzv, kv, reached>>
    BY <1>5 DEF GetMasterAddr, GetMasterPort, vars, masterVars, agentVars
  <2>2. \A s \in Ranks : group'[s] = group[s] \/ group'[s].at \in {"getport", "train"}
    BY <1>1, <1>5, GetFacts
  <2>3. QED
    BY <2>1, <2>2, BarrierFrame DEF LastKey
<1>6. ASSUME NEW r \in Ranks, WorkersSucceed(r) \/ BarrierTimeout(r)
      PROVE  BarrierInv'
  <2>1. /\ UNCHANGED <<pc, wround, world, round, rdzv, kv, reached>>
        /\ Goto(r, "barrier") \/ Goto(r, "late")
    BY <1>6 DEF WorkersSucceed, BarrierTimeout, vars, masterVars, agentVars
  <2>2. \A s \in Ranks : group'[s] = group[s] \/ group'[s].at \in {"barrier", "late"}
    <3>1. CASE Goto(r, "barrier")
      BY <1>1, <3>1, GotoAt
    <3>2. CASE Goto(r, "late")
      BY <1>1, <3>2, GotoAt
    <3>3. QED
      BY <2>1, <3>1, <3>2
  <2>3. QED
    BY <2>1, <2>2, BarrierFrame DEF LastKey
<1>7. ASSUME NEW r \in Ranks, BarrierPass(r) PROVE BarrierInv'
  <2>1. /\ UNCHANGED <<pc, wround, world, round, rdzv, kv, reached>>
        /\ Goto(r, "passed") /\ LastKey(wround[r]) # Empty
    BY <1>7 DEF BarrierPass, KvHas, StoreKey, LastKey, vars, masterVars, agentVars
  <2>2. \A s \in Ranks : group'[s] = group[s] \/ s = r
    BY <1>1, <2>1, GotoAt
  <2>3. QED
    BY <2>1, <2>2, BarrierFrame DEF LastKey
<1>8. ASSUME NEW r \in Ranks, StoreTimeout(r) \/ AgentSucceeds(r)
      PROVE  BarrierInv'
  <2>1. /\ UNCHANGED <<round, rdzv, kv, reached>>
        /\ ExitPod(r) \/ RestartWorkers(r)
    BY <1>8 DEF StoreTimeout, AgentSucceeds, masterVars
  <2>2. \A s \in Ranks : pc'[s] = "run" =>
          /\ s # r /\ pc[s] = "run"
          /\ wround'[s] = wround[s] /\ world'[s] = world[s]
    BY <2>1 DEF ExitPod, RestartWorkers, TypeInv, TypeOK
  <2>3. \A s \in Ranks : s # r => group'[s] = group[s]
    BY <1>1, <1>8 DEF StoreTimeout, AgentSucceeds, StoreShape
  <2>4. QED
    BY <2>1, <2>2, <2>3, BarrierFrame DEF LastKey
<1>9. CASE UNCHANGED wgVars
  <2>1. UNCHANGED <<pc, wround, world, round, rdzv, group, kv, reached>>
    BY <1>9 DEF wgVars, vars, groupVars, masterVars, agentVars
  <2>2. QED
    BY <2>1, BarrierFrame DEF LastKey
<1>10. QED
  BY <1>2, <1>3, <1>4, <1>5, <1>6, <1>7, <1>8, <1>9 DEF WgNext, GroupStep

LEMMA BarrierInvHolds ==
  TypeInv /\ StoreShape /\ BarrierInv => BarrierHolds
<1> SUFFICES ASSUME TypeInv, StoreShape, BarrierInv,
                    NEW r \in Ranks, pc[r] = "run", group[r].at = "passed"
             PROVE  \/ world[r] \subseteq Arrived(wround[r])
                    \/ Members(wround[r]) > Cardinality(Arrived(wround[r]))
  BY DEF BarrierHolds, At, Arrived, Members, StoreKey
<1>1. wround[r] \in 0 .. MaxRound /\ world[r] \in SUBSET Ranks
  BY DEF TypeInv, TypeOK
<1>2. /\ Arrived(wround[r]) \subseteq world[r]
      /\ Members(wround[r]) >= Cardinality(world[r])
      /\ Members(wround[r]) >= Cardinality(Arrived(wround[r]))
      /\ Members(wround[r]) \in Nat
  BY <1>1 DEF BarrierInv, StoreShape
<1>3. /\ IsFiniteSet(world[r]) /\ Cardinality(world[r]) \in Nat
      /\ Cardinality(Arrived(wround[r])) \in Nat
  BY <1>1, WorldFinite, ArrivedFinite
<1>4. /\ Cardinality(Arrived(wround[r])) <= Cardinality(world[r])
      /\ Cardinality(Arrived(wround[r])) = Cardinality(world[r]) =>
           Arrived(wround[r]) = world[r]
  BY <1>2, <1>3, FS_Subset
<1>5. QED
  BY <1>2, <1>3, <1>4

LEMMA BarrierInvInit == WgInit => BarrierInv
<1> SUFFICES ASSUME WgInit PROVE BarrierInv
  OBVIOUS
<1>1. \A k \in 0 .. MaxRound :
        Members(k) = 0 /\ Arrived(k) = {} /\ kv[<<k, "last">>] = Empty
  BY DEF WgInit, Members, Arrived, Keys
<1>2. rdzv = {} /\ \A r \in Ranks : pc[r] = "off"
  BY DEF WgInit, Init
<1>3. Cardinality({}) = 0
  BY FS_EmptySet
<1>4. \A k \in 0 .. MaxRound : Members(k) >= Cardinality(Arrived(k))
  <2> SUFFICES ASSUME NEW k \in 0 .. MaxRound
               PROVE  Members(k) >= Cardinality(Arrived(k))
    OBVIOUS
  <2>1. Members(k) = 0 /\ Cardinality(Arrived(k)) = 0
    BY <1>1, <1>3, Zenon
  <2>2. QED
    BY <2>1
<1>5. \A r \in Ranks : pc[r] # "run"
  BY <1>2
<1>6. QED
  BY <1>1, <1>2, <1>4, <1>5, Zenon DEF BarrierInv

\* An agent passes the exit barrier only when all members of its world have
\* arrived, unless an add was counted twice, for any number of nodes and any
\* crashes, restarts and lost replies.
THEOREM BarrierSound == WgSpec => []BarrierHolds
<1>1. WgInit => TypeInv /\ SafetyInv
  BY TypeInvInit, SafetyInvInit DEF WgInit
<1>2. StoreInv => StoreShape
  BY DEF StoreInv
<1>3. QED
  BY <1>1, <1>2, StoreInvInit, StoreInvNext, RdzvInvWgNext, BarrierInvInit,
     BarrierInvNext, BarrierInvHolds, PTL DEF WgSpec
=============================================================================
