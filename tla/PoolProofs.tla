----------------------------- MODULE PoolProofs ------------------------------
(***************************************************************************)
(* Theorems about PoolControl, for every number of workers, cap, cooldown, *)
(* backend and bound, and for every sequence of control calls.             *)
(*                                                                         *)
(* That settings stay coherent is inductive once it is said that the       *)
(* scale-down threshold never changes, and of the settings that calls have *)
(* yet to install as well.  That the cooldown is respected     *)
(* rests on a fact the code leaves implicit: the time since the last       *)
(* change of last_scale_clock never exceeds the time since the pool was    *)
(* last scaled.                                                            *)
(***************************************************************************)
EXTENDS PoolControl, SequenceTheorems, WellFoundedInduction, TLAPS

Record == [min : Nat, max : Nat, target : Nat, scaleDown : {Unit}]

(* A configuration fit to be installed, made for this backend.               *)
Fit(c, from) ==
    /\ c \in Record
    /\ Coherent(c)
    /\ from = "realmodel" => c.max <= RealModelMax

Settings ==
    /\ Fit(config, madeFor)
    /\ \A d \in drafts : Fit(d.config, d.from)

ClockBehindQuiet ==
    /\ since \in 0..Cooldown
    /\ quiet \in 0..Cooldown
    /\ scaled \in {"up", "down", "none"}
    /\ since <= IF scaled = "none" THEN quiet ELSE 0

IInv ==
    /\ Settings
    /\ workers \in Seq(0..MaxLoad)
    /\ ClockBehindQuiet

-------------------------------------------------------------------------------
(* One worker's worth of load is never above that of several.                *)
LEMMA UnitTimes ==
    ASSUME NEW k \in Nat \ {0}
    PROVE  /\ Unit * k \in Nat
           /\ Unit <= Unit * k
<1>1. Unit \in Nat /\ Unit >= 1 /\ k \in Nat /\ k >= 1
  BY UnitAssumption
<1>2. Unit * k = Unit + Unit * (k - 1)
  BY <1>1
<1>3. Unit * (k - 1) \in Nat
  BY <1>1
<1> QED
  BY <1>1, <1>2, <1>3

(* What /api/autoscaler makes of any positive minimum, maximum and target is  *)
(* a configuration the constructor accepts, within the cap of the backend.    *)
LEMMA ClampedIsFit ==
    ASSUME config \in Record,
           NEW mn \in Nat \ {0}, NEW mx \in Nat \ {0}, NEW target \in Nat
    PROVE  Fit(ClampedConfig(mn, mx, target), backend)
<1> DEFINE capped == AtMost(mx, MaxWorkersCap)
           most   == IF backend = "realmodel" THEN AtMost(capped, RealModelMax) ELSE capped
           c      == ClampedConfig(mn, mx, target)
<1>1. /\ most \in Nat \ {0} /\ most <= MaxWorkersCap
      /\ backend = "realmodel" => most <= RealModelMax
  BY PoolAssumption DEF AtMost
<1>2. Unit * most \in Nat /\ Unit <= Unit * most /\ Unit \in Nat \ {0}
  BY <1>1, UnitTimes, UnitAssumption
<1>3. config.scaleDown = Unit
  BY DEF Record
<1>4. c = [min |-> AtMost(mn, most), max |-> most,
           target |-> AtMost(AtLeast(target, Unit), Unit * most),
           scaleDown |-> Unit]
  BY <1>3 DEF ClampedConfig
<1> HIDE DEF most, c
<1>5. AtMost(mn, most) \in Nat /\ AtMost(mn, most) >= 1 /\ AtMost(mn, most) <= most
  BY <1>1 DEF AtMost
<1> DEFINE t == AtMost(AtLeast(target, Unit), Unit * most)
<1>6. t \in Nat /\ Unit <= t /\ t <= Unit * most
  BY <1>2 DEF AtMost, AtLeast
<1>7. c = [min |-> AtMost(mn, most), max |-> most, target |-> t, scaleDown |-> Unit]
  BY <1>4 DEF t
<1> HIDE DEF t
<1>8. c \in Record
  BY <1>1, <1>5, <1>6, <1>7 DEF Record
<1>9. Coherent(c)
  <2>1. /\ c.min >= 1 /\ c.min <= c.max
        /\ c.scaleDown <= c.target
        /\ c.max <= MaxWorkersCap
        /\ c.target <= Unit * c.max
    BY <1>1, <1>5, <1>6, <1>7
  <2> QED
    BY <2>1 DEF Coherent, ValidConfig
<1>10. backend = "realmodel" => c.max <= RealModelMax
  BY <1>1, <1>7
<1> QED
  BY <1>8, <1>9, <1>10 DEF Fit, c

(* Steps that leave the settings alone.                                       *)
LEMMA SettingsUnchanged ==
    ASSUME Settings, UNCHANGED settingVars
    PROVE  Settings'
  BY DEF Settings, settingVars

(* A pool starts, and starts again, with idle workers.                       *)
LEMMA FreshPoolType == FreshPool \in Seq(0..MaxLoad)
  BY PoolAssumption DEF FreshPool

(* What is left when one worker goes: one fewer, the others as they were.     *)
LEMMA RemoveAtType ==
    ASSUME NEW S, NEW ws \in Seq(S), NEW i \in DOMAIN ws
    PROVE  /\ RemoveAt(ws, i) \in Seq(S)
           /\ Len(RemoveAt(ws, i)) = Len(ws) - 1
<1>1. i \in 1..Len(ws) /\ Len(ws) \in Nat
  OBVIOUS
<1>2. \A j \in 1..Len(ws) : ws[j] \in S
  OBVIOUS
<1>3. SubSeq(ws, 1, i - 1) \in Seq(S) /\ Len(SubSeq(ws, 1, i - 1)) = i - 1
  <2>1. \A j \in 1..(i - 1) : ws[j] \in S
    BY <1>1, <1>2
  <2>2. 1 \in Int /\ i - 1 \in Int
    BY <1>1
  <2>3. /\ SubSeq(ws, 1, i - 1) \in Seq(S)
        /\ Len(SubSeq(ws, 1, i - 1)) = IF 1 <= i - 1 THEN (i - 1) - 1 + 1 ELSE 0
    BY <2>1, <2>2, SubSeqProperties
  <2> QED
    BY <1>1, <2>3
<1>4. /\ SubSeq(ws, i + 1, Len(ws)) \in Seq(S)
      /\ Len(SubSeq(ws, i + 1, Len(ws))) = Len(ws) - i
  <2>1. \A j \in (i + 1)..Len(ws) : ws[j] \in S
    BY <1>1, <1>2
  <2>2. i + 1 \in Int /\ Len(ws) \in Int
    BY <1>1
  <2>3. /\ SubSeq(ws, i + 1, Len(ws)) \in Seq(S)
        /\ Len(SubSeq(ws, i + 1, Len(ws))) =
             IF i + 1 <= Len(ws) THEN Len(ws) - (i + 1) + 1 ELSE 0
    BY <2>1, <2>2, SubSeqProperties, Zenon
  <2> QED
    BY <1>1, <2>3
<1> DEFINE s1 == SubSeq(ws, 1, i - 1)
           s2 == SubSeq(ws, i + 1, Len(ws))
<1>5. RemoveAt(ws, i) = s1 \o s2
  BY DEF RemoveAt
<1>6. s1 \o s2 \in Seq(S) /\ Len(s1 \o s2) = Len(s1) + Len(s2)
  BY <1>3, <1>4, ConcatProperties, Zenon
<1>7. Len(s1) = i - 1 /\ Len(s2) = Len(ws) - i
  BY <1>3, <1>4
<1> HIDE DEF s1, s2
<1> QED
  BY <1>1, <1>5, <1>6, <1>7

(* Whatever is served, each worker is still there with a load of its own.     *)
LEMMA ServedType ==
    ASSUME NEW S, NEW ws \in Seq(S), NEW served \in [DOMAIN ws -> S]
    PROVE  served \in Seq(S) /\ Len(served) = Len(ws) /\ Len(ws) \in Nat
  OBVIOUS

(* A scaling adds one worker at the end, takes one away, or does nothing, and *)
(* says which; it restarts the cooldown exactly when it changed the pool.     *)
LEMMA ScalingType ==
    ASSUME NEW ws \in Seq(0..MaxLoad), NEW action \in {"up", "down", "hold"}
    PROVE  LET r == Scaling(ws, action)
           IN  /\ r.pool \in Seq(0..MaxLoad)
               /\ \/ action = "up" /\ Len(r.pool) = Len(ws) + 1 /\ r.did = "up" /\ r.restart
                  \/ action = "down" /\ Len(r.pool) = Len(ws) - 1 /\ r.did = "down" /\ r.restart
                  \/ r.pool = ws /\ r.did = "none" /\ ~r.restart
<1>1. CASE action = "up"
  BY <1>1, PoolAssumption DEF Scaling
<1>2. CASE action = "down" /\ RemoveIdle(ws) # ws
  <2>1. PICK i \in DOMAIN ws : RemoveIdle(ws) = RemoveAt(ws, i)
    <3>1. \E i \in DOMAIN ws : ws[i] = 0
      BY <1>2 DEF RemoveIdle
    <3>2. RemoveIdle(ws) = RemoveAt(ws, FirstIdle(ws))
      BY <3>1 DEF RemoveIdle
    <3>3. \E i \in DOMAIN ws : ws[i] = 0 /\ \A j \in 1..(i - 1) : ws[j] # 0
      <4> DEFINE idle == {i \in DOMAIN ws : ws[i] = 0}
      <4>1. idle \subseteq Nat /\ idle # {}
        BY <3>1
      <4>2. \E i \in idle : \A j \in idle : ~ (<<j, i>> \in OpToRel(<, Nat))
        <5> HIDE DEF idle
        <5> QED
          BY <4>1, NatLessThanWellFounded, WFMin, Zenon
      <4>3. PICK i \in idle : \A j \in idle : ~ (j < i)
        BY <4>1, <4>2 DEF OpToRel
      <4> QED
        BY <4>1, <4>3
    <3> QED
      BY <3>2, <3>3 DEF FirstIdle
  <2>2. RemoveAt(ws, i) \in Seq(0..MaxLoad) /\ Len(RemoveAt(ws, i)) = Len(ws) - 1
    BY <2>1, RemoveAtType, Zenon
  <2>3. Scaling(ws, action) = [pool |-> RemoveIdle(ws), did |-> "down", restart |-> TRUE]
    BY <1>2 DEF Scaling
  <2> QED
    BY <1>2, <2>1, <2>2, <2>3
<1>3. CASE action # "up" /\ ~(action = "down" /\ RemoveIdle(ws) # ws)
  BY <1>3 DEF Scaling
<1> QED
  BY <1>1, <1>2, <1>3

(* The configuration build_pool makes is coherent, whatever maximum it is      *)
(* given.                                                                    *)
LEMMA InitIInv == Init => IInv
<1> SUFFICES ASSUME Init PROVE IInv
  OBVIOUS
<1>1. DefaultMax \in Nat \ {0} /\ DefaultMax <= MaxWorkersCap /\ Cooldown \in Nat
  BY PoolAssumption
<1>2. /\ Unit * DefaultMax \in Nat /\ Unit <= Unit * DefaultMax /\ Unit \in Nat \ {0}
      /\ DefaultMax * Unit = Unit * DefaultMax
  BY <1>1, UnitTimes, UnitAssumption
<1> DEFINE t == AtMost(4 * Unit, DefaultMax * Unit)
<1>3. t \in Nat /\ Unit <= t /\ t <= Unit * DefaultMax
  BY <1>2 DEF AtMost
<1>4. config = [min |-> 1, max |-> DefaultMax, target |-> t, scaleDown |-> Unit]
  BY DEF Init, DefaultConfig
<1> HIDE DEF t
<1>5. Settings
  <2>1. config \in Record
    BY <1>1, <1>3, <1>4 DEF Record
  <2>2. Coherent(config)
    BY <1>1, <1>3, <1>4 DEF Coherent, ValidConfig
  <2>3. madeFor # "realmodel" /\ drafts = {}
    BY DEF Init, Nobody
  <2> QED
    BY <2>1, <2>2, <2>3 DEF Settings, Fit
<1>6. workers \in Seq(0..MaxLoad)
  BY PoolAssumption, FreshPoolType DEF Init
<1>7. ClockBehindQuiet
  BY <1>1 DEF Init, ClockBehindQuiet
<1> QED
  BY <1>5, <1>6, <1>7 DEF IInv

-------------------------------------------------------------------------------
(* What decide() may answer: up only below the maximum, down only above the   *)
(* minimum, and within the bounds neither before the cooldown is over.       *)
LEMMA DecideSound ==
    ASSUME NEW c \in [min : Nat, max : Nat, target : Nat, scaleDown : {Unit}],
           c.min <= c.max,
           NEW n \in Nat, NEW load, NEW elapsed \in Nat, NEW cooldown \in Nat,
           NEW action, action = Decide(c, n, load, elapsed, cooldown)
    PROVE  /\ action \in {"up", "down", "hold"}
           /\ action = "up" => n < c.max
           /\ action = "down" => n > c.min
           /\ n \in c.min..c.max /\ action # "hold" => elapsed >= cooldown
<1>1. c.min \in Nat /\ c.max \in Nat
  OBVIOUS
<1> HIDE DEF Above, Below
<1> QED
  BY <1>1 DEF Decide

(* One step of the pool: the workers keep their shape, the clock stays behind, *)
(* the bounds hold, and within them nothing happens before the cooldown is     *)
(* over.                                                                       *)
LEMMA StepSound ==
    ASSUME IInv,
           NEW dt \in Dts, NEW served \in [DOMAIN workers -> 0..MaxLoad],
           Step(dt, served)
    PROVE  /\ workers' \in Seq(0..MaxLoad)
           /\ ClockBehindQuiet'
           /\ Len(workers') <= AtLeast(Len(workers), config.max)
           /\ Len(workers') >= AtMost(Len(workers), config.min)
           /\ InRange /\ scaled' # "none" => quiet' = Cooldown
<1> DEFINE elapsed == AtMost(since + dt, Cooldown)
           p       == (phase + 1) % Every
           action  == IF enabled /\ Due(p)
                      THEN Decide(config, Len(served), Total(served), elapsed, Cooldown)
                      ELSE "hold"
           result  == Scaling(served, action)
<1>1. /\ workers' = result.pool
      /\ since' = IF result.restart THEN 0 ELSE elapsed
      /\ scaled' = result.did
      /\ quiet' = AtMost(IF scaled = "none" THEN quiet + dt ELSE dt, Cooldown)
      /\ config' = config
  BY DEF Step, settingVars
<1>2. workers \in Seq(0..MaxLoad)
  BY DEF IInv
<1>3. served \in Seq(0..MaxLoad)
  BY <1>2, ServedType, Zenon
<1>4. Len(served) = Len(workers) /\ Len(workers) \in Nat
  BY <1>2, ServedType, Zenon
<1>5. /\ since \in Nat /\ quiet \in Nat /\ dt \in Nat /\ Cooldown \in Nat
      /\ since <= Cooldown /\ quiet <= Cooldown
      /\ since <= IF scaled = "none" THEN quiet ELSE 0
  BY PoolAssumption DEF IInv, ClockBehindQuiet
<1>6. elapsed \in 0..Cooldown /\ quiet' \in 0..Cooldown /\ elapsed <= quiet'
  BY <1>1, <1>5 DEF AtMost
<1>7. /\ config \in [min : Nat, max : Nat, target : Nat, scaleDown : {Unit}]
      /\ config.min \in Nat /\ config.max \in Nat
      /\ config.min <= config.max
  BY DEF IInv, Settings, Fit, Record, Coherent, ValidConfig
<1>8. config.min \in Nat /\ config.max \in Nat /\ config.min <= config.max
  BY <1>7
<1> HIDE DEF elapsed
<1>9. /\ action \in {"up", "down", "hold"}
      /\ action = "up" => Len(workers) < config.max
      /\ action = "down" => Len(workers) > config.min
      /\ Len(workers) \in config.min..config.max /\ action # "hold" => elapsed >= Cooldown
  <2> DEFINE d == Decide(config, Len(served), Total(served), elapsed, Cooldown)
  <2>1. /\ d \in {"up", "down", "hold"}
        /\ d = "up" => Len(served) < config.max
        /\ d = "down" => Len(served) > config.min
        /\ Len(served) \in config.min..config.max /\ d # "hold" => elapsed >= Cooldown
    <3>1. elapsed \in Nat /\ Cooldown \in Nat /\ Len(served) \in Nat
      BY <1>4, <1>5, <1>6
    <3> HIDE DEF d
    <3> QED
      BY <1>7, <3>1, DecideSound DEF d
  <2>2. action = d \/ action = "hold"
    OBVIOUS
  <2> HIDE DEF d
  <2> QED
    BY <1>4, <2>1, <2>2
<1> HIDE DEF action
<1>10. /\ result.pool \in Seq(0..MaxLoad)
       /\ \/ action = "up" /\ Len(result.pool) = Len(served) + 1 /\ result.did = "up" /\ result.restart
          \/ action = "down" /\ Len(result.pool) = Len(served) - 1 /\ result.did = "down" /\ result.restart
          \/ result.pool = served /\ result.did = "none" /\ ~result.restart
  BY <1>3, <1>9, ScalingType, Zenon
<1>11. \/ action = "up" /\ Len(result.pool) = Len(workers) + 1 /\ result.did = "up" /\ result.restart
       \/ action = "down" /\ Len(result.pool) = Len(workers) - 1 /\ result.did = "down" /\ result.restart
       \/ Len(result.pool) = Len(workers) /\ result.did = "none" /\ ~result.restart
  BY <1>10, <1>4, Zenon
<1> HIDE DEF result
<1>12. workers' \in Seq(0..MaxLoad)
  BY <1>1, <1>10, Zenon
<1>13. ClockBehindQuiet'
  BY <1>1, <1>5, <1>6, <1>11 DEF ClockBehindQuiet
<1>14. /\ Len(workers') <= AtLeast(Len(workers), config.max)
       /\ Len(workers') >= AtMost(Len(workers), config.min)
  <2> DEFINE n == Len(workers)
             m == Len(workers')
  <2>1. \/ action = "up" /\ m = n + 1
        \/ action = "down" /\ m = n - 1
        \/ m = n
    BY <1>1, <1>11, Zenon
  <2>2. /\ action = "up" => n < config.max
        /\ action = "down" => n > config.min
    BY <1>9
  <2>3. n \in Nat
    BY <1>4
  <2> HIDE DEF n, m
  <2>4. m <= AtLeast(n, config.max) /\ m >= AtMost(n, config.min)
    BY <1>8, <2>1, <2>2, <2>3 DEF AtLeast, AtMost
  <2> QED
    BY <2>4 DEF n, m
<1>15. InRange /\ scaled' # "none" => quiet' = Cooldown
  BY <1>1, <1>5, <1>6, <1>9, <1>11 DEF InRange
<1> QED
  BY <1>12, <1>13, <1>14, <1>15

(* Every tick, cut short or not, every submit and control call keeps it.      *)
LEMMA NextIInv == ASSUME IInv, Next PROVE IInv'
<1> USE DEF IInv
<1>1. ASSUME Tick PROVE IInv'
  <2>1. PICK dt \in Dts, served \in [DOMAIN workers -> 0..MaxLoad] : Step(dt, served)
    BY <1>1 DEF Tick
  <2>2. workers' \in Seq(0..MaxLoad) /\ ClockBehindQuiet'
    BY <2>1, StepSound, Zenon
  <2>3. Settings'
    BY <2>1, SettingsUnchanged DEF Step
  <2> QED
    BY <2>2, <2>3
<1>2. ASSUME Submit PROVE IInv'
  <2>1. PICK i \in DOMAIN workers :
          /\ workers[i] < MaxLoad
          /\ workers' = [workers EXCEPT ![i] = @ + 1]
          /\ UNCHANGED <<settingVars, backend, since, phase, scaled, quiet, ops>>
    BY <1>2 DEF Submit
  <2>2. workers' \in Seq(0..MaxLoad)
    BY <2>1, PoolAssumption
  <2>3. Settings' /\ ClockBehindQuiet'
    BY <2>1, SettingsUnchanged DEF ClockBehindQuiet
  <2> QED
    BY <2>2, <2>3
<1>3. ASSUME Kill PROVE IInv'
  <2>1. PICK i \in DOMAIN workers : workers' = RemoveAt(workers, i)
    BY <1>3 DEF Kill
  <2>2. workers' \in Seq(0..MaxLoad)
    BY <2>1, RemoveAtType, Zenon
  <2>3. Settings' /\ ClockBehindQuiet'
    BY <1>3, SettingsUnchanged DEF Kill, ClockBehindQuiet
  <2> QED
    BY <2>2, <2>3
<1>4. ASSUME Reset \/ SetBackend PROVE IInv'
  <2>1. ResetPool /\ UNCHANGED settingVars
    BY <1>4 DEF Reset, SetBackend
  <2>2. workers' \in Seq(0..MaxLoad)
    BY <2>1, FreshPoolType, Zenon DEF ResetPool
  <2>3. Settings'
    BY <2>1, SettingsUnchanged
  <2>4. ClockBehindQuiet'
    BY <2>1, PoolAssumption DEF ResetPool, ClockBehindQuiet
  <2> QED
    BY <2>2, <2>3, <2>4
<1>5. ASSUME ComputeSettings PROVE IInv'
  <2>1. PICK mn \in 1..MaxWorkersCap \cup {config.min},
             mx \in 1..(MaxWorkersCap + 1) \cup {config.max},
             target \in Targets \cup {config.target} :
                drafts' = drafts \cup
                    {[config |-> ClampedConfig(mn, mx, target), from |-> backend, call |-> ops]}
    BY <1>5 DEF ComputeSettings
  <2>2. /\ config \in Record
        /\ config.min \in Nat \ {0} /\ config.max \in Nat \ {0} /\ config.target \in Nat
    BY DEF Settings, Fit, Record, Coherent, ValidConfig
  <2>3. mn \in Nat \ {0} /\ mx \in Nat \ {0} /\ target \in Nat
    BY <2>1, <2>2, PoolAssumption
  <2>4. Fit(ClampedConfig(mn, mx, target), backend)
    BY <2>2, <2>3, ClampedIsFit, Zenon
  <2>5. \A d \in drafts' : Fit(d.config, d.from)
    <3> DEFINE new == ClampedConfig(mn, mx, target)
    <3> HIDE DEF new
    <3>1. \A d \in drafts' :
             d \in drafts \/ (d.config = new /\ d.from = backend)
      BY <2>1 DEF new
    <3>2. Fit(new, backend)
      BY <2>4 DEF new
    <3> QED
      BY <3>1, <3>2 DEF Settings
  <2>6. Settings' /\ workers' = workers /\ ClockBehindQuiet'
    BY <1>5, <2>5 DEF ComputeSettings, Settings, ClockBehindQuiet, Fit
  <2> QED
    BY <2>6
<1>6. ASSUME SetAutoscaler PROVE IInv'
  <2>1. PICK d \in drafts :
          config' = d.config /\ madeFor' = d.from /\ drafts' = drafts \ {d}
    BY <1>6 DEF SetAutoscaler
  <2>2. Settings'
    BY <2>1 DEF Settings
  <2>3. workers' = workers /\ ClockBehindQuiet'
    BY <1>6 DEF SetAutoscaler, ClockBehindQuiet
  <2> QED
    BY <2>2, <2>3
<1>7. ASSUME BrokenTick PROVE IInv'
  <2>1. PICK dt \in Dts, served \in [DOMAIN workers -> 0..MaxLoad] :
          /\ workers' = served
          /\ since' = AtMost(since + dt, Cooldown)
          /\ scaled' = "none"
          /\ quiet' = AtMost(IF scaled = "none" THEN quiet + dt ELSE dt, Cooldown)
          /\ UNCHANGED settingVars
    BY <1>7 DEF BrokenTick
  <2>2. workers' \in Seq(0..MaxLoad)
    BY <2>1, ServedType, Zenon
  <2>3. ClockBehindQuiet'
    <3>1. dt \in Nat /\ Cooldown \in Nat
      BY PoolAssumption
    <3> QED
      BY <2>1, <3>1 DEF ClockBehindQuiet, AtMost
  <2>4. Settings'
    BY <2>1, SettingsUnchanged
  <2> QED
    BY <2>2, <2>3, <2>4
<1> QED
  BY <1>1, <1>2, <1>3, <1>4, <1>5, <1>6, <1>7 DEF Next

(* So does a step that changes nothing.                                      *)
LEMMA StutterIInv == ASSUME IInv, UNCHANGED vars PROVE IInv'
<1>1. Settings'
  BY SettingsUnchanged DEF IInv, vars, settingVars
<1> QED
  BY <1>1 DEF IInv, ClockBehindQuiet, vars

(* The settings are coherent, the pool is one, and the clock stays behind, in *)
(* every reachable state.                                                     *)
THEOREM PoolInvariant == Spec => []IInv
<1>1. IInv /\ [Next]_vars => IInv'
  BY NextIInv, StutterIInv
<1> QED
  BY InitIInv, <1>1, PTL DEF Spec

(* The other fields of the pool.                                              *)
Fields ==
    /\ enabled \in BOOLEAN
    /\ backend \in Backends
    /\ phase \in 0..(Every - 1)
    /\ ops \in 0..MaxOps
    /\ madeFor \in Backends \cup {Nobody}
    /\ \A d \in drafts :
         d = [config |-> d.config, from |-> d.from, call |-> d.call]
             /\ d.from \in Backends /\ d.call \in 0..MaxOps

(* They keep their types; the step counter is one modulo Every.               *)
LEMMA FieldsInvariant == Spec => []Fields
<1>1. Init => Fields
  BY PoolAssumption DEF Init, Fields
<1>2. ASSUME Fields, Next PROVE Fields'
  <2>1. ASSUME Tick PROVE Fields'
    <3>1. phase' = (phase + 1) % Every /\ UNCHANGED <<settingVars, backend, ops>>
      BY <2>1 DEF Tick, Step
    <3>2. (phase + 1) % Every \in 0..(Every - 1)
      BY <1>2, PoolAssumption DEF Fields
    <3> QED
      BY <1>2, <3>1, <3>2 DEF Fields, settingVars
  <2>2. ASSUME Submit PROVE Fields'
    BY <1>2, <2>2 DEF Submit, Fields, settingVars
  <2>3. ASSUME Kill \/ Reset \/ SetBackend PROVE Fields'
    <3>1. ops' \in 0..MaxOps
      BY <1>2, <2>3, PoolAssumption DEF Fields, Kill, Reset, SetBackend, Control
    <3>2. phase' \in 0..(Every - 1)
      BY <1>2, <2>3, PoolAssumption DEF Fields, Kill, Reset, SetBackend, ResetPool
    <3>3. UNCHANGED settingVars /\ backend' \in Backends
      BY <1>2, <2>3 DEF Fields, Kill, Reset, SetBackend
    <3> QED
      BY <1>2, <3>1, <3>2, <3>3 DEF Fields, settingVars
  <2>4. ASSUME ComputeSettings PROVE Fields'
    <3>1. PICK c : drafts' = drafts \cup {[config |-> c, from |-> backend, call |-> ops]}
      BY <2>4 DEF ComputeSettings
    <3>2. ops' \in 0..MaxOps /\ UNCHANGED <<enabled, backend, phase, madeFor>>
      BY <1>2, <2>4, PoolAssumption DEF Fields, ComputeSettings, Control
    <3> QED
      BY <1>2, <3>1, <3>2 DEF Fields
  <2>5. ASSUME SetAutoscaler PROVE Fields'
    BY <1>2, <2>5 DEF SetAutoscaler, Fields
  <2>6. ASSUME BrokenTick PROVE Fields'
    <3>1. phase' = (phase + 1) % Every /\ UNCHANGED <<settingVars, backend, ops>>
      BY <2>6 DEF BrokenTick
    <3>2. (phase + 1) % Every \in 0..(Every - 1)
      BY <1>2, PoolAssumption DEF Fields
    <3> QED
      BY <1>2, <3>1, <3>2 DEF Fields, settingVars
  <2> QED
    BY <1>2, <2>1, <2>2, <2>3, <2>4, <2>5, <2>6 DEF Next
<1>3. ASSUME Fields, UNCHANGED vars PROVE Fields'
  BY <1>3 DEF Fields, vars
<1> QED
  BY <1>1, <1>2, <1>3, PTL DEF Spec

(* A configuration that is fit is in the range of the enumeration.            *)
LEMMA FitInConfigs == ASSUME NEW c, NEW from, Fit(c, from) PROVE c \in Configs
<1>1. /\ c \in [min : Nat, max : Nat, target : Nat, scaleDown : {Unit}]
      /\ c.min >= 1 /\ c.min <= c.max /\ c.max <= MaxWorkersCap
      /\ c.scaleDown <= c.target /\ c.target <= Unit * c.max
  BY DEF Fit, Record, Coherent, ValidConfig
<1>2. /\ c.min \in Nat /\ c.max \in Nat /\ c.target \in Nat
      /\ c.scaleDown = Unit /\ Unit \in Nat \ {0} /\ MaxWorkersCap \in Nat
  BY <1>1, UnitAssumption, PoolAssumption
<1>3. Unit * c.max <= Unit * MaxWorkersCap /\ Unit * MaxWorkersCap \in Nat
  <2>1. Unit * MaxWorkersCap = Unit * c.max + Unit * (MaxWorkersCap - c.max)
    BY <1>2
  <2>2. Unit * (MaxWorkersCap - c.max) \in Nat /\ Unit * c.max \in Nat
    BY <1>1, <1>2
  <2> QED
    BY <2>1, <2>2
<1>4. c.min \in 1..MaxWorkersCap /\ c.max \in 1..MaxWorkersCap
  BY <1>1, <1>2
<1>5. c.target \in 1..(Unit * MaxWorkersCap)
  <2>1. Unit * c.max \in Nat
    BY <1>2
  <2> QED
    BY <1>1, <1>2, <1>3, <2>1
<1> QED
  BY <1>1, <1>4, <1>5, Zenon DEF Configs

(* Every path that builds a configuration, and every change of the pool, keeps *)
(* the types of the fields, the hard cap on both worker counts included.       *)
THEOREM TypeCorrect == Spec => []TypeOK
<1>1. ASSUME IInv, Fields PROVE TypeOK
  <2>1. config \in Configs /\ \A d \in drafts : d.config \in Configs
    BY <1>1, FitInConfigs, Zenon DEF IInv, Settings
  <2>2. workers \in Seq(0..MaxLoad) /\ ClockBehindQuiet
    BY <1>1 DEF IInv
  <2>3. drafts \subseteq [config : Configs, from : Backends, call : 0..MaxOps]
    BY <1>1, <2>1 DEF Fields
  <2> QED
    BY <1>1, <2>1, <2>2, <2>3 DEF TypeOK, Fields, ClockBehindQuiet
<1> QED
  BY PoolInvariant, FieldsInvariant, <1>1, PTL

(* Whatever is sent to /api/autoscaler, in whatever order with kills, resets   *)
(* and switches of backend, AutoscalerConfig accepts what the gateway builds.  *)
THEOREM SettingsStayCoherent == Spec => []ConfigCoherent
<1>1. IInv => ConfigCoherent
  BY DEF IInv, Settings, Fit, ConfigCoherent
<1> QED
  BY PoolInvariant, <1>1, PTL

(* The autoscaler leaves a pool within its bounds alone until the cooldown has *)
(* run out since the last change of the pool.                                  *)
THEOREM CooldownRespected == Spec => CoolsDown
<1>1. ASSUME IInv, Tick, InRange, scaled' # "none" PROVE quiet' = Cooldown
  <2>1. PICK dt \in Dts, served \in [DOMAIN workers -> 0..MaxLoad] : Step(dt, served)
    BY <1>1 DEF Tick
  <2> QED
    BY <1>1, <2>1, StepSound, Zenon
<1>2. IInv /\ [Next]_vars => [Tick => (InRange /\ scaled' # "none" => quiet' = Cooldown)]_vars
  BY <1>1
<1> QED
  BY PoolInvariant, <1>2, PTL DEF Spec, CoolsDown

(* The autoscaler never takes the pool out of its bounds, nor further out.     *)
THEOREM BoundsRespected == Spec => StaysInBounds
<1>1. ASSUME IInv, Tick
      PROVE  /\ Len(workers') <= AtLeast(Len(workers), config.max)
             /\ Len(workers') >= AtMost(Len(workers), config.min)
  <2>1. PICK dt \in Dts, served \in [DOMAIN workers -> 0..MaxLoad] : Step(dt, served)
    BY <1>1 DEF Tick
  <2> QED
    BY <1>1, <2>1, StepSound, Zenon
<1>2. IInv /\ [Next]_vars =>
        [Tick => /\ Len(workers') <= AtLeast(Len(workers), config.max)
                 /\ Len(workers') >= AtMost(Len(workers), config.min)]_vars
  BY <1>1
<1> QED
  BY PoolInvariant, <1>2, PTL DEF Spec, StaysInBounds

(* A pool whose settings were computed for the real model does not grow past   *)
(* its cap, whatever calls and switches overlap.                               *)
THEOREM RealModelStaysCapped == Spec => RealModelCapped
<1>1. ASSUME IInv, Tick, madeFor = "realmodel", Len(workers') > Len(workers)
      PROVE  Len(workers') <= RealModelMax
  <2>1. PICK dt \in Dts, served \in [DOMAIN workers -> 0..MaxLoad] : Step(dt, served)
    BY <1>1 DEF Tick
  <2>2. workers' \in Seq(0..MaxLoad) /\ Len(workers') <= AtLeast(Len(workers), config.max)
    BY <1>1, <2>1, StepSound, Zenon
  <2>3. Len(workers) \in Nat /\ Len(workers') \in Nat
    BY <1>1, <2>2 DEF IInv
  <2>4. config.max \in Nat /\ config.max <= RealModelMax /\ RealModelMax \in Nat
    BY <1>1, PoolAssumption DEF IInv, Settings, Fit, Record
  <2> QED
    BY <1>1, <2>2, <2>3, <2>4 DEF AtLeast
<1>2. IInv /\ [Next]_vars =>
        [Tick /\ backend = "realmodel" /\ madeFor = "realmodel" /\ Len(workers') > Len(workers)
            => Len(workers') <= RealModelMax]_vars
  BY <1>1
<1> QED
  BY PoolInvariant, <1>2, PTL DEF Spec, RealModelCapped

(* The load that makes the autoscaler add a worker is more than one request    *)
(* for each worker there will be, which is not below the scale-down threshold. *)
THEOREM DoesNotFlap == Spec => []NoFlapping
<1>1. ASSUME IInv,
             NEW n \in config.min..config.max, NEW load \in Nat,
             Decide(config, n, load, Cooldown, Cooldown) = "up"
      PROVE  Decide(config, n + 1, load, Cooldown, Cooldown) # "down"
  <2>1. /\ config.min \in Nat /\ config.min >= 1 /\ config.max \in Nat
        /\ config.target \in Nat /\ Unit <= config.target
        /\ config.scaleDown = Unit /\ Unit \in Nat \ {0}
        /\ n \in Nat /\ n >= 1 /\ n >= config.min /\ n <= config.max
        /\ Cooldown \in Nat
    <3>1. /\ config \in [min : Nat, max : Nat, target : Nat, scaleDown : {Unit}]
          /\ config.min >= 1 /\ config.scaleDown <= config.target
      BY <1>1 DEF IInv, Settings, Fit, Record, Coherent, ValidConfig
    <3>2. /\ config.min \in Nat /\ config.max \in Nat /\ config.target \in Nat
          /\ config.scaleDown = Unit
      BY <3>1
    <3> QED
      BY <3>1, <3>2, UnitAssumption, PoolAssumption
  <2>2. n < config.max /\ Above(load, n, config.target)
    <3> HIDE DEF Above, Below
    <3> QED
      BY <1>1, <2>1 DEF Decide
  <2>3. Unit * load > Unit * n
    <3>1. /\ Unit * n \in Nat /\ Unit * load \in Nat
          /\ config.target * n \in Nat /\ (config.target - Unit) * n \in Nat
      BY <2>1
    <3>2. config.target * n = Unit * n + (config.target - Unit) * n
      BY <2>1
    <3>3. Unit * load > config.target * n
      BY <2>2 DEF Above
    <3> QED
      BY <3>1, <3>2, <3>3
  <2>4. load >= n + 1
    <3>1. SUFFICES ASSUME load <= n PROVE FALSE
      BY <2>1
    <3>2. Unit * (n - load) \in Nat /\ Unit * load \in Nat
      BY <2>1, <3>1
    <3>3. Unit * n = Unit * load + Unit * (n - load)
      BY <2>1, <3>1
    <3> QED
      BY <2>3, <3>2, <3>3
  <2>5. Unit * load >= Unit * (n + 1)
    <3>1. Unit * (load - (n + 1)) \in Nat /\ Unit * (n + 1) \in Nat
      BY <2>1, <2>4
    <3>2. Unit * load = Unit * (n + 1) + Unit * (load - (n + 1))
      BY <2>1, <2>4
    <3> QED
      BY <3>1, <3>2
  <2>6. ~Below(load, n + 1, config.scaleDown)
    <3>1. n + 1 # 0 /\ Unit * load \in Nat /\ Unit * (n + 1) \in Nat
      BY <2>1
    <3>2. ~(Unit * load < Unit * (n + 1))
      BY <2>5, <3>1
    <3> QED
      BY <2>1, <3>1, <3>2 DEF Below
  <2>7. ~(n + 1 > config.max)
    BY <2>1, <2>2
  <2> HIDE DEF Above, Below
  <2> QED
    BY <2>1, <2>6, <2>7 DEF Decide
<1>2. MaxLoad * MaxWorkersCap \in Nat
  BY PoolAssumption
<1>3. IInv => NoFlapping
  BY <1>1, <1>2 DEF NoFlapping
<1> QED
  BY PoolInvariant, <1>3, PTL
===============================================================================
