------------------------- MODULE MarketViewerProofs -------------------------
(***************************************************************************)
(* Proofs about the caches of the spot service: types, the bound on the    *)
(* age of what they answer, the reasons for outdated entries, and that a   *)
(* client finds every market page by page.                                 *)
(***************************************************************************)
EXTENDS MarketViewer, FiniteSetTheorems, SequenceTheorems, WellFoundedInduction, TLAPS

\* The roles in the order of RefreshAll.
LEMMA RoleOrder ==
    /\ cacheRoleKeys[1] = Admin /\ cacheRoleKeys[2] = Viewer /\ cacheRoleKeys[3] = User
    /\ \A n \in 1 .. 3 : cacheRoleKeys[n] \in Roles
  BY DEF cacheRoleKeys, Roles

-----------------------------------------------------------------------------
(* Types.                                                                  *)

\* The phases of refreshCache exclude each other.
PhasesOK ==
    \A i \in Instances : /\ refresh[i] # 0 => todo[i] = {}
                         /\ emptied[i] \/ InUse(page[i]) => refresh[i] # 0
                         /\ ~(emptied[i] /\ InUse(page[i]))

\* The types without the phases.
Shapes ==
    /\ rows \in [Markets -> Status]
    /\ cache = [k \in Keys |-> cache[k]]
    /\ loads = [i \in Instances |-> [k \in Keys |-> loads[i][k]]]
    /\ page = [i \in Instances |-> page[i]]
    /\ pending \in [Instances -> SUBSET Markets]
    /\ todo \in [Instances -> SUBSET Markets]
    /\ refresh \in [Instances -> 0 .. 3]
    /\ emptied \in [Instances -> BOOLEAN]
    /\ changes \in 0 .. MaxChanges /\ faults \in 0 .. MaxFaults

\* Changing a function at one argument leaves it a function on its domain.
LEMMA FunctionKept ==
    ASSUME NEW S, NEW f, f = [x \in S |-> f[x]], NEW a, NEW v, NEW g, g = [f EXCEPT ![a] = v]
    PROVE  g = [x \in S |-> g[x]]
  OBVIOUS

\* A fault keeps the counter in its range.
LEMMA FaultKept ==
    ASSUME Shapes, NEW kind, Fault(kind)
    PROVE  faults' \in 0 .. MaxFaults
  BY ViewerAssumption DEF Shapes, Fault

\* One step keeps the shapes of the variables.
LEMMA ShapesStep ==
    ASSUME Shapes, [Next]_vars
    PROVE  Shapes'
<1> USE ViewerAssumption DEF Shapes, Keys
<1>1. ASSUME NEW m \in Markets, NEW status \in Status, Change(m, status) PROVE Shapes'
  BY <1>1 DEF Change, Fault
<1>2. ASSUME Tick PROVE Shapes'
  BY <1>2 DEF Tick
<1>3. ASSUME NEW k \in Keys, Corrupt(k) PROVE Shapes'
  <2>1. faults' \in 0 .. MaxFaults
    BY <1>3, FaultKept DEF Corrupt
  <2>2. cache' = [x \in Keys |-> cache'[x]]
    BY <1>3, FunctionKept DEF Corrupt
  <2> QED
    BY <1>3, <2>1, <2>2 DEF Corrupt, pollVars
<1>4. ASSUME NEW k \in Keys, DropCorrupted(k) PROVE Shapes'
  <2>1. cache' = [x \in Keys |-> cache'[x]]
    BY <1>4, FunctionKept DEF DropCorrupted
  <2> QED
    BY <1>4, <2>1 DEF DropCorrupted, pollVars
<1>5. ASSUME NEW i \in Instances, NEW m \in Markets, loadMarket(i, m) PROVE Shapes'
  BY <1>5 DEF loadMarket, StartLoad, pollVars
<1>6. ASSUME NEW i \in Instances, NEW m \in Markets, SetMarketByID(i, m) PROVE Shapes'
  <2>1. faults' \in 0 .. MaxFaults
    BY <1>6, FaultKept DEF SetMarketByID
  <2>2. cache' = [x \in Keys |-> cache'[x]]
    BY <1>6, FunctionKept DEF SetMarketByID
  <2>3. loads' = [j \in Instances |-> [k \in Keys |-> loads'[j][k]]]
    BY <1>6 DEF SetMarketByID, EndLoad
  <2> QED
    BY <1>6, <2>1, <2>2, <2>3 DEF SetMarketByID, pollVars
<1>7. ASSUME NEW i \in Instances, NEW m \in Markets, InvalidateByIDs(i, m) PROVE Shapes'
  BY <1>7 DEF InvalidateByIDs, Fault
<1>8. ASSUME NEW i \in Instances, NEW role \in Roles, tryLoadHeadPage(i, role) PROVE Shapes'
  BY <1>8 DEF tryLoadHeadPage, StartLoad, pollVars
<1>9. ASSUME NEW i \in Instances, NEW role \in Roles, warmHeadCache(i, role) PROVE Shapes'
  <2>1. faults' \in 0 .. MaxFaults
    BY <1>9, FaultKept DEF warmHeadCache
  <2>2. cache' = [x \in Keys |-> cache'[x]]
    BY <1>9, FunctionKept DEF warmHeadCache
  <2>3. loads' = [j \in Instances |-> [k \in Keys |-> loads'[j][k]]]
    BY <1>9 DEF warmHeadCache, EndLoad
  <2> QED
    BY <1>9, <2>1, <2>2, <2>3 DEF warmHeadCache, pollVars
<1>10. ASSUME NEW i \in Instances, refreshCache(i) PROVE Shapes'
  BY <1>10 DEF refreshCache
<1>11. ASSUME NEW i \in Instances, RefreshRead(i) PROVE Shapes'
  <2>1. page' = [j \in Instances |-> page'[j]]
    BY <1>11, FunctionKept DEF RefreshRead
  <2>2. refresh' \in [Instances -> 0 .. 3]
    <3>1. refresh' = refresh \/ refresh' = [refresh EXCEPT ![i] = 1]
      BY <1>11 DEF RefreshRead
    <3> QED
      BY <3>1, SMTT(30)
  <2>3. emptied' \in [Instances -> BOOLEAN]
    BY <1>11 DEF RefreshRead
  <2> QED
    BY <1>11, <2>1, <2>2, <2>3 DEF RefreshRead
<1>12. ASSUME NEW i \in Instances, RefreshWrite(i) PROVE Shapes'
  <2>1. page' = [j \in Instances |-> page'[j]]
    BY <1>12, FunctionKept DEF RefreshWrite
  <2>2. cache' = [x \in Keys |-> cache'[x]]
    BY <1>12, FunctionKept DEF RefreshWrite
  <2>3. refresh' \in [Instances -> 0 .. 3]
    <3>1. (IF refresh[i] = 3 THEN 0 ELSE refresh[i] + 1) \in 0 .. 3
      BY DEF Shapes
    <3>2. refresh' = [refresh EXCEPT ![i] = IF refresh[i] = 3 THEN 0 ELSE refresh[i] + 1]
      BY <1>12 DEF RefreshWrite
    <3> QED
      BY <3>1, <3>2
  <2>4. emptied' \in [Instances -> BOOLEAN]
    BY <1>12 DEF RefreshWrite
  <2> QED
    BY <1>12, <2>1, <2>2, <2>3, <2>4 DEF RefreshWrite
<1>13. ASSUME NEW i \in Instances, StopRefresh(i)
       PROVE  /\ todo' \in [Instances -> SUBSET Markets] /\ refresh' \in [Instances -> 0 .. 3]
              /\ emptied' \in [Instances -> BOOLEAN] /\ page' = [j \in Instances |-> page'[j]]
  <2>1. page' = [j \in Instances |-> page'[j]]
    BY <1>13, FunctionKept DEF StopRefresh
  <2> QED
    BY <1>13, <2>1 DEF StopRefresh
<1>14. ASSUME NEW i \in Instances, RefreshFails(i) PROVE Shapes'
  <2>1. faults' \in 0 .. MaxFaults
    BY <1>14, FaultKept DEF RefreshFails
  <2>2. cache' = [x \in Keys |-> cache'[x]]
    BY <1>14 DEF RefreshFails, GivenUp
  <2> QED
    BY <1>14, <1>13, <2>1, <2>2 DEF RefreshFails
<1>15. ASSUME NEW i \in Instances, Crash(i) PROVE Shapes'
  <2>1. faults' \in 0 .. MaxFaults
    BY <1>15, FaultKept DEF Crash
  <2>2. PICK S \in SUBSET pending[i] :
          /\ pending' = [pending EXCEPT ![i] = S]
          /\ GivenUp(todo[i] \cup RolesLeft(i) \cup (pending[i] \ S)
                     \cup IF S = {} THEN Roles ELSE {})
    BY <1>15 DEF Crash
  <2>3. cache' = [x \in Keys |-> cache'[x]]
    BY <2>2 DEF GivenUp
  <2>4. loads' = [j \in Instances |-> [k \in Keys |-> loads'[j][k]]]
    <3> DEFINE none == [k \in Keys |-> NoCopy]
    <3>1. none = [k \in Keys |-> none[k]]
      OBVIOUS
    <3> HIDE DEF none
    <3>2. loads' = [loads EXCEPT ![i] = none]
      BY <1>15 DEF Crash, none
    <3> QED
      BY <3>1, <3>2
  <2> QED
    BY <1>15, <1>13, <2>1, <2>2, <2>3, <2>4 DEF Crash
<1>16. CASE UNCHANGED vars
  BY <1>16 DEF vars, pollVars
<1> QED
  BY <1>1, <1>2, <1>3, <1>4, <1>5, <1>6, <1>7, <1>8, <1>9, <1>10, <1>11, <1>12, <1>14, <1>15, <1>16
     DEF Next
-----------------------------------------------------------------------------
(* Copies: what the operators on them do.                                  *)

\* The copy is sound if value is what the database holds.
Sound(copy, value, life) ==
    /\ IsCopy(copy)
    /\ InUse(copy) => /\ copy.lag + copy.left <= life
                      /\ copy.fresh => copy.value = value

\* CopyOK compares with the database of the same state.
LEMMA SoundIsCopyOK ==
    ASSUME NEW copy, NEW k, NEW life
    PROVE  CopyOK(copy, k, life) <=> Sound(copy, Content(k), life)
  BY DEF CopyOK, Sound

\* No entry and no load in flight.
LEMMA NoCopySound ==
    ASSUME NEW value, NEW life
    PROVE  Sound(NoCopy, value, life) /\ ~InUse(NoCopy)
  BY DEF Sound, NoCopy, IsCopy, InUse

\* A copy with a value and nothing else.
LEMMA NoCopyWith ==
    ASSUME NEW v, NEW at, at = [NoCopy EXCEPT !.value = v]
    PROVE  at = [value |-> v, garbled |-> FALSE, left |-> 0,
                 fresh |-> TRUE, lag |-> 0, orphan |-> FALSE]
<1> DEFINE n == NoCopy
<1>1. n = [value |-> n.value, garbled |-> n.garbled, left |-> n.left,
           fresh |-> n.fresh, lag |-> n.lag, orphan |-> n.orphan]
  BY DEF NoCopy
<1>2. n.left = 0 /\ n.lag = 0 /\ n.fresh = TRUE /\ n.orphan = FALSE /\ n.garbled = FALSE
  BY DEF NoCopy
<1> HIDE DEF n
<1>3. at = [n EXCEPT !.value = v]
  BY DEF n
<1>4. at = [value |-> v, garbled |-> n.garbled, left |-> n.left,
            fresh |-> n.fresh, lag |-> n.lag, orphan |-> n.orphan]
  BY <1>1, <1>3
<1> QED
  BY <1>2, <1>4, Zenon

\* What is read now is what the database holds.
LEMMA ReadNowSound ==
    ASSUME NEW k
    PROVE  /\ Sound(ReadNow(k), Content(k), ServiceTimeout + 1)
           /\ InUse(ReadNow(k))
<1>1. ServiceTimeout \in Nat
  BY ViewerAssumption
<1>2. ReadNow(k) = [value |-> Content(k), garbled |-> FALSE, left |-> ServiceTimeout + 1,
                    fresh |-> TRUE, lag |-> 0, orphan |-> FALSE]
  <2> DEFINE at == [NoCopy EXCEPT !.value = Content(k)]
  <2>1. at = [value |-> Content(k), garbled |-> FALSE, left |-> 0,
              fresh |-> TRUE, lag |-> 0, orphan |-> FALSE]
    BY NoCopyWith, Zenon
  <2>2. ReadNow(k) = [at EXCEPT !.left = ServiceTimeout + 1]
    BY Zenon DEF ReadNow
  <2> HIDE DEF at
  <2> QED
    BY <2>1, <2>2
<1> QED
  BY <1>1, <1>2 DEF Sound, IsCopy, InUse

\* A change outdates a copy and keeps its age.
LEMMA OutdatedSound ==
    ASSUME NEW copy, NEW value, NEW life, Sound(copy, value, life), NEW other
    PROVE  /\ Sound(Outdated(copy), other, life)
           /\ InUse(Outdated(copy)) <=> InUse(copy)
  BY DEF Sound, Outdated, IsCopy, InUse

\* An abandoned entry keeps its contents and its age.
LEMMA AbandonedSound ==
    ASSUME NEW copy, NEW value, NEW life, Sound(copy, value, life)
    PROVE  Sound(Abandoned(copy), value, life)
  BY DEF Sound, Abandoned, IsCopy, InUse

\* What time adds to the lag it takes from the time to live.
LEMMA AgedSound ==
    ASSUME NEW copy, NEW value, NEW life \in Nat, Sound(copy, value, life)
    PROVE  /\ Sound(Aged(copy), value, life)
           /\ InUse(Aged(copy)) => InUse(copy)
<1>1. CASE copy.left <= 1
  BY <1>1, NoCopySound DEF Aged
<1>2. CASE ~(copy.left <= 1)
  <2>1. Aged(copy) = [value |-> copy.value, garbled |-> copy.garbled, left |-> copy.left - 1,
                      fresh |-> copy.fresh, lag |-> IF copy.fresh THEN 0 ELSE copy.lag + 1,
                      orphan |-> copy.orphan]
    BY <1>2 DEF Aged, Sound, IsCopy
  <2>2. copy.left \in Nat /\ copy.lag \in Nat /\ copy.left > 1
    BY <1>2 DEF Sound, IsCopy
  <2>3. copy.lag + copy.left <= life
    BY <2>2 DEF Sound, InUse
  <2>4. CASE copy.fresh
    <3>1. Aged(copy).lag = 0 /\ Aged(copy).left = copy.left - 1 /\ Aged(copy).fresh = copy.fresh
      BY <2>1, <2>4
    <3>2. IsCopy(Aged(copy))
      BY <2>1, <2>2, <2>4 DEF Sound, IsCopy
    <3>3. Aged(copy).value = value
      BY <2>1, <2>2, <2>4 DEF Sound, InUse
    <3> QED
      BY <3>1, <3>2, <3>3, <2>2, <2>3 DEF Sound, InUse
  <2>5. CASE ~copy.fresh
    BY <2>1, <2>2, <2>3, <2>5 DEF Sound, IsCopy, InUse
  <2> QED
    BY <2>4, <2>5
<1> QED
  BY <1>1, <1>2

\* A copy that is written in time becomes a sound entry.
LEMMA EntrySound ==
    ASSUME NEW copy, NEW value, Sound(copy, value, ServiceTimeout + 1), InUse(copy)
    PROVE  Sound(Entry(copy), value, CacheTTL + ServiceTimeout)
<1>1. CacheTTL \in Nat /\ ServiceTimeout \in Nat
  BY ViewerAssumption
<1>2. Entry(copy) = [value |-> copy.value, garbled |-> copy.garbled, left |-> CacheTTL,
                     fresh |-> copy.fresh, lag |-> copy.lag, orphan |-> ~copy.fresh]
  <2> DEFINE at == [copy EXCEPT !.left = CacheTTL]
  <2>1. at = [value |-> copy.value, garbled |-> copy.garbled, left |-> CacheTTL,
              fresh |-> copy.fresh, lag |-> copy.lag, orphan |-> copy.orphan]
    BY DEF Sound, IsCopy
  <2>2. Entry(copy) = [at EXCEPT !.orphan = ~copy.fresh]
    BY Zenon DEF Entry
  <2> HIDE DEF at
  <2>3. CASE copy.fresh = TRUE
    BY <2>1, <2>2, <2>3
  <2>4. CASE copy.fresh = FALSE
    BY <2>1, <2>2, <2>4
  <2> QED
    BY <2>3, <2>4 DEF Sound, IsCopy
<1>3. copy.lag \in Nat /\ copy.left \in Nat /\ copy.lag + copy.left <= ServiceTimeout + 1
      /\ copy.left > 0
  BY DEF Sound, IsCopy, InUse
<1>4. copy.lag + CacheTTL <= CacheTTL + ServiceTimeout
  BY <1>1, <1>3
<1> QED
  BY <1>1, <1>2, <1>3, <1>4 DEF Sound, IsCopy, InUse

\* A spoiled entry keeps its age.
LEMMA GarbledSound ==
    ASSUME NEW copy, NEW value, NEW life, Sound(copy, value, life),
           NEW spoiled, spoiled = [copy EXCEPT !.garbled = TRUE]
    PROVE  Sound(spoiled, value, life)
<1>1. spoiled.left = copy.left /\ spoiled.lag = copy.lag /\ spoiled.value = copy.value
  BY DEF Sound, IsCopy
<1>2. spoiled.fresh = copy.fresh /\ spoiled.orphan = copy.orphan
  BY DEF Sound, IsCopy
<1>3. spoiled.garbled = TRUE
  BY DEF Sound, IsCopy
<1>4. spoiled = [value |-> spoiled.value, garbled |-> spoiled.garbled, left |-> spoiled.left,
            fresh |-> spoiled.fresh, lag |-> spoiled.lag, orphan |-> spoiled.orphan]
  BY DEF Sound, IsCopy
<1>5. IsCopy(spoiled)
  BY <1>1, <1>2, <1>3, <1>4 DEF IsCopy, Sound
<1> QED
  BY <1>1, <1>2, <1>5 DEF Sound, InUse

-----------------------------------------------------------------------------
(* The phases of refreshCache.                                             *)

\* The inductive invariant: types, phases and ages.
IInv == Shapes /\ PhasesOK /\ AgeInv

\* Types and phases are the type invariant.
LEMMA TypeOKParts == TypeOK <=> Shapes /\ PhasesOK
  BY DEF TypeOK, Shapes, PhasesOK

\* It holds at the start.
LEMMA IInvInit == Init => IInv
<1> SUFFICES ASSUME Init PROVE IInv
  OBVIOUS
<1>1. Shapes
  BY ViewerAssumption DEF Init, Shapes, Status
<1>2. PhasesOK
  BY NoCopySound DEF Init, PhasesOK
<1>3. AgeInv
  BY NoCopySound, SoundIsCopyOK DEF Init, AgeInv
<1> QED
  BY <1>1, <1>2, <1>3 DEF IInv

\* The page of RefreshAll is a sound copy.
LEMMA PageSound ==
    ASSUME IInv, NEW i \in Instances
    PROVE  Sound(page[i], Content(cacheRoleKeys[refresh[i]]), ServiceTimeout + 1)
  BY SoundIsCopyOK DEF IInv, AgeInv

\* One step keeps the phases apart.
LEMMA PhasesStep ==
    ASSUME IInv, [Next]_vars
    PROVE  PhasesOK'
<1> USE ViewerAssumption DEF IInv, Shapes, PhasesOK
<1> HIDE DEF AgeInv
<1>0. ASSUME UNCHANGED <<todo, refresh, emptied, page>> PROVE PhasesOK'
  BY <1>0
<1>1. ASSUME NEW m \in Markets, NEW status \in Status, Change(m, status) PROVE PhasesOK'
  <2>1. \A i \in Instances : InUse(page'[i]) <=> InUse(page[i])
    BY <1>1, PageSound, OutdatedSound DEF Change
  <2> QED
    BY <1>1, <2>1 DEF Change
<1>2. ASSUME Tick PROVE PhasesOK'
  <2>1. \A i \in Instances : InUse(page'[i]) => InUse(page[i])
    <3>1. ServiceTimeout + 1 \in Nat
      OBVIOUS
    <3> QED
      BY <1>2, <3>1, PageSound, AgedSound DEF Tick
  <2> QED
    BY <1>2, <2>1 DEF Tick
<1>3. ASSUME NEW k \in Keys, Corrupt(k) \/ DropCorrupted(k) PROVE PhasesOK'
  BY <1>3, <1>0 DEF Corrupt, DropCorrupted, pollVars
<1>4. ASSUME NEW i \in Instances, NEW m \in Markets, loadMarket(i, m) \/ SetMarketByID(i, m)
      PROVE  PhasesOK'
  BY <1>4, <1>0 DEF loadMarket, StartLoad, SetMarketByID, pollVars
<1>5. ASSUME NEW i \in Instances, NEW m \in Markets, InvalidateByIDs(i, m) PROVE PhasesOK'
  BY <1>5 DEF InvalidateByIDs
<1>6. ASSUME NEW i \in Instances, NEW role \in Roles, tryLoadHeadPage(i, role) \/ warmHeadCache(i, role)
      PROVE  PhasesOK'
  BY <1>6, <1>0 DEF tryLoadHeadPage, StartLoad, warmHeadCache, pollVars
<1>7. ASSUME NEW i \in Instances, refreshCache(i) PROVE PhasesOK'
  BY <1>7 DEF refreshCache
<1>8. ASSUME NEW i \in Instances, RefreshRead(i) PROVE PhasesOK'
  <2>1. CASE page' = [page EXCEPT ![i] = ReadNow(cacheRoleKeys[refresh[i]])] /\ UNCHANGED <<refresh, emptied>>
    BY <1>8, <2>1 DEF RefreshRead
  <2>2. CASE refresh' = [refresh EXCEPT ![i] = 1] /\ emptied' = [emptied EXCEPT ![i] = TRUE]
             /\ UNCHANGED page
    BY <1>8, <2>2 DEF RefreshRead
  <2> QED
    BY <1>8, <2>1, <2>2 DEF RefreshRead
<1>9. ASSUME NEW i \in Instances, RefreshWrite(i) PROVE PhasesOK'
  <2>1. ~InUse(page'[i]) /\ \A j \in Instances \ {i} : page'[j] = page[j]
    BY <1>9, NoCopySound DEF RefreshWrite
  <2>2. refresh'[i] = 0 => ~emptied'[i]
    <3>1. emptied'[i] = (emptied[i] /\ refresh[i] # 3)
      BY <1>9, Zenon DEF RefreshWrite
    <3>2. refresh'[i] = IF refresh[i] = 3 THEN 0 ELSE refresh[i] + 1
      BY <1>9 DEF RefreshWrite
    <3>3. refresh[i] \in 0 .. 3
      OBVIOUS
    <3>4. emptied'[i] => refresh[i] # 3
      BY <3>1, Zenon
    <3> QED
      BY <3>2, <3>3, <3>4
  <2>3. todo[i] = {}
    BY <1>9 DEF RefreshWrite
  <2> QED
    BY <1>9, <2>1, <2>2, <2>3 DEF RefreshWrite
<1>10. ASSUME NEW i \in Instances, StopRefresh(i) PROVE PhasesOK'
  BY <1>10, NoCopySound DEF StopRefresh
<1>11. CASE UNCHANGED vars
  BY <1>11, <1>0 DEF vars, pollVars
<1> QED
  BY <1>1, <1>2, <1>3, <1>4, <1>5, <1>6, <1>7, <1>8, <1>9, <1>10, <1>11 DEF Next, RefreshFails, Crash
-----------------------------------------------------------------------------
(* Ages.                                                                   *)

\* The three parts of AgeInv, in terms of Sound.
CacheSound == \A k \in Keys : Sound(cache[k], Content(k), CacheTTL + ServiceTimeout)
LoadsSound == \A i \in Instances, k \in Keys : Sound(loads[i][k], Content(k), ServiceTimeout + 1)
PagesSound ==
    \A i \in Instances : Sound(page[i], Content(cacheRoleKeys[refresh[i]]), ServiceTimeout + 1)

\* AgeInv has these parts.
LEMMA AgeInvParts == AgeInv <=> CacheSound /\ LoadsSound /\ PagesSound
  BY SoundIsCopyOK DEF AgeInv, CacheSound, LoadsSound, PagesSound

\* What a key stands for changes with the rows only.
LEMMA ContentKept ==
    ASSUME UNCHANGED rows, NEW k
    PROVE  Content(k)' = Content(k)
  BY DEF Content

\* A step that leaves the table and the cache alone, or sets one entry soundly.
LEMMA CacheSet ==
    ASSUME Shapes, CacheSound, UNCHANGED rows, NEW k \in Keys, NEW copy,
           Sound(copy, Content(k), CacheTTL + ServiceTimeout),
           cache' = [cache EXCEPT ![k] = copy]
    PROVE  CacheSound'
<1> SUFFICES ASSUME NEW x \in Keys
             PROVE  Sound(cache'[x], Content(x)', CacheTTL + ServiceTimeout)
  BY DEF CacheSound
<1>1. cache'[x] = IF x = k THEN copy ELSE cache[x]
  BY DEF Shapes
<1> QED
  BY <1>1, ContentKept DEF CacheSound

\* Abandoning entries keeps their ages.
LEMMA CacheGivenUp ==
    ASSUME Shapes, CacheSound, UNCHANGED rows, NEW S, GivenUp(S)
    PROVE  CacheSound'
<1> SUFFICES ASSUME NEW x \in Keys
             PROVE  Sound(cache'[x], Content(x)', CacheTTL + ServiceTimeout)
  BY DEF CacheSound
<1>1. cache'[x] = IF x \in S THEN Abandoned(cache[x]) ELSE cache[x]
  BY DEF GivenUp
<1> QED
  BY <1>1, ContentKept, AbandonedSound DEF CacheSound

\* The cache and the table stay as they are.
LEMMA CacheKept ==
    ASSUME CacheSound, UNCHANGED <<rows, cache>>
    PROVE  CacheSound'
  BY ContentKept DEF CacheSound

\* A load begins with a sound copy or ends without one.
LEMMA LoadSet ==
    ASSUME Shapes, LoadsSound, UNCHANGED rows, NEW i \in Instances, NEW k \in Keys, NEW copy,
           Sound(copy, Content(k), ServiceTimeout + 1),
           loads' = [loads EXCEPT ![i][k] = copy]
    PROVE  LoadsSound'
<1> SUFFICES ASSUME NEW j \in Instances, NEW x \in Keys
             PROVE  Sound(loads'[j][x], Content(x)', ServiceTimeout + 1)
  BY DEF LoadsSound
<1>1. loads'[j][x] = IF j = i /\ x = k THEN copy ELSE loads[j][x]
  BY DEF Shapes
<1> QED
  BY <1>1, ContentKept DEF LoadsSound

\* The loads and the table stay as they are.
LEMMA LoadsKept ==
    ASSUME LoadsSound, UNCHANGED <<rows, loads>>
    PROVE  LoadsSound'
  BY ContentKept DEF LoadsSound

\* Only the page of one instance changes, and that soundly.
LEMMA PageSet ==
    ASSUME Shapes, PagesSound, UNCHANGED rows, NEW i \in Instances,
           \A j \in Instances \ {i} : page'[j] = page[j] /\ refresh'[j] = refresh[j],
           Sound(page'[i], Content(cacheRoleKeys[refresh'[i]]), ServiceTimeout + 1)
    PROVE  PagesSound'
<1> SUFFICES ASSUME NEW j \in Instances
             PROVE  Sound(page'[j], Content(cacheRoleKeys[refresh[j]])', ServiceTimeout + 1)
  BY DEF PagesSound
<1>1. Content(cacheRoleKeys[refresh[j]])' = Content(cacheRoleKeys[refresh'[j]])
  BY DEF Content
<1>2. CASE j = i
  BY <1>1, <1>2
<1>3. CASE j # i
  BY <1>1, <1>3 DEF PagesSound
<1> QED
  BY <1>2, <1>3

\* No page, its role and the table change.
LEMMA PagesKept ==
    ASSUME PagesSound, UNCHANGED <<rows, page, refresh>>
    PROVE  PagesSound'
<1> SUFFICES ASSUME NEW j \in Instances
             PROVE  Sound(page[j], Content(cacheRoleKeys[refresh[j]])', ServiceTimeout + 1)
  BY DEF PagesSound
<1>1. Content(cacheRoleKeys[refresh[j]])' = Content(cacheRoleKeys[refresh[j]])
  BY DEF Content
<1> QED
  BY <1>1 DEF PagesSound

\* One step keeps the ages.
LEMMA AgeStep ==
    ASSUME IInv, [Next]_vars
    PROVE  AgeInv'
<1> DEFINE Kept == CacheSound' /\ LoadsSound' /\ PagesSound'
<1>a. Shapes /\ PhasesOK /\ CacheSound /\ LoadsSound /\ PagesSound
  BY AgeInvParts DEF IInv
<1> USE <1>a
<1>n. ServiceTimeout + 1 \in Nat /\ CacheTTL + ServiceTimeout \in Nat
  BY ViewerAssumption
<1>1. ASSUME NEW m \in Markets, NEW status \in Status, Change(m, status) PROVE Kept
  <2>1. \A k \in Markets \ {m} : Content(k)' = Content(k)
    BY <1>1 DEF Change, Content, Shapes
  <2>2. ASSUME NEW k \in Keys PROVE Sound(cache'[k], Content(k)', CacheTTL + ServiceTimeout)
    <3>1. CASE k \in Markets \ {m}
      <4>1. cache'[k] = cache[k]
        BY <1>1, <3>1 DEF Change
      <4> QED
        BY <4>1, <2>1, <3>1 DEF CacheSound
    <3>2. CASE k \notin Markets \ {m}
      <4>1. cache'[k] = Outdated(cache[k]) \/ cache'[k] = Abandoned(Outdated(cache[k]))
        BY <1>1, <3>2 DEF Change
      <4> QED
        BY <4>1, OutdatedSound, AbandonedSound DEF CacheSound
    <3> QED
      BY <3>1, <3>2
  <2>3. ASSUME NEW i \in Instances, NEW k \in Keys
        PROVE  Sound(loads'[i][k], Content(k)', ServiceTimeout + 1)
    <3>1. loads'[i][k] = IF k \in Markets \ {m} THEN loads[i][k] ELSE Outdated(loads[i][k])
      BY <1>1 DEF Change
    <3> QED
      BY <3>1, <2>1, OutdatedSound DEF LoadsSound
  <2>4. ASSUME NEW i \in Instances
        PROVE  Sound(page'[i], Content(cacheRoleKeys[refresh[i]])', ServiceTimeout + 1)
    <3>1. page'[i] = Outdated(page[i])
      BY <1>1 DEF Change
    <3> QED
      BY <3>1, OutdatedSound DEF PagesSound
  <2> QED
    BY <2>2, <2>3, <2>4 DEF CacheSound, LoadsSound, PagesSound
<1>2. ASSUME Tick PROVE Kept
  <2>0. UNCHANGED rows /\ UNCHANGED refresh
    BY <1>2 DEF Tick
  <2>1. ASSUME NEW k \in Keys PROVE Sound(cache'[k], Content(k)', CacheTTL + ServiceTimeout)
    BY <1>2, <1>n, <2>0, ContentKept, AgedSound DEF Tick, CacheSound
  <2>2. ASSUME NEW i \in Instances, NEW k \in Keys
        PROVE  Sound(loads'[i][k], Content(k)', ServiceTimeout + 1)
    <3>1. loads'[i][k] = Aged(loads[i][k])
      BY <1>2 DEF Tick
    <3> QED
      BY <1>n, <2>0, <3>1, ContentKept, AgedSound DEF LoadsSound
  <2>3. ASSUME NEW i \in Instances
        PROVE  Sound(page'[i], Content(cacheRoleKeys[refresh[i]])', ServiceTimeout + 1)
    <3>1. page'[i] = Aged(page[i])
      BY <1>2 DEF Tick
    <3>2. Content(cacheRoleKeys[refresh[i]])' = Content(cacheRoleKeys[refresh[i]])
      BY <2>0 DEF Content
    <3> QED
      BY <1>n, <3>1, <3>2, AgedSound DEF PagesSound
  <2> QED
    BY <2>1, <2>2, <2>3 DEF CacheSound, LoadsSound, PagesSound
<1>3. ASSUME NEW k \in Keys, Corrupt(k) PROVE Kept
  <2>1. cache' = [cache EXCEPT ![k] = [cache[k] EXCEPT !.garbled = TRUE]]
    BY <1>3 DEF Corrupt
  <2>2. Sound([cache[k] EXCEPT !.garbled = TRUE], Content(k), CacheTTL + ServiceTimeout)
    BY GarbledSound DEF CacheSound
  <2>3. UNCHANGED <<rows, loads, page, refresh>>
    BY <1>3 DEF Corrupt, pollVars
  <2> QED
    BY <2>1, <2>2, <2>3, CacheSet, LoadsKept, PagesKept
<1>4. ASSUME NEW k \in Keys, DropCorrupted(k) PROVE Kept
  <2>1. UNCHANGED <<rows, loads, page, refresh>>
    BY <1>4 DEF DropCorrupted, pollVars
  <2> QED
    BY <1>4, <2>1, NoCopySound, CacheSet, LoadsKept, PagesKept DEF DropCorrupted
<1>5. ASSUME NEW i \in Instances, NEW k \in Keys, StartLoad(i, k) PROVE Kept
  <2>1. UNCHANGED <<rows, cache, page, refresh>>
    BY <1>5 DEF StartLoad, pollVars
  <2> QED
    BY <1>5, <2>1, ReadNowSound, CacheKept, LoadSet, PagesKept DEF StartLoad
<1>6. ASSUME NEW i \in Instances, NEW k \in Keys, InUse(loads[i][k]), EndLoad(i, k),
             UNCHANGED <<rows, pollVars>>,
             \/ cache' = [cache EXCEPT ![k] = Entry(loads[i][k])]
             \/ UNCHANGED cache
             \/ cache' = [cache EXCEPT ![k] = NoCopy]
      PROVE  Kept
  <2>1. UNCHANGED rows /\ UNCHANGED <<rows, page, refresh>>
    BY <1>6 DEF pollVars
  <2>2. LoadsSound'
    BY <1>6, <2>1, NoCopySound, LoadSet DEF EndLoad
  <2>3. Sound(Entry(loads[i][k]), Content(k), CacheTTL + ServiceTimeout)
    BY <1>6, EntrySound DEF LoadsSound
  <2>4. CacheSound'
    BY <1>6, <2>1, <2>3, NoCopySound, CacheSet, CacheKept
  <2> QED
    BY <2>1, <2>2, <2>4, PagesKept
<1>7. ASSUME NEW i \in Instances, NEW m \in Markets, InvalidateByIDs(i, m) PROVE Kept
  <2>1. m \in Keys /\ UNCHANGED <<rows, loads, page>>
    BY <1>7 DEF InvalidateByIDs, Keys
  <2>2. CacheSound'
    BY <1>7, <2>1, NoCopySound, AbandonedSound, CacheSet DEF InvalidateByIDs, CacheSound
  <2>3. ~InUse(page[i]) /\ IsCopy(page[i])
    BY <1>7 DEF InvalidateByIDs, PhasesOK, PagesSound, Sound
  <2>4. PagesSound'
    <3>1. \A j \in Instances \ {i} : page'[j] = page[j] /\ refresh'[j] = refresh[j]
      BY <1>7 DEF InvalidateByIDs, Shapes
    <3>2. Sound(page'[i], Content(cacheRoleKeys[refresh'[i]]), ServiceTimeout + 1)
      BY <2>1, <2>3 DEF Sound
    <3> QED
      BY <2>1, <3>1, <3>2, PageSet
  <2> QED
    BY <2>1, <2>2, <2>4, LoadsKept
<1>8. ASSUME UNCHANGED <<rows, cache, loads, page, refresh>> PROVE Kept
  BY <1>8, CacheKept, LoadsKept, PagesKept
<1>9. ASSUME NEW i \in Instances, RefreshRead(i) PROVE Kept
  <2>1. UNCHANGED rows /\ UNCHANGED <<rows, cache>> /\ UNCHANGED <<rows, loads>>
    BY <1>9 DEF RefreshRead
  <2>2. CASE page' = [page EXCEPT ![i] = ReadNow(cacheRoleKeys[refresh[i]])] /\ UNCHANGED refresh
    <3>1. page'[i] = ReadNow(cacheRoleKeys[refresh[i]]) /\ \A j \in Instances \ {i} : page'[j] = page[j]
      BY <2>2 DEF Shapes
    <3> QED
      BY <2>1, <2>2, <3>1, ReadNowSound, CacheKept, LoadsKept, PageSet
  <2>3. CASE refresh' = [refresh EXCEPT ![i] = 1] /\ UNCHANGED page
    <3>1. \A j \in Instances \ {i} : page'[j] = page[j] /\ refresh'[j] = refresh[j]
      BY <2>3 DEF Shapes
    <3>2. Sound(page'[i], Content(cacheRoleKeys[refresh'[i]]), ServiceTimeout + 1)
      BY <1>9, <2>3 DEF RefreshRead, PagesSound, Sound
    <3> QED
      BY <2>1, <3>1, <3>2, CacheKept, LoadsKept, PageSet
  <2> QED
    BY <1>9, <2>2, <2>3 DEF RefreshRead
<1>10. ASSUME NEW i \in Instances, RefreshWrite(i) PROVE Kept
  <2>0. refresh[i] \in 1 .. 3
    BY <1>10 DEF RefreshWrite, PhasesOK, Shapes
  <2>1. UNCHANGED rows /\ UNCHANGED <<rows, loads>> /\ cacheRoleKeys[refresh[i]] \in Keys
    BY <1>10, <2>0, RoleOrder DEF RefreshWrite, Keys
  <2>2. CacheSound'
    <3> DEFINE copy == IF emptied[i] THEN NoCopy ELSE Entry(page[i])
    <3>1. Sound(copy, Content(cacheRoleKeys[refresh[i]]), CacheTTL + ServiceTimeout)
      BY <1>10, NoCopySound, EntrySound DEF RefreshWrite, PagesSound
    <3>2. cache' = [cache EXCEPT ![cacheRoleKeys[refresh[i]]] = copy]
      BY <1>10 DEF RefreshWrite
    <3> HIDE DEF copy
    <3> QED
      BY <2>1, <3>1, <3>2, CacheSet
  <2>3. page'[i] = NoCopy /\ \A j \in Instances \ {i} : page'[j] = page[j] /\ refresh'[j] = refresh[j]
    BY <1>10 DEF RefreshWrite, Shapes
  <2> QED
    BY <2>1, <2>2, <2>3, NoCopySound, LoadsKept, PageSet
<1>11. ASSUME NEW i \in Instances, StopRefresh(i), UNCHANGED rows PROVE PagesSound'
  <2>1. page'[i] = NoCopy /\ \A j \in Instances \ {i} : page'[j] = page[j] /\ refresh'[j] = refresh[j]
    BY <1>11 DEF StopRefresh, Shapes
  <2> QED
    BY <1>11, <2>1, NoCopySound, PageSet
<1>12. ASSUME NEW i \in Instances, RefreshFails(i) PROVE Kept
  <2>1. UNCHANGED rows /\ UNCHANGED <<rows, loads>> /\ GivenUp(RolesLeft(i)) /\ StopRefresh(i)
    BY <1>12 DEF RefreshFails
  <2> QED
    BY <2>1, <1>11, CacheGivenUp, LoadsKept
<1>13. ASSUME NEW i \in Instances, Crash(i) PROVE Kept
  <2>1. UNCHANGED rows /\ StopRefresh(i) /\ \E S : GivenUp(S)
    BY <1>13 DEF Crash
  <2>2. CacheSound'
    BY <2>1, CacheGivenUp
  <2>3. LoadsSound'
    <3> SUFFICES ASSUME NEW j \in Instances, NEW x \in Keys
                 PROVE  Sound(loads'[j][x], Content(x)', ServiceTimeout + 1)
      BY DEF LoadsSound
    <3>1. loads'[j][x] = NoCopy \/ loads'[j][x] = loads[j][x]
      BY <1>13 DEF Crash, Shapes
    <3> QED
      BY <2>1, <3>1, NoCopySound, ContentKept DEF LoadsSound
  <2> QED
    BY <2>1, <2>2, <2>3, <1>11
<1>14. ASSUME NEW i \in Instances, NEW m \in Markets, loadMarket(i, m) \/ SetMarketByID(i, m) PROVE Kept
  BY <1>14, <1>5, <1>6 DEF loadMarket, SetMarketByID, Keys
<1>15. ASSUME NEW i \in Instances, NEW role \in Roles,
              tryLoadHeadPage(i, role) \/ warmHeadCache(i, role)
       PROVE  Kept
  BY <1>15, <1>5, <1>6 DEF tryLoadHeadPage, warmHeadCache, Keys
<1>16. Kept
  <2>1. CASE UNCHANGED vars
    BY <2>1, <1>8 DEF vars, pollVars
  <2>2. ASSUME NEW i \in Instances, refreshCache(i) PROVE Kept
    BY <2>2, <1>8 DEF refreshCache
  <2> HIDE DEF Kept
  <2> QED
    BY <1>1, <1>2, <1>3, <1>4, <1>7, <1>9, <1>10, <1>12, <1>13, <1>14, <1>15, <2>1, <2>2 DEF Next
<1>17. (CacheSound /\ LoadsSound /\ PagesSound)' => AgeInv'
  BY AgeInvParts, PTL
<1> QED
  BY <1>16, <1>17

-----------------------------------------------------------------------------
(* Theorems about types and ages.                                          *)

\* The inductive invariant holds in all reachable states.
LEMMA IInvHolds == Spec => []IInv
<1>1. IInv /\ [Next]_vars => IInv'
  <2> SUFFICES ASSUME IInv, [Next]_vars PROVE IInv'
    OBVIOUS
  <2>1. Shapes' /\ PhasesOK' /\ AgeInv'
    BY ShapesStep, PhasesStep, AgeStep DEF IInv
  <2> QED
    BY <2>1 DEF IInv
<1> QED
  BY <1>1, IInvInit, PTL DEF Spec

\* TypeOK for every number of instances and markets: RefreshAll starts when
\* InvalidateByIDs is done, and keeps no page when it has ended.
THEOREM TypeCorrect == Spec => []TypeOK
<1>1. IInv => TypeOK
  BY TypeOKParts DEF IInv
<1> QED
  BY <1>1, IInvHolds, PTL

\* StalenessBounded for every time to live and every timeout: no answer of
\* GetMarketByID or ViewMarkets from the cache is older than both together.
THEOREM AnswersAreRecent == Spec => []StalenessBounded
<1>1. IInv => StalenessBounded
  <2> SUFFICES ASSUME IInv PROVE StalenessBounded
    OBVIOUS
  <2>0. CacheTTL \in Nat /\ ServiceTimeout \in Nat
    BY ViewerAssumption
  <2>1. ASSUME NEW copy, NEW k, NEW life \in Nat, CopyOK(copy, k, life + 1)
        PROVE  HeldWithin(copy, k, life)
    BY <2>1 DEF CopyOK, IsCopy, InUse, HeldWithin
  <2>2. ASSUME NEW k \in Keys PROVE HeldWithin(cache[k], k, CacheTTL + ServiceTimeout - 1)
    <3>1. CacheTTL + ServiceTimeout - 1 \in Nat
      BY ViewerAssumption DEF ValidConfig
    <3>2. CopyOK(cache[k], k, (CacheTTL + ServiceTimeout - 1) + 1)
      <4>1. (CacheTTL + ServiceTimeout - 1) + 1 = CacheTTL + ServiceTimeout
        BY <2>0
      <4> QED
        BY <4>1 DEF IInv, AgeInv
    <3> QED
      BY <2>1, <3>1, <3>2
  <2>3. ASSUME NEW i \in Instances, NEW k \in Keys PROVE HeldWithin(loads[i][k], k, ServiceTimeout)
    BY <2>0, <2>1 DEF IInv, AgeInv
  <2> QED
    BY <2>2, <2>3 DEF StalenessBounded
<1> QED
  BY <1>1, IInvHolds, PTL
-----------------------------------------------------------------------------
(* Outdated entries.                                                       *)

\* An outdated entry that is not marked as nobody's.
Loose(copy) == InUse(copy) /\ ~copy.fresh /\ ~copy.orphan

\* StaleEntryHasReason says that such an entry will be refreshed.
LEMMA LooseParts == StaleEntryHasReason <=> \A k \in Keys : Loose(cache[k]) => WillBeRefreshed(k)
  BY DEF StaleEntryHasReason, Loose

\* Which operations on an entry can leave it loose.
LEMMA LooseCopies ==
    /\ ~Loose(NoCopy)
    /\ \A copy : IsCopy(copy) => /\ ~Loose(Entry(copy))
                                 /\ ~Loose(Abandoned(copy))
                                 /\ Loose(Aged(copy)) => Loose(copy)
                                 /\ Loose([copy EXCEPT !.garbled = TRUE]) => Loose(copy)
<1>1. ~Loose(NoCopy)
  BY NoCopySound DEF Loose
<1>2. ASSUME NEW copy, IsCopy(copy) PROVE ~Loose(Entry(copy))
  <2> DEFINE at == [copy EXCEPT !.left = CacheTTL]
  <2>1. at = [value |-> copy.value, garbled |-> copy.garbled, left |-> CacheTTL,
              fresh |-> copy.fresh, lag |-> copy.lag, orphan |-> copy.orphan]
    BY <1>2 DEF IsCopy
  <2>2. Entry(copy) = [at EXCEPT !.orphan = ~copy.fresh]
    BY Zenon DEF Entry
  <2> HIDE DEF at
  <2>3. CASE copy.fresh = TRUE
    BY <2>1, <2>2, <2>3 DEF Loose
  <2>4. CASE copy.fresh = FALSE
    BY <2>1, <2>2, <2>4 DEF Loose
  <2> QED
    BY <1>2, <2>3, <2>4 DEF IsCopy
<1>3. ASSUME NEW copy, IsCopy(copy) PROVE ~Loose(Abandoned(copy))
  BY <1>3 DEF Loose, Abandoned, IsCopy, InUse
<1>4. ASSUME NEW copy, IsCopy(copy), Loose(Aged(copy)) PROVE Loose(copy)
  <2>1. CASE copy.left <= 1
    BY <1>1, <1>4, <2>1 DEF Aged
  <2>2. CASE ~(copy.left <= 1)
    <3>1. Aged(copy) = [value |-> copy.value, garbled |-> copy.garbled, left |-> copy.left - 1,
                        fresh |-> copy.fresh, lag |-> IF copy.fresh THEN 0 ELSE copy.lag + 1,
                        orphan |-> copy.orphan]
      BY <1>4, <2>2 DEF Aged, IsCopy
    <3> QED
      BY <1>4, <2>2, <3>1 DEF Loose, InUse, IsCopy
  <2> QED
    BY <2>1, <2>2
<1>5. ASSUME NEW copy, IsCopy(copy), NEW spoiled, spoiled = [copy EXCEPT !.garbled = TRUE], Loose(spoiled)
      PROVE  Loose(copy)
  <2>1. spoiled.left = copy.left
    BY <1>5 DEF IsCopy
  <2>2. spoiled.fresh = copy.fresh /\ spoiled.orphan = copy.orphan
    BY <1>5 DEF IsCopy
  <2> QED
    BY <1>5, <2>1, <2>2 DEF Loose, InUse
<1> QED
  BY <1>1, <1>2, <1>3, <1>4, <1>5

\* RolesLeft in the three phases.
LeftOK ==
    \A i \in Instances :
        /\ RolesLeft(i) \subseteq Roles
        /\ todo[i] # {} => RolesLeft(i) = Roles
        /\ todo[i] = {} => /\ refresh[i] = 0 => RolesLeft(i) = {}
                           /\ refresh[i] = 1 => RolesLeft(i) = {Admin, Viewer, User}
                           /\ refresh[i] = 2 => RolesLeft(i) = {Viewer, User}
                           /\ refresh[i] = 3 => RolesLeft(i) = {User}

\* What RolesLeft is follows from the types.
LEMMA RolesLeftCases == Shapes => LeftOK
<1> SUFFICES ASSUME Shapes, NEW i \in Instances
             PROVE  /\ RolesLeft(i) \subseteq Roles
                    /\ todo[i] # {} => RolesLeft(i) = Roles
                    /\ todo[i] = {} => /\ refresh[i] = 0 => RolesLeft(i) = {}
                                       /\ refresh[i] = 1 => RolesLeft(i) = {Admin, Viewer, User}
                                       /\ refresh[i] = 2 => RolesLeft(i) = {Viewer, User}
                                       /\ refresh[i] = 3 => RolesLeft(i) = {User}
  BY DEF LeftOK
<1>1. refresh[i] \in 0 .. 3
  BY DEF Shapes
<1>2. \A role : role \in {cacheRoleKeys[n] : n \in {j \in 1 .. 3 : refresh[i] # 0 /\ refresh[i] <= j}}
         <=> \/ role = Admin /\ refresh[i] = 1
             \/ role = Viewer /\ refresh[i] \in {1, 2}
             \/ role = User /\ refresh[i] \in {1, 2, 3}
  BY <1>1, RoleOrder
<1> QED
  BY <1>1, <1>2 DEF RolesLeft, Roles

\* A step after which every refresh still comes that came before.
LEMMA ReasonsKept ==
    ASSUME UNCHANGED <<pending, todo, refresh>>, NEW k, WillBeRefreshed(k)
    PROVE  WillBeRefreshed(k)'
  BY DEF WillBeRefreshed, RolesLeft

\* One step leaves no loose entry that will not be refreshed.
LEMMA ReasonStep ==
    ASSUME IInv, IInv', StaleEntryHasReason, [Next]_vars
    PROVE  StaleEntryHasReason'
<1> SUFFICES ASSUME NEW k \in Keys, Loose(cache'[k]) PROVE WillBeRefreshed(k)'
  BY DEF StaleEntryHasReason, Loose
<1>a. Shapes /\ PhasesOK /\ LeftOK /\ LeftOK'
  <2>1. (Shapes => LeftOK)'
    BY RolesLeftCases, PTL
  <2> QED
    BY <2>1, RolesLeftCases DEF IInv
<1>b. /\ \A x \in Keys : IsCopy(cache[x])
      /\ \A i \in Instances, x \in Keys : IsCopy(loads[i][x])
      /\ \A i \in Instances : IsCopy(page[i])
  BY AgeInvParts DEF IInv, CacheSound, LoadsSound, PagesSound, Sound
<1>c. Loose(cache[k]) => WillBeRefreshed(k)
  BY LooseParts
<1> USE <1>a
<1>1. ASSUME NEW m \in Markets, NEW status \in Status, Change(m, status) PROVE WillBeRefreshed(k)'
  <2>1. PICK found \in SUBSET Instances :
           /\ pending' = [i \in Instances |-> IF i \in found THEN pending[i] \cup {m}
                                                            ELSE pending[i] \ {m}]
           /\ cache' = [x \in Keys |->
                 IF found = {}
                 THEN IF x \in Markets \ {m} THEN cache[x] ELSE Abandoned(Outdated(cache[x]))
                 ELSE IF x \in Markets \ {m} THEN cache[x] ELSE Outdated(cache[x])]
    BY <1>1 DEF Change
  <2>2. UNCHANGED <<todo, refresh>>
    BY <1>1 DEF Change
  <2>3. CASE k \in Markets \ {m}
    <3>1. Loose(cache[k])
      BY <2>1, <2>3
    <3>2. PICK i \in Instances : k \in pending[i] \cup todo[i] \cup RolesLeft(i)
      BY <1>c, <2>3, <3>1, ViewerAssumption DEF WillBeRefreshed
    <3>3. RolesLeft(i)' = RolesLeft(i)
      BY <2>2 DEF RolesLeft
    <3>4. k \in pending[i] => k \in pending'[i]
      BY <2>1, <2>3
    <3> QED
      BY <2>2, <3>2, <3>3, <3>4 DEF WillBeRefreshed
  <2>4. CASE k \notin Markets \ {m} /\ found # {}
    <3>1. PICK i \in found : TRUE
      BY <2>4
    <3>2. i \in Instances /\ m \in pending'[i] /\ (k = m \/ k \in Roles)
      BY <2>1, <2>4, <3>1 DEF Keys
    <3> QED
      BY <3>2 DEF WillBeRefreshed
  <2>5. CASE k \notin Markets \ {m} /\ found = {}
    <3>1. IsCopy(Outdated(cache[k]))
      BY OutdatedSound DEF IInv, Sound, AgeInv, CopyOK
    <3>2. cache'[k] = Abandoned(Outdated(cache[k]))
      BY <2>1, <2>5
    <3> QED
      BY <3>1, <3>2, LooseCopies
  <2> QED
    BY <2>3, <2>4, <2>5
<1>2. ASSUME Tick PROVE WillBeRefreshed(k)'
  <2>1. Loose(cache[k])
    BY <1>2, <1>b, LooseCopies DEF Tick
  <2> QED
    BY <1>2, <1>c, <2>1, ReasonsKept DEF Tick
<1>3. ASSUME NEW x \in Keys, Corrupt(x) \/ DropCorrupted(x) PROVE WillBeRefreshed(k)'
  <2>1. Loose(cache[k])
    <3>1. CASE k = x /\ Corrupt(x)
      <4>1. cache'[k] = [cache[k] EXCEPT !.garbled = TRUE]
        BY <3>1 DEF Corrupt, Shapes
      <4> QED
        BY <1>b, <4>1, LooseCopies
    <3>2. CASE k = x /\ DropCorrupted(x)
      BY <3>2, LooseCopies DEF DropCorrupted, Shapes
    <3>3. CASE k # x
      <4>1. cache'[k] = cache[k]
        BY <1>3, <3>3 DEF Corrupt, DropCorrupted, Shapes
      <4> QED
        BY <4>1
    <3> QED
      BY <1>3, <3>1, <3>2, <3>3
  <2>2. UNCHANGED <<pending, todo, refresh>>
    BY <1>3 DEF Corrupt, DropCorrupted, pollVars
  <2> QED
    BY <1>c, <2>1, <2>2, ReasonsKept
<1>4. ASSUME NEW i \in Instances, NEW x \in Keys, IsCopy(loads[i][x]), UNCHANGED pollVars,
             \/ cache' = [cache EXCEPT ![x] = Entry(loads[i][x])]
             \/ UNCHANGED cache
             \/ cache' = [cache EXCEPT ![x] = NoCopy]
      PROVE  WillBeRefreshed(k)'
  <2>1. Loose(cache[k])
    <3>1. k # x => cache'[k] = cache[k]
      BY <1>4 DEF Shapes
    <3>2. cache'[x] = Entry(loads[i][x]) \/ cache'[x] = cache[x] \/ cache'[x] = NoCopy
      BY <1>4 DEF Shapes
    <3>3. ~Loose(Entry(loads[i][x])) /\ ~Loose(NoCopy)
      BY <1>4, LooseCopies
    <3>4. CASE k = x
      BY <3>2, <3>3, <3>4
    <3> QED
      BY <3>1, <3>4
  <2> QED
    BY <1>4, <1>c, <2>1, ReasonsKept DEF pollVars
<1>5. ASSUME UNCHANGED <<cache, pending, todo, refresh>> PROVE WillBeRefreshed(k)'
  BY <1>5, <1>c, ReasonsKept
<1>6. ASSUME NEW i \in Instances, refreshCache(i) PROVE WillBeRefreshed(k)'
  <2>1. PICK j \in Instances : \/ k \in pending[j] \cup todo[j] \cup RolesLeft(j)
                               \/ k \in Roles /\ pending[j] # {}
    BY <1>6, <1>c DEF refreshCache, WillBeRefreshed
  <2>2. CASE j # i
    <3>1. pending'[j] = pending[j] /\ todo'[j] = todo[j] /\ RolesLeft(j)' = RolesLeft(j)
      BY <1>6, <2>2 DEF refreshCache, RolesLeft, Shapes
    <3> QED
      BY <2>1, <3>1 DEF WillBeRefreshed
  <2>3. CASE j = i
    <3>1. todo'[i] = pending[i] /\ pending[i] # {} /\ todo[i] = {} /\ refresh[i] = 0
      BY <1>6 DEF refreshCache, Shapes
    <3>2. RolesLeft(i)' = Roles /\ RolesLeft(i) = {}
      BY <3>1 DEF LeftOK
    <3> QED
      BY <2>1, <2>3, <3>1, <3>2 DEF WillBeRefreshed
  <2> QED
    BY <2>2, <2>3
<1>7. ASSUME NEW i \in Instances, NEW m \in Markets, InvalidateByIDs(i, m) PROVE WillBeRefreshed(k)'
  <2>1. k # m /\ Loose(cache[k])
    <3>1. IsCopy(cache[m])
      BY <1>b DEF Keys
    <3>2. cache'[m] = NoCopy \/ cache'[m] = Abandoned(cache[m])
      BY <1>7 DEF InvalidateByIDs, Shapes, Keys
    <3>3. \A x \in Keys \ {m} : cache'[x] = cache[x]
      BY <1>7 DEF InvalidateByIDs, Shapes, Keys
    <3> QED
      BY <3>1, <3>2, <3>3, LooseCopies
  <2>2. PICK j \in Instances : \/ k \in pending[j] \cup todo[j] \cup RolesLeft(j)
                               \/ k \in Roles /\ pending[j] # {}
    BY <1>c, <2>1 DEF WillBeRefreshed
  <2>3. UNCHANGED pending
    BY <1>7 DEF InvalidateByIDs
  <2>4. CASE j # i
    <3>1. todo'[j] = todo[j] /\ RolesLeft(j)' = RolesLeft(j)
      BY <1>7, <2>4 DEF InvalidateByIDs, RolesLeft, Shapes
    <3> QED
      BY <2>2, <2>3, <3>1 DEF WillBeRefreshed
  <2>5. CASE j = i
    <3>1. todo'[i] = todo[i] \ {m} /\ (todo'[i] = {} => refresh'[i] = 1)
      BY <1>7 DEF InvalidateByIDs, Shapes
    <3>2. RolesLeft(i)' = Roles
      BY <3>1 DEF LeftOK, Roles
    <3>3. RolesLeft(i) \subseteq Roles
      BY DEF LeftOK
    <3> QED
      BY <2>1, <2>2, <2>3, <2>5, <3>1, <3>2, <3>3 DEF WillBeRefreshed
  <2> QED
    BY <2>4, <2>5
<1>8. ASSUME NEW i \in Instances, RefreshRead(i) PROVE WillBeRefreshed(k)'
  <2>1. UNCHANGED <<cache, pending, todo>>
    BY <1>8 DEF RefreshRead
  <2>2. PICK j \in Instances : \/ k \in pending[j] \cup todo[j] \cup RolesLeft(j)
                               \/ k \in Roles /\ pending[j] # {}
    BY <1>c, <2>1 DEF WillBeRefreshed
  <2>3. RolesLeft(j) \subseteq RolesLeft(j)'
    <3>1. CASE refresh'[j] = refresh[j]
      BY <2>1, <3>1 DEF RolesLeft
    <3>2. CASE refresh'[j] = 1
      BY <2>1, <3>2 DEF LeftOK, Roles
    <3> QED
      BY <1>8, <3>1, <3>2 DEF RefreshRead, Shapes
  <2> QED
    BY <2>1, <2>2, <2>3 DEF WillBeRefreshed
<1>9. ASSUME NEW i \in Instances, RefreshWrite(i) PROVE WillBeRefreshed(k)'
  <2> DEFINE role == cacheRoleKeys[refresh[i]]
  <2>0. refresh[i] \in 1 .. 3 /\ todo[i] = {} /\ role \in Keys /\ UNCHANGED <<pending, todo>>
    BY <1>9, RoleOrder DEF RefreshWrite, PhasesOK, Shapes, Keys
  <2>1. k # role /\ Loose(cache[k])
    <3>1. cache'[role] = NoCopy \/ cache'[role] = Entry(page[i])
      BY <1>9, <2>0 DEF RefreshWrite, Shapes
    <3>2. \A x \in Keys \ {role} : cache'[x] = cache[x]
      BY <1>9, <2>0 DEF RefreshWrite, Shapes
    <3> HIDE DEF role
    <3>3. ~Loose(Entry(page[i])) /\ ~Loose(NoCopy)
      BY <1>b, LooseCopies
    <3>4. ~Loose(cache'[role])
      BY <3>1, <3>3
    <3>5. k # role
      BY <3>4
    <3> QED
      BY <3>2, <3>5
  <2>2. PICK j \in Instances : \/ k \in pending[j] \cup todo[j] \cup RolesLeft(j)
                               \/ k \in Roles /\ pending[j] # {}
    BY <1>c, <2>1 DEF WillBeRefreshed
  <2>3. RolesLeft(j) \ {role} \subseteq RolesLeft(j)'
    <3>1. CASE j # i
      BY <1>9, <2>0, <3>1 DEF RefreshWrite, RolesLeft, Shapes
    <3>2. CASE j = i
      <4>1. todo'[i] = {} /\ refresh'[i] = IF refresh[i] = 3 THEN 0 ELSE refresh[i] + 1
        BY <1>9, <2>0 DEF RefreshWrite, Shapes
      <4>2. CASE refresh[i] = 1
        BY <2>0, <3>2, <4>1, <4>2, RoleOrder DEF LeftOK
      <4>3. CASE refresh[i] = 2
        BY <2>0, <3>2, <4>1, <4>3, RoleOrder DEF LeftOK
      <4>4. CASE refresh[i] = 3
        BY <2>0, <3>2, <4>1, <4>4, RoleOrder DEF LeftOK
      <4> QED
        BY <2>0, <4>2, <4>3, <4>4
    <3> QED
      BY <3>1, <3>2
  <2> QED
    BY <2>0, <2>1, <2>2, <2>3 DEF WillBeRefreshed
<1>10. ASSUME NEW i \in Instances, NEW S, GivenUp(S), StopRefresh(i), todo[i] \cup RolesLeft(i) \subseteq S,
              \A j \in Instances \ {i} : pending'[j] = pending[j],
              pending[i] \ pending'[i] \subseteq S,
              pending'[i] = {} /\ pending[i] # {} => Roles \subseteq S
       PROVE  WillBeRefreshed(k)'
  <2>1. k \notin S /\ Loose(cache[k])
    BY <1>10, <1>b, LooseCopies DEF GivenUp
  <2>2. PICK j \in Instances : \/ k \in pending[j] \cup todo[j] \cup RolesLeft(j)
                               \/ k \in Roles /\ pending[j] # {}
    BY <1>c, <2>1 DEF WillBeRefreshed
  <2>3. CASE j # i
    <3>1. todo'[j] = todo[j] /\ RolesLeft(j)' = RolesLeft(j)
      BY <1>10, <2>3 DEF StopRefresh, RolesLeft, Shapes
    <3> QED
      BY <1>10, <2>2, <2>3, <3>1 DEF WillBeRefreshed
  <2>4. CASE j = i
    BY <1>10, <2>1, <2>2, <2>4 DEF WillBeRefreshed
  <2> QED
    BY <2>3, <2>4
<1>11. ASSUME NEW i \in Instances, RefreshFails(i) PROVE WillBeRefreshed(k)'
  <2>1. todo[i] = {} /\ UNCHANGED pending
    BY <1>11 DEF RefreshFails, PhasesOK
  <2> QED
    BY <1>10, <1>11, <2>1 DEF RefreshFails
<1>12. ASSUME NEW i \in Instances, Crash(i) PROVE WillBeRefreshed(k)'
  <2>1. PICK S \in SUBSET pending[i] :
          /\ pending' = [pending EXCEPT ![i] = S]
          /\ GivenUp(todo[i] \cup RolesLeft(i) \cup (pending[i] \ S)
                     \cup IF S = {} THEN Roles ELSE {})
    BY <1>12 DEF Crash
  <2>2. StopRefresh(i) /\ pending'[i] = S /\ \A j \in Instances \ {i} : pending'[j] = pending[j]
    BY <1>12, <2>1 DEF Crash, Shapes
  <2> DEFINE T == todo[i] \cup RolesLeft(i) \cup (pending[i] \ S) \cup IF S = {} THEN Roles ELSE {}
  <2>3. /\ todo[i] \cup RolesLeft(i) \subseteq T /\ pending[i] \ pending'[i] \subseteq T
        /\ pending'[i] = {} => Roles \subseteq T
    BY <2>2
  <2>4. GivenUp(T)
    BY <2>1
  <2> HIDE DEF T
  <2> QED
    BY <1>10, <2>2, <2>3, <2>4
<1>13. ASSUME NEW i \in Instances, NEW m \in Markets, loadMarket(i, m) \/ SetMarketByID(i, m)
       PROVE  WillBeRefreshed(k)'
  <2>1. m \in Keys /\ IsCopy(loads[i][m])
    BY <1>b DEF Keys
  <2> QED
    BY <1>13, <1>4, <1>5, <2>1 DEF loadMarket, StartLoad, SetMarketByID, pollVars
<1>14. ASSUME NEW i \in Instances, NEW role \in Roles, tryLoadHeadPage(i, role) \/ warmHeadCache(i, role)
       PROVE  WillBeRefreshed(k)'
  <2>1. role \in Keys /\ IsCopy(loads[i][role])
    BY <1>b DEF Keys
  <2> QED
    BY <1>14, <1>4, <1>5, <2>1 DEF tryLoadHeadPage, StartLoad, warmHeadCache, pollVars
<1>15. CASE UNCHANGED vars
  BY <1>15, <1>5 DEF vars, pollVars
<1> QED
  BY <1>1, <1>2, <1>3, <1>6, <1>7, <1>8, <1>9, <1>11, <1>12, <1>13, <1>14, <1>15 DEF Next

\* StaleEntryHasReason for every number of instances and markets: whatever
\* entry InvalidateByIDs and RefreshAll leave outdated was left by a load that
\* a change had overtaken, by an error or a death, or is outdated by a change
\* that no poller can read: a removal by hand, or a commit behind every cursor.
THEOREM EveryStaleEntryHasReason == Spec => []StaleEntryHasReason
<1>1. Init => StaleEntryHasReason
  BY NoCopySound DEF Init, StaleEntryHasReason
<1>2. IInv /\ IInv' /\ StaleEntryHasReason /\ [Next]_vars => StaleEntryHasReason'
  BY ReasonStep
<1> QED
  BY <1>1, <1>2, IInvHolds, PTL DEF Spec

-----------------------------------------------------------------------------
(* Pages: what a client collects by following next_offset.                 *)

\* Markets of S before m.
Before(S, m) == {k \in S : k < m}

\* A market has fewer markets before it than there are, and fewer than any
\* later one.
LEMMA BeforeGrows ==
    ASSUME NEW S \in SUBSET Nat, IsFiniteSet(S), NEW m \in S
    PROVE  /\ Cardinality(Before(S, m)) \in 0 .. Cardinality(S) - 1
           /\ \A n \in S : n < m => Cardinality(Before(S, n)) < Cardinality(Before(S, m))
<1>1. ASSUME NEW A \in SUBSET S, NEW B \in SUBSET A, A # B
      PROVE  /\ Cardinality(A) \in Nat /\ Cardinality(B) \in Nat
             /\ Cardinality(B) < Cardinality(A)
  <2>1. IsFiniteSet(A) /\ IsFiniteSet(B)
    BY FS_Subset
  <2>2. Cardinality(B) <= Cardinality(A) /\ Cardinality(B) # Cardinality(A)
    BY <1>1, <2>1, FS_Subset
  <2> QED
    BY <2>1, <2>2, FS_CardinalityType
<1>2. Before(S, m) \in SUBSET S /\ Before(S, m) # S
  BY DEF Before
<1>3. Cardinality(Before(S, m)) \in 0 .. Cardinality(S) - 1
  BY <1>1, <1>2
<1>4. ASSUME NEW n \in S, n < m PROVE Cardinality(Before(S, n)) < Cardinality(Before(S, m))
  <2>1. \A k \in S : k \in Nat /\ (k < n => k < m)
    BY <1>4
  <2>2. Before(S, n) \in SUBSET Before(S, m)
    BY <2>1 DEF Before
  <2>3. n \in Before(S, m) /\ n \notin Before(S, n)
    BY <1>4 DEF Before
  <2> QED
    BY <1>1, <1>2, <2>2, <2>3
<1> QED
  BY <1>3, <1>4

\* Every place in the order is taken by exactly one market.
LEMMA OrderedPlaces ==
    ASSUME NEW S \in SUBSET Nat, IsFiniteSet(S)
    PROVE  \A n \in 1 .. Cardinality(S) :
              Ordered(S)[n] \in S /\ Cardinality(Before(S, Ordered(S)[n])) = n - 1
<1> DEFINE C == Cardinality(S)
           rank == [m \in S |-> Cardinality(Before(S, m))]
<1>1. C \in Nat
  BY FS_CardinalityType
<1>2. rank \in [S -> 0 .. C - 1]
  BY BeforeGrows
<1>3. \A m, n \in S : rank[m] = rank[n] => m = n
  <2> SUFFICES ASSUME NEW m \in S, NEW n \in S, m # n PROVE rank[m] # rank[n]
    OBVIOUS
  <2>1. m < n \/ n < m
    OBVIOUS
  <2>2. rank[m] \in Nat /\ rank[n] \in Nat
    BY <1>1, <1>2
  <2> QED
    BY <2>1, <2>2, BeforeGrows
<1>4. rank \in Injection(S, 0 .. C - 1)
  BY <1>2, <1>3 DEF Injection, IsInjective
<1>5. IsFiniteSet(0 .. C - 1) /\ Cardinality(0 .. C - 1) = C
  <2> HIDE DEF C
  <2>1. 0 \in Int /\ C - 1 \in Int
    BY <1>1
  <2>2. IsFiniteSet(0 .. C - 1) /\ Cardinality(0 .. C - 1) = IF 0 > C - 1 THEN 0 ELSE (C - 1) - 0 + 1
    BY <2>1, FS_Interval
  <2> QED
    BY <1>1, <2>2
<1>6. rank \in Surjection(S, 0 .. C - 1)
  BY <1>4, <1>5, FS_Injection
<1>7. ASSUME NEW n \in 1 .. C
      PROVE  Ordered(S)[n] \in S /\ Cardinality(Before(S, Ordered(S)[n])) = n - 1
  <2>1. n - 1 \in 0 .. C - 1
    BY <1>1
  <2>2. \E m \in S : rank[m] = n - 1
    BY <1>6, <2>1 DEF Surjection
  <2>3. \E m \in S : Cardinality({k \in S : k < m}) = n - 1
    BY <2>2 DEF Before
  <2>4. Ordered(S)[n] = CHOOSE m \in S : Cardinality({k \in S : k < m}) = n - 1
    BY DEF Ordered
  <2> QED
    BY <2>3, <2>4 DEF Before
<1> QED
  BY <1>7

\* The order has every market of S, once, and a later place holds a later market.
LEMMA OrderedIsOrder ==
    ASSUME NEW S \in SUBSET Nat, IsFiniteSet(S)
    PROVE  /\ Cardinality(S) \in Nat
           /\ Ordered(S) \in [1 .. Cardinality(S) -> S]
           /\ \A m \in S : \E n \in 1 .. Cardinality(S) : Ordered(S)[n] = m
           /\ \A i, j \in 1 .. Cardinality(S) : i < j => Ordered(S)[i] < Ordered(S)[j]
<1>1. Cardinality(S) \in Nat
  BY FS_CardinalityType
<1>2. Ordered(S) \in [1 .. Cardinality(S) -> S]
  BY OrderedPlaces DEF Ordered
<1>3. ASSUME NEW m \in S, NEW n \in S, Cardinality(Before(S, m)) = Cardinality(Before(S, n))
      PROVE  m = n
  <2>1. Cardinality(Before(S, m)) \in Nat
    BY <1>1, BeforeGrows
  <2>2. m < n \/ n < m \/ m = n
    OBVIOUS
  <2> QED
    BY <1>3, <2>1, <2>2, BeforeGrows
<1>4. ASSUME NEW m \in S PROVE \E n \in 1 .. Cardinality(S) : Ordered(S)[n] = m
  <2>1. Cardinality(Before(S, m)) \in 0 .. Cardinality(S) - 1
    BY BeforeGrows
  <2>2. PICK n \in 1 .. Cardinality(S) : n - 1 = Cardinality(Before(S, m))
    <3>1. Cardinality(Before(S, m)) + 1 \in 1 .. Cardinality(S)
      BY <1>1, <2>1
    <3> QED
      BY <2>1, <3>1
  <2>3. Ordered(S)[n] \in S /\ Cardinality(Before(S, Ordered(S)[n])) = n - 1
    BY OrderedPlaces
  <2> QED
    BY <1>3, <2>2, <2>3
<1>5. ASSUME NEW i \in 1 .. Cardinality(S), NEW j \in 1 .. Cardinality(S), i < j
      PROVE  Ordered(S)[i] < Ordered(S)[j]
  <2> DEFINE m == Ordered(S)[i]
             n == Ordered(S)[j]
  <2>1. m \in S /\ n \in S /\ Cardinality(Before(S, m)) = i - 1 /\ Cardinality(Before(S, n)) = j - 1
    BY OrderedPlaces
  <2> HIDE DEF m, n
  <2>2. m # n
    BY <1>1, <1>5, <2>1
  <2>3. ~(n < m)
    <3> SUFFICES ASSUME n < m PROVE FALSE
      OBVIOUS
    <3>1. Cardinality(Before(S, n)) < Cardinality(Before(S, m))
      BY <2>1, BeforeGrows
    <3> QED
      BY <1>1, <1>5, <2>1, <3>1
  <2>4. m < n
    BY <2>1, <2>2, <2>3
  <2> QED
    BY <2>4 DEF m, n
<1> QED
  BY <1>1, <1>2, <1>4, <1>5

\* Of the numbers in a set of natural numbers one is the least.
LEMMA LeastNat ==
    ASSUME NEW S \in SUBSET Nat, S # {}
    PROVE  \E n \in S : \A m \in S : n <= m
<1> DEFINE Less == {ss \in Nat \X Nat : ss[1] < ss[2]}
<1>1. IsWellFoundedOn(Less, Nat)
  BY NatLessThanWellFounded DEF OpToRel
<1>2. \A x, y \in Nat : <<y, x>> \in Less <=> y < x
  OBVIOUS
<1> HIDE DEF Less
<1>3. PICK x \in S : \A y \in S : ~(<<y, x>> \in Less)
  BY <1>1, WFMin
<1>4. ASSUME NEW y \in S PROVE x <= y
  <2>1. x \in Nat /\ y \in Nat
    OBVIOUS
  <2>2. ~(y < x)
    BY <1>2, <1>3, <2>1
  <2> QED
    BY <2>1, <2>2
<1> QED
  BY <1>4

\* A function on 1 .. n is a sequence of n elements.
LEMMA FunctionIsSeq ==
    ASSUME NEW n \in Nat, NEW S, NEW f \in [1 .. n -> S]
    PROVE  f \in Seq(S) /\ Len(f) = n
  OBVIOUS

\* The rows a role may see, and how many there are.
Visible(role) == {m \in Markets : Selected(role, rows[m])}
Count(role) == Cardinality(Visible(role))

\* The n-th row of a role in the order of the table.
Row(role, n) == <<Ordered(Visible(role))[n], rows[Ordered(Visible(role))[n]]>>
AllRows(role) == {Row(role, n) : n \in Nat}

\* n rows after the first offset ones.
Slice(role, offset, n) == [j \in 1 .. n |-> Row(role, offset + j)]

\* There are finitely many rows, no more than markets.
LEMMA CountType ==
    ASSUME NEW role
    PROVE  /\ Count(role) \in Nat /\ Count(role) <= Cardinality(Markets)
           /\ Cardinality(Markets) \in Nat
           /\ IsFiniteSet(Visible(role)) /\ Visible(role) \in SUBSET Nat
<1>1. IsFiniteSet(Markets) /\ Markets \subseteq Nat
  BY ViewerAssumption
<1>2. Visible(role) \in SUBSET Markets
  BY DEF Visible
<1> QED
  BY <1>1, <1>2, FS_Subset, FS_CardinalityType DEF Count

\* A slice is a sequence of rows.
LEMMA SliceIsSeq ==
    ASSUME NEW role, NEW offset \in Nat, NEW n \in Nat
    PROVE  /\ Slice(role, offset, n) \in Seq(AllRows(role))
           /\ Len(Slice(role, offset, n)) = n
           /\ \A j \in 1 .. n : Slice(role, offset, n)[j] = Row(role, offset + j)
<1>1. Slice(role, offset, n) \in [1 .. n -> AllRows(role)]
  BY DEF Slice, AllRows
<1> QED
  BY <1>1, FunctionIsSeq DEF Slice

\* Two slices that follow each other are one.
LEMMA SlicesJoin ==
    ASSUME NEW role, NEW offset \in Nat, NEW a \in Nat, NEW b \in Nat
    PROVE  Slice(role, offset, a) \o Slice(role, offset + a, b) = Slice(role, offset, a + b)
<1> DEFINE s == Slice(role, offset, a)
           t == Slice(role, offset + a, b)
           u == Slice(role, offset, a + b)
<1>1. /\ s \in Seq(AllRows(role)) /\ t \in Seq(AllRows(role)) /\ u \in Seq(AllRows(role))
      /\ Len(s) = a /\ Len(t) = b /\ Len(u) = a + b
      /\ \A j \in 1 .. a : s[j] = Row(role, offset + j)
      /\ \A j \in 1 .. b : t[j] = Row(role, (offset + a) + j)
      /\ \A j \in 1 .. a + b : u[j] = Row(role, offset + j)
  <2>1. offset + a \in Nat /\ a + b \in Nat
    OBVIOUS
  <2>2. s \in Seq(AllRows(role)) /\ Len(s) = a /\ \A j \in 1 .. a : s[j] = Row(role, offset + j)
    BY SliceIsSeq
  <2>3. /\ t \in Seq(AllRows(role)) /\ Len(t) = b
        /\ \A j \in 1 .. b : t[j] = Row(role, (offset + a) + j)
    BY <2>1, SliceIsSeq
  <2>4. /\ u \in Seq(AllRows(role)) /\ Len(u) = a + b
        /\ \A j \in 1 .. a + b : u[j] = Row(role, offset + j)
    BY <2>1, SliceIsSeq
  <2> QED
    BY <2>2, <2>3, <2>4
<1> HIDE DEF s, t, u
<1>2. /\ s \o t \in Seq(AllRows(role)) /\ Len(s \o t) = a + b
      /\ \A i \in 1 .. a + b : (s \o t)[i] = IF i <= a THEN s[i] ELSE t[i - a]
  BY <1>1, ConcatProperties
<1>3. ASSUME NEW i \in 1 .. a + b PROVE (s \o t)[i] = u[i]
  <2>1. CASE i <= a
    BY <1>1, <1>2, <2>1
  <2>2. CASE i > a
    <3>1. i - a \in 1 .. b /\ (offset + a) + (i - a) = offset + i
      BY <2>2
    <3> QED
      BY <1>1, <1>2, <2>2, <3>1
  <2>3. i <= a \/ i > a
    OBVIOUS
  <2> QED
    BY <2>1, <2>2, <2>3
<1>4. s \o t = u
  BY <1>1, <1>2, <1>3, SeqEqual
<1> QED
  BY <1>4 DEF s, t, u

\* The beginning of a slice.
LEMMA SliceStart ==
    ASSUME NEW role, NEW offset \in Nat, NEW n \in Nat, NEW a \in Nat, a <= n
    PROVE  SubSeq(Slice(role, offset, n), 1, a) = Slice(role, offset, a)
<1> DEFINE s == Slice(role, offset, n)
           t == Slice(role, offset, a)
<1>1. /\ t \in Seq(AllRows(role)) /\ Len(t) = a
      /\ \A j \in 1 .. a : t[j] = Row(role, offset + j)
      /\ s \in Seq(AllRows(role)) /\ Len(s) = n
      /\ \A j \in 1 .. n : s[j] = Row(role, offset + j)
  BY SliceIsSeq
<1> HIDE DEF s, t
<1>2. \A i \in 1 .. a : s[i] \in AllRows(role)
  BY <1>1
<1>3. /\ SubSeq(s, 1, a) \in Seq(AllRows(role)) /\ Len(SubSeq(s, 1, a)) = a
      /\ \A i \in 1 .. a : SubSeq(s, 1, a)[i] = s[i]
  <2>1. /\ SubSeq(s, 1, a) \in Seq(AllRows(role))
        /\ Len(SubSeq(s, 1, a)) = IF 1 <= a THEN a - 1 + 1 ELSE 0
        /\ \A i \in 1 .. a - 1 + 1 : SubSeq(s, 1, a)[i] = s[1 + i - 1]
    BY <1>2, SubSeqProperties
  <2> QED
    BY <2>1
<1>4. SubSeq(s, 1, a) = t
  BY <1>1, <1>3, SeqEqual
<1> QED
  BY <1>4 DEF s, t

\* Rows from an offset to the end.
Remaining(role, offset) == IF offset < Count(role) THEN Count(role) - offset ELSE 0

\* A query answers the rows after the offset, one more than the limit if it can.
LEMMA PageIsSlice ==
    ASSUME NEW role, NEW limit \in Nat, NEW offset \in Nat
    PROVE  GetMarketsPage(rows, role, limit, offset) =
              Slice(role, offset, IF limit < Remaining(role, offset) THEN limit + 1
                                  ELSE Remaining(role, offset))
<1> DEFINE L == Count(role)
           n == IF limit < Remaining(role, offset) THEN limit + 1 ELSE Remaining(role, offset)
           last == IF offset + limit + 1 < L THEN offset + limit + 1 ELSE L
<1>1. L \in Nat
  BY CountType
<1>2. Len(Ordered(Visible(role))) = L
  <2>1. Ordered(Visible(role)) \in [1 .. L -> Visible(role)]
    BY CountType, OrderedIsOrder DEF Count
  <2> HIDE DEF L
  <2> QED
    BY <1>1, <2>1, FunctionIsSeq
<1>3. GetMarketsPage(rows, role, limit, offset) = [j \in 1 .. last - offset |-> Row(role, offset + j)]
  BY <1>2, Zenon DEF GetMarketsPage, Row, Visible
<1>4. 1 .. last - offset = 1 .. n
  <2> HIDE DEF L
  <2>1. Remaining(role, offset) = IF offset < L THEN L - offset ELSE 0
    BY DEF Remaining, L
  <2>2. \/ last - offset = n
        \/ last - offset \in Int /\ last - offset < 1 /\ n = 0
    BY <1>1, <2>1
  <2> HIDE DEF last, n
  <2> QED
    BY <2>2
<1> QED
  BY <1>3, <1>4, Zenon DEF Slice

\* What buildPageResponse makes of rows that reach the end, or past the limit.
LEMMA ResponseIsSlice ==
    ASSUME NEW role, NEW limit \in Nat \ {0}, NEW offset \in Nat, NEW n \in Nat,
           n <= Remaining(role, offset), n > limit \/ n = Remaining(role, offset)
    PROVE  LET answer == buildPageResponse(Slice(role, offset, n), limit, offset)
               more == limit < Remaining(role, offset)
           IN  /\ answer.hasMore = more
               /\ answer.nextOffset = IF more THEN offset + limit ELSE 0
               /\ answer.markets = Slice(role, offset, IF more THEN limit ELSE Remaining(role, offset))
<1> DEFINE s == Slice(role, offset, n)
           R == Remaining(role, offset)
<1>1. Len(s) = n
  BY SliceIsSeq
<1>2. R \in Nat
  BY CountType DEF Remaining
<1> HIDE DEF s, R
<1>3. Len(s) > limit <=> limit < R
  BY <1>1, <1>2 DEF R
<1>4. CASE limit < R
  <2>1. limit \in Nat /\ limit <= n
    BY <1>1, <1>3, <1>4
  <2>2. SubSeq(s, 1, limit) = Slice(role, offset, limit)
    BY <2>1, SliceStart DEF s
  <2> QED
    BY <1>3, <1>4, <2>2 DEF buildPageResponse, s, R
<1>5. CASE ~(limit < R)
  <2>1. n = R
    BY <1>2, <1>5 DEF R
  <2> QED
    BY <1>3, <1>5, <2>1 DEF buildPageResponse, s, R
<1> QED
  BY <1>4, <1>5

\* The answer of ViewMarkets is the next slice, and says whether that was the
\* last, also when the page comes from the cache.
LEMMA AnswerIsSlice ==
    ASSUME NEW role, NEW asked \in Nat, NEW offset \in Nat
    PROVE  LET answer == ViewMarkets(role, asked, offset, HeadPage(rows, role))
               limit == normalizeLimit(asked)
               more == limit < Remaining(role, offset)
           IN  /\ limit \in Nat \ {0}
               /\ answer.hasMore = more
               /\ answer.nextOffset = IF more THEN offset + limit ELSE 0
               /\ answer.markets = Slice(role, offset, IF more THEN limit ELSE Remaining(role, offset))
<1> DEFINE limit == normalizeLimit(asked)
           R == Remaining(role, offset)
           n == IF limit < R THEN limit + 1 ELSE R
           h == IF CacheLimit + 1 < R THEN CacheLimit + 2 ELSE R
<1>1. limit \in Nat \ {0}
  BY ViewerAssumption DEF normalizeLimit, ValidConfig
<1>2. R \in Nat
  BY CountType DEF Remaining
<1>3. CacheLimit \in Nat
  BY ViewerAssumption
<1> HIDE DEF limit, R
<1>4. CASE offset = 0 /\ limit <= CacheLimit
  <2>1. HeadPage(rows, role) = Slice(role, offset, h)
    BY <1>3, <1>4, PageIsSlice DEF HeadPage, R
  <2>2. h \in Nat /\ h <= R /\ (h > limit \/ h = R)
    BY <1>1, <1>2, <1>3, <1>4
  <2>3. ViewMarkets(role, asked, offset, HeadPage(rows, role)) =
           buildPageResponse(Slice(role, offset, h), limit, offset)
    BY <1>4, <2>1 DEF ViewMarkets, limit
  <2> HIDE DEF h
  <2> QED
    BY <1>1, <2>2, <2>3, ResponseIsSlice DEF R, limit
<1>5. CASE ~(offset = 0 /\ limit <= CacheLimit)
  <2>1. GetMarketsPage(rows, role, limit, offset) = Slice(role, offset, n)
    BY <1>1, PageIsSlice DEF R
  <2>2. n \in Nat /\ n <= R /\ (n > limit \/ n = R)
    BY <1>1, <1>2
  <2>3. ViewMarkets(role, asked, offset, HeadPage(rows, role)) =
           buildPageResponse(Slice(role, offset, n), limit, offset)
    BY <1>5, <2>1 DEF ViewMarkets, limit
  <2> HIDE DEF n
  <2> QED
    BY <1>1, <2>2, <2>3, ResponseIsSlice DEF R, limit
<1> QED
  BY <1>4, <1>5

\* One step of Walk: the page at the offset, and what f has for the next one.
Collected(role, asked, f, offset) ==
    LET answer == ViewMarkets(role, asked, offset, HeadPage(rows, role))
    IN  answer.markets \o IF answer.hasMore THEN f[answer.nextOffset] ELSE << >>

\* The offsets of Walk.
Offsets == 0 .. Cardinality(Markets) + MaxLimit

\* At every offset the page and the slice after it make up the slice at it.
LEMMA CollectedIsSlice ==
    ASSUME NEW role, NEW asked \in Nat, NEW offset \in Offsets, NEW f,
           \A o \in Offsets : o > offset => f[o] = Slice(role, o, Remaining(role, o))
    PROVE  Collected(role, asked, f, offset) = Slice(role, offset, Remaining(role, offset))
<1> DEFINE answer == ViewMarkets(role, asked, offset, HeadPage(rows, role))
           limit == normalizeLimit(asked)
           R == Remaining(role, offset)
           rest == R - limit
<1>1. offset \in Nat /\ Count(role) \in Nat /\ R \in Nat
  BY CountType, ViewerAssumption DEF Remaining, Offsets
<1>2. /\ limit \in Nat \ {0}
      /\ answer.hasMore = (limit < R)
      /\ answer.nextOffset = IF limit < R THEN offset + limit ELSE 0
      /\ answer.markets = Slice(role, offset, IF limit < R THEN limit ELSE R)
  BY <1>1, AnswerIsSlice
<1>3. Collected(role, asked, f, offset) =
         answer.markets \o IF answer.hasMore THEN f[answer.nextOffset] ELSE << >>
  BY DEF Collected
<1> HIDE DEF answer, limit
<1>4. CASE limit < R
  <2>1. /\ limit \in Nat /\ offset + limit \in Offsets /\ offset + limit > offset
        /\ Remaining(role, offset + limit) = rest
    BY <1>1, <1>2, <1>4, CountType, ViewerAssumption DEF Remaining, Offsets
  <2>2. f[offset + limit] = Slice(role, offset + limit, rest)
    BY <2>1
  <2>3. rest \in Nat /\ limit + rest = R
    BY <1>1, <1>4, <2>1
  <2> HIDE DEF rest, R
  <2>4. Slice(role, offset, limit) \o Slice(role, offset + limit, rest) = Slice(role, offset, limit + rest)
    <3>1. offset \in Nat /\ limit \in Nat /\ rest \in Nat
      BY <1>1, <2>1, <2>3
    <3> QED
      BY <3>1, SlicesJoin, ZenonT(60)
  <2> QED
    BY <1>2, <1>3, <1>4, <2>2, <2>3, <2>4 DEF R
<1>5. CASE ~(limit < R)
  <2>1. Slice(role, offset, R) \in Seq(AllRows(role))
    BY <1>1, SliceIsSeq
  <2>2. Slice(role, offset, R) \o << >> = Slice(role, offset, R)
    BY <2>1, ConcatEmptySeq
  <2> QED
    BY <1>2, <1>3, <1>5, <2>2
<1> QED
  BY <1>4, <1>5

\* Following next_offset from any offset collects all rows after it: only the
\* slices satisfy the recursion of Walk.
LEMMA OnlySlices ==
    ASSUME NEW role, NEW asked \in Nat, NEW f,
           f = [offset \in Offsets |-> Collected(role, asked, f, offset)]
    PROVE  f = [offset \in Offsets |-> Slice(role, offset, Remaining(role, offset))]
<1> DEFINE N == Cardinality(Markets) + MaxLimit
           Right(o) == f[o] = Slice(role, o, Remaining(role, o))
           Wrong == {o \in Offsets : ~Right(o)}
           Distances == {N - o : o \in Wrong}
<1>1. N \in Nat /\ Offsets = 0 .. N
  BY CountType, ViewerAssumption DEF Offsets
<1>2. ASSUME NEW offset \in Offsets, \A o \in Offsets : o > offset => Right(o)
      PROVE  Right(offset)
  <2>1. Collected(role, asked, f, offset) = Slice(role, offset, Remaining(role, offset))
    BY <1>2, CollectedIsSlice
  <2>2. f[offset] = Collected(role, asked, f, offset)
    BY Zenon
  <2> QED
    BY <2>1, <2>2
<1>3. Wrong \subseteq 0 .. N /\ \A o \in Offsets : o \notin Wrong <=> Right(o)
  BY <1>1
<1> HIDE DEF Right, Wrong, N
<1>4. Wrong = {}
  <2> SUFFICES ASSUME Wrong # {} PROVE FALSE
    OBVIOUS
  <2>1. \A o \in Wrong : N - o \in Nat
    BY <1>1, <1>3
  <2>2. Distances \in SUBSET Nat /\ Distances # {}
    BY <2>1
  <2> HIDE DEF Distances
  <2>3. PICK n \in Distances : \A m \in Distances : n <= m
    BY <2>2, LeastNat
  <2>4. PICK offset \in Wrong : n = N - offset
    BY <2>3 DEF Distances
  <2>5. \A o \in Wrong : ~(o > offset)
    <3> SUFFICES ASSUME NEW o \in Wrong, o > offset PROVE FALSE
      OBVIOUS
    <3>1. N - o \in Distances
      BY DEF Distances
    <3>2. N - offset <= N - o
      BY <2>3, <2>4, <3>1
    <3>3. o \in Int /\ offset \in Int
      BY <1>1, <1>3
    <3> QED
      BY <1>1, <3>2, <3>3
  <2>6. offset \in Offsets /\ ~Right(offset)
    BY <1>1, <1>3, <2>4
  <2>7. \A o \in Offsets : o > offset => Right(o)
    BY <1>3, <2>5
  <2> QED
    BY <1>2, <2>6, <2>7
<1>5. \A o \in Offsets : Right(o)
  BY <1>3, <1>4
<1> QED
  BY <1>5, Zenon DEF Right

\* A client that follows next_offset collects exactly the rows it may see, in
\* the order of the table.
LEMMA WalkIsOrdered ==
    ASSUME NEW role, NEW asked \in Nat
    PROVE  Walk(role, asked, HeadPage(rows, role)) = Ordered(Visible(role))
<1> DEFINE from == CHOOSE f : f = [offset \in Offsets |-> Collected(role, asked, f, offset)]
           slices == [offset \in Offsets |-> Slice(role, offset, Remaining(role, offset))]
<1>1. slices = [offset \in Offsets |-> Collected(role, asked, slices, offset)]
  <2>1. ASSUME NEW offset \in Offsets
        PROVE  Collected(role, asked, slices, offset) = Slice(role, offset, Remaining(role, offset))
    <3>1. \A o \in Offsets : slices[o] = Slice(role, o, Remaining(role, o))
      BY Zenon
    <3> HIDE DEF slices
    <3> QED
      BY <3>1, CollectedIsSlice
  <2> QED
    BY <2>1, Zenon
<1>2. from = [offset \in Offsets |-> Collected(role, asked, from, offset)]
  <2> HIDE DEF slices
  <2> QED
    BY <1>1, Zenon
<1>3. Walk(role, asked, HeadPage(rows, role)) = [j \in 1 .. Len(from[0]) |-> from[0][j][1]]
  BY Zenon DEF Walk, Collected, Offsets
<1> HIDE DEF from
<1>4. from = slices
  BY <1>2, OnlySlices
<1>5. 0 \in Offsets /\ Count(role) \in Nat
  BY CountType, ViewerAssumption DEF Offsets
<1>6. from[0] = Slice(role, 0, Count(role))
  <2>1. Remaining(role, 0) = Count(role)
    BY <1>5 DEF Remaining
  <2>2. from[0] = Slice(role, 0, Remaining(role, 0))
    BY <1>4, <1>5
  <2> QED
    BY <2>1, <2>2
<1>7. /\ Len(from[0]) = Count(role)
      /\ \A j \in 1 .. Count(role) : from[0][j] = Row(role, j)
  <2>1. 0 \in Nat /\ Count(role) \in Nat
    BY <1>5
  <2>2. /\ Len(Slice(role, 0, Count(role))) = Count(role)
        /\ \A j \in 1 .. Count(role) : Slice(role, 0, Count(role))[j] = Row(role, 0 + j)
    BY <2>1, SliceIsSeq
  <2>3. \A j \in 1 .. Count(role) : 0 + j = j
    BY <2>1
  <2> QED
    BY <1>6, <2>2, <2>3
<1>8. [j \in 1 .. Len(from[0]) |-> from[0][j][1]] = [j \in 1 .. Count(role) |-> Ordered(Visible(role))[j]]
  BY <1>7 DEF Row
<1>9. Ordered(Visible(role)) = [j \in 1 .. Count(role) |-> Ordered(Visible(role))[j]]
  BY CountType, OrderedIsOrder DEF Count
<1> QED
  BY <1>3, <1>8, <1>9

\* WalkFindsAll for every number of markets, every configuration of limits and
\* every limit a client may ask for: no market is skipped or repeated between
\* two pages, nor between the head page in the cache and the pages after it.
THEOREM WalkIsComplete == Spec => []WalkFindsAll
<1>1. IInv => WalkFindsAll
  <2> SUFFICES ASSUME IInv, NEW roles \in SUBSET Roles \ {{}}, NEW asked \in 0 .. MaxLimit + 1,
                      NEW role, role = effectiveUserRole(roles),
                      InUse(cache[role]), cache[role].fresh, NEW walk,
                      walk = Walk(role, asked, cache[role].value)
               PROVE  /\ Range(walk) = {m \in Markets : rows[m] # "absent" /\ MayAccess(role, rows[m])}
                      /\ \A i, j \in DOMAIN walk : i < j => walk[i] < walk[j]
    BY DEF WalkFindsAll
  <2>1. role \in Roles /\ role \in Keys /\ role \notin Markets
    BY ViewerAssumption DEF effectiveUserRole, Roles, Keys
  <2>2. cache[role].value = HeadPage(rows, role)
    <3>1. CopyOK(cache[role], role, CacheTTL + ServiceTimeout)
      BY <2>1 DEF IInv, AgeInv
    <3> QED
      BY <2>1, <3>1 DEF CopyOK, Content
  <2>3. asked \in Nat
    BY ViewerAssumption
  <2>4. walk = Ordered(Visible(role))
    BY <2>2, <2>3, WalkIsOrdered
  <2>5. Visible(role) = {m \in Markets : rows[m] # "absent" /\ MayAccess(role, rows[m])}
    BY <2>1, ViewerAssumption DEF Visible, Selected, MayAccess, Roles
  <2>6. /\ walk \in [1 .. Count(role) -> Visible(role)]
        /\ \A m \in Visible(role) : \E n \in 1 .. Count(role) : walk[n] = m
        /\ \A i, j \in 1 .. Count(role) : i < j => walk[i] < walk[j]
    BY <2>4, CountType, OrderedIsOrder DEF Count
  <2>7. DOMAIN walk = 1 .. Count(role)
    BY <2>6, Zenon
  <2>8. Range(walk) = Visible(role)
    <3>1. Range(walk) = {walk[n] : n \in 1 .. Count(role)}
      BY <2>7, Zenon DEF Range
    <3>2. \A n \in 1 .. Count(role) : walk[n] \in Visible(role)
      BY <2>6, Zenon
    <3>3. ASSUME NEW m \in Visible(role) PROVE m \in {walk[n] : n \in 1 .. Count(role)}
      <4>1. PICK n \in 1 .. Count(role) : walk[n] = m
        BY <2>6, Zenon
      <4> QED
        BY <4>1
    <3>4. {walk[n] : n \in 1 .. Count(role)} \subseteq Visible(role)
      BY <3>2
    <3> QED
      BY <3>1, <3>3, <3>4
  <2> QED
    BY <2>5, <2>6, <2>7, <2>8, Zenon
<1> QED
  BY <1>1, IInvHolds, PTL
=============================================================================
