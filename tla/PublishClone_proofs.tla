-------------------------- MODULE PublishClone_proofs -------------------------
(***************************************************************************)
(* Theorems about PublishClone, for all numbers of publishers and all      *)
(* bounds.                                                                 *)
(***************************************************************************)
EXTENDS PublishClone, TLAPS

USE DEF repo, clone, procs, analyst

-------------------------------------------------------------------------------
(* Types, versions and the data part.                                      *)
Labels == {"off", "lock", "fetch", "check", "reset", "stamp", "write", "validate",
           "add", "commit", "sync", "push", "release"}

\* Pushes are counted from the start of the loop.
Tries ==
  \A p \in Proc :
    /\ pc[p] \in {"off", "lock", "fetch", "check", "reset", "stamp", "write", "validate",
                  "add", "commit"} => attempt[p] = 0
    /\ pc[p] = "sync" => attempt[p] < MaxAttempts

\* A number of commits stands for one content.
Versions ==
  /\ rver = head.ver => head.base = remote
  /\ rver = origin.ver => origin.content = remote

\* No publisher writes the data: the clone has one version of it, which is never
\* ahead of the remote nor behind what the sweep was refreshed to.
DataPart ==
  /\ \A c \in {index, tree, head.base} : c["data"] = head.content["data"]
  /\ head.base["data"] <= origin.content["data"]
  /\ origin.content["data"] <= remote["data"]
  /\ 1 <= head.base["data"] /\ remote["data"] <= 1 + MaxData
  /\ sweep # NoSweep => sweep <= tree["data"]

Core == TypeOK /\ Tries /\ Versions /\ DataPart

LEMMA Bounds ==
  /\ {MaxData, MaxVersion, MaxRejects, MaxOutages, MaxCrashes, Cap} \subseteq Nat
  /\ Cap = 1 + MaxData + MaxVersion
  /\ MaxAttempts \in Nat \ {0}
BY CloneAssumption DEF Cap

LEMMA OwnsPart == \A p : Owns(p) \in Part /\ Owns(p) # "data"
BY DEF Owns, Part

LEMMA SpendType ==
  ASSUME TypeOK, NEW b \in {"rejects", "outages", "crashes"}, Spend(b)
  PROVE  budget' \in [rejects : 0 .. MaxRejects, outages : 0 .. MaxOutages,
                      crashes : 0 .. MaxCrashes]
BY Bounds DEF TypeOK, Spend

LEMMA CoreInit == Init => Core
<1> SUFFICES ASSUME Init PROVE Core
  OBVIOUS
<1>1. Fresh \in Content /\ Fresh["data"] = 1
  BY Bounds DEF Fresh, Content, Part
<1>2. TypeOK
  BY Bounds, <1>1 DEF Init, TypeOK
<1>3. Tries /\ Versions
  BY Bounds DEF Init, Tries, Versions
<1>4. DataPart
  BY Bounds, <1>1 DEF Init, DataPart
<1> QED BY <1>2, <1>3, <1>4 DEF Core

\* A step that touches neither the clone nor the remote.
LEMMA ProcStep ==
  ASSUME Core, NEW p \in Proc, NEW l \in Labels, Goto(p, l),
         UNCHANGED <<repo, clone, attempt, mine, analyst, claimed>>,
         plock' \in Proc \cup {NoProc}, got' \in [Proc -> BOOLEAN],
         budget' \in [rejects : 0 .. MaxRejects, outages : 0 .. MaxOutages,
                      crashes : 0 .. MaxCrashes],
         \/ l = "release"
         \/ l \notin {"sync"} /\ attempt[p] = 0
  PROVE  Core'
<1>1. TypeOK'
  BY DEF Core, TypeOK, Goto, Labels
<1>2. Tries'
  BY DEF Core, TypeOK, Tries, Goto
<1> QED BY <1>1, <1>2 DEF Core, Versions, DataPart

\* The steps of git that move the clone.
LEMMA FetchCore ==
  ASSUME Core, NEW p \in Proc, Fetch(p)
  PROVE  Core'
<1>1. UNCHANGED <<repo, head, index, tree, plock, got, attempt, mine, analyst,
                  claimed>> /\ pc[p] = "fetch"
  BY DEF Fetch
<1>2. PICK l \in {"reset", "check", "release"} : Goto(p, l)
  BY DEF Fetch
<1>3. \/ origin' = [ver |-> rver, content |-> remote] /\ budget' = budget
      \/ UNCHANGED origin /\ Spend("outages")
  BY DEF Fetch
<1>4. /\ budget' \in [rejects : 0 .. MaxRejects, outages : 0 .. MaxOutages,
                      crashes : 0 .. MaxCrashes]
      /\ origin' \in [ver : 0 .. rver, content : Content]
      /\ rver = origin'.ver => origin'.content = remote
      /\ head.base["data"] <= origin'.content["data"]
      /\ origin'.content["data"] <= remote["data"]
  <2>1. CASE origin' = [ver |-> rver, content |-> remote] /\ budget' = budget
    <3>1. remote["data"] \in Nat /\ head.base["data"] \in Nat
          /\ origin.content["data"] \in Nat
      BY Bounds DEF Core, TypeOK, Content, Part
    <3> QED BY <2>1, <3>1 DEF Core, TypeOK, DataPart
  <2>2. CASE UNCHANGED origin /\ Spend("outages")
    <3>1. TypeOK
      BY DEF Core
    <3>2. budget' \in [rejects : 0 .. MaxRejects, outages : 0 .. MaxOutages,
                       crashes : 0 .. MaxCrashes]
      BY <2>2, <3>1, SpendType
    <3> QED BY <2>2, <3>2 DEF Core, TypeOK, DataPart, Versions
  <2> QED BY <1>3, <2>1, <2>2
<1>5. TypeOK'
  BY <1>1, <1>2, <1>4 DEF Core, TypeOK, Goto
<1>6. Tries'
  BY <1>1, <1>2 DEF Core, Tries, TypeOK, Goto
<1>7. Versions' /\ DataPart'
  BY <1>1, <1>4 DEF Core, Versions, DataPart
<1> QED BY <1>5, <1>6, <1>7 DEF Core

LEMMA ResetCore ==
  ASSUME Core, NEW p \in Proc, Reset(p)
  PROVE  Core'
<1>1. /\ UNCHANGED <<repo, origin, plock, got, attempt, mine, analyst, claimed,
                     budget>>
      /\ pc[p] = "reset"
  BY DEF Reset
<1>2. CASE Blocked
  <2>1. Goto(p, "release") /\ UNCHANGED <<head, index, tree>>
    BY <1>2 DEF Reset
  <2> QED BY <1>1, <2>1, ProcStep DEF Core, TypeOK, Labels
<1>3. CASE ~Blocked
  <2>1. /\ head' = [ver |-> origin.ver, base |-> origin.content,
                    content |-> origin.content]
        /\ index' = [q \in Part |->
             IF index[q] = head.content[q] THEN origin.content[q] ELSE index[q]]
        /\ tree' = [q \in Part |->
             IF Dirty(q) THEN tree[q] ELSE origin.content[q]]
    BY <1>3 DEF Reset
  <2>2. PICK l \in {"stamp", "write"} : Goto(p, l)
    BY <1>3 DEF Reset
  <2>3. /\ \A c \in {origin.content, index, tree, remote} : c \in [Part -> 0 .. Cap]
        /\ origin.ver \in 0 .. rver
    BY DEF Core, TypeOK, Content
  <2>4. TypeOK'
    <3>1. index' \in Content /\ tree' \in Content
      BY <2>1, <2>3 DEF Content
    <3>2. head' \in [ver : 0 .. rver, base : Content, content : Content]
      BY <2>1, <2>3 DEF Content
    <3> QED BY <1>1, <2>2, <3>1, <3>2 DEF Core, TypeOK, Goto
  <2>5. Tries'
    BY <1>1, <2>2 DEF Core, Tries, TypeOK, Goto
  <2>6. Versions'
    BY <1>1, <2>1 DEF Core, Versions
  <2>7. DataPart'
    <3>1. "data" \in Part /\ ~Dirty("data") /\ index["data"] = head.content["data"]
      BY DEF Part, Dirty, Core, DataPart
    <3>2. /\ index'["data"] = origin.content["data"]
          /\ tree'["data"] = origin.content["data"]
      BY <2>1, <3>1
    <3>3. \A c \in {origin.content, remote, tree} : c["data"] \in Nat
      BY <2>3, <3>1, Bounds
    <3>4. tree["data"] <= origin.content["data"] /\ tree["data"] = head.base["data"]
      BY <3>1 DEF Core, DataPart
    <3>5. sweep # NoSweep => sweep \in Nat
      BY Bounds DEF Core, TypeOK
    <3> QED BY <1>1, <2>1, <3>2, <3>3, <3>4, <3>5 DEF Core, DataPart
  <2> QED BY <2>4, <2>5, <2>6, <2>7 DEF Core
<1> QED BY <1>2, <1>3

LEMMA SyncCore ==
  ASSUME Core, NEW p \in Proc, Sync(p)
  PROVE  Core'
<1>1. /\ UNCHANGED <<repo, plock, got, mine, analyst, claimed>>
      /\ pc[p] = "sync" /\ attempt' = [attempt EXCEPT ![p] = @ + 1]
  BY DEF Sync
<1>2. /\ budget' \in [rejects : 0 .. MaxRejects, outages : 0 .. MaxOutages,
                      crashes : 0 .. MaxCrashes]
      /\ origin' \in [ver : 0 .. rver, content : Content]
      /\ rver = origin'.ver => origin'.content = remote
      /\ head.base["data"] <= origin'.content["data"]
      /\ origin'.content["data"] <= remote["data"]
  <2>1. CASE origin' = [ver |-> rver, content |-> remote] /\ budget' = budget
    <3>1. remote["data"] \in Nat /\ head.base["data"] \in Nat
          /\ origin.content["data"] \in Nat
      BY Bounds DEF Core, TypeOK, Content, Part
    <3> QED BY <2>1, <3>1 DEF Core, TypeOK, DataPart
  <2>2. CASE UNCHANGED origin /\ Spend("outages")
    <3>1. TypeOK
      BY DEF Core
    <3>2. budget' \in [rejects : 0 .. MaxRejects, outages : 0 .. MaxOutages,
                       crashes : 0 .. MaxCrashes]
      BY <2>2, <3>1, SpendType
    <3> QED BY <2>2, <3>2 DEF Core, TypeOK, DataPart, Versions
  <2> QED BY <2>1, <2>2 DEF Sync
<1>3. attempt' \in [Proc -> 0 .. MaxAttempts]
  BY <1>1, Bounds DEF Core, Tries, TypeOK
<1>4. CASE Goto(p, "release") /\ UNCHANGED <<head, index, tree>>
  <2>1. TypeOK'
    BY <1>1, <1>2, <1>3, <1>4 DEF Core, TypeOK, Goto
  <2>2. Tries'
    BY <1>1, <1>4 DEF Core, Tries, TypeOK, Goto
  <2>3. Versions' /\ DataPart'
    BY <1>1, <1>2, <1>4 DEF Core, Versions, DataPart
  <2> QED BY <2>1, <2>2, <2>3 DEF Core
<1>5. CASE /\ head' = [ver |-> origin'.ver, base |-> origin'.content,
                       content |-> Merged(origin'.content)]
           /\ index' = head'.content /\ tree' = head'.content
           /\ Goto(p, "push")
  <2>1. Merged(origin'.content) \in Content
    BY <1>2 DEF Merged, Content, Core, TypeOK
  <2>2. TypeOK'
    BY <1>1, <1>2, <1>3, <1>5, <2>1 DEF Core, TypeOK, Goto
  <2>3. Tries'
    BY <1>1, <1>5 DEF Core, Tries, TypeOK, Goto
  <2>4. Versions'
    BY <1>1, <1>2, <1>5 DEF Core, Versions
  <2>5. Merged(origin'.content)["data"] = origin'.content["data"]
    BY DEF Merged, Ours, Part, Core, DataPart
  <2>6. /\ head.base["data"] \in Nat /\ origin'.content["data"] \in Nat
        /\ remote["data"] \in Nat /\ tree["data"] = head.base["data"]
        /\ sweep # NoSweep => sweep \in Nat
    BY <1>2, Bounds DEF Core, TypeOK, Content, Part, DataPart
  <2>7. DataPart'
    BY <1>1, <1>2, <1>5, <2>5, <2>6 DEF Core, DataPart
  <2> QED BY <2>2, <2>3, <2>4, <2>7 DEF Core
<1> QED BY <1>4, <1>5 DEF Sync

LEMMA PushCore ==
  ASSUME Core, NEW p \in Proc, Push(p)
  PROVE  Core'
<1>1. /\ UNCHANGED <<index, tree, plock, got, attempt, mine, analyst>>
      /\ pc[p] = "push"
  BY DEF Push
<1>2. budget' \in [rejects : 0 .. MaxRejects, outages : 0 .. MaxOutages,
                   crashes : 0 .. MaxCrashes]
  <2>1. TypeOK
    BY DEF Core
  <2>2. Spend("outages") \/ budget' = budget
    BY DEF Push
  <2>3. CASE Spend("outages") BY <2>1, <2>3, SpendType
  <2>4. CASE budget' = budget BY <2>1, <2>4 DEF TypeOK
  <2> QED BY <2>2, <2>3, <2>4
<1>3. head.ver = rver => head.base = remote
  BY DEF Core, Versions
\* A push that lands leaves the data as it is.
<1>4. ASSUME head.ver = rver, Lands
      PROVE  /\ remote' \in Content /\ rver' \in Nat
             /\ (rver' = rver /\ remote' = remote) \/ rver' = rver + 1
             /\ remote' = head.content /\ remote'["data"] = remote["data"]
             /\ head.content["data"] = remote["data"]
  BY <1>3, <1>4 DEF Lands, Core, TypeOK, DataPart
<1>5. CASE head.ver = rver /\ Accepted(p)
  <2>1. Lands
    BY <1>5 DEF Accepted
  <2>2. /\ origin' = [ver |-> rver', content |-> head.content]
        /\ head' = [ver |-> rver', base |-> head.content, content |-> head.content]
        /\ claimed' = [claimed EXCEPT ![Owns(p)] = AtLeast(@, mine[p])]
        /\ Goto(p, "release")
    BY <1>5 DEF Accepted
  <2>3. claimed' \in Content
    BY <2>2, OwnsPart DEF Core, TypeOK, Content, AtLeast
  <2>4. rver' \in Nat /\ rver' \in 0 .. rver' /\ head.content \in Content
    BY <1>4, <1>5, <2>1 DEF Core, TypeOK
  <2>5. TypeOK'
    BY <1>1, <1>2, <1>4, <1>5, <2>1, <2>2, <2>3, <2>4 DEF Core, TypeOK, Goto
  <2>6. Tries'
    BY <1>1, <2>2 DEF Core, Tries, TypeOK, Goto
  <2>7. Versions'
    BY <1>4, <1>5, <2>1, <2>2 DEF Versions
  <2>8. remote["data"] \in Nat
    BY Bounds DEF Core, TypeOK, Content, Part
  <2>9. DataPart'
    BY <1>1, <1>4, <1>5, <2>1, <2>2, <2>8, Bounds DEF Core, DataPart
  <2> QED BY <2>5, <2>6, <2>7, <2>9 DEF Core
<1>6. CASE Rejected(p) /\ (UNCHANGED repo \/ (head.ver = rver /\ Lands))
  <2>1. UNCHANGED <<origin, head, claimed>>
    BY <1>6 DEF Rejected
  <2>2. PICK l \in {"sync", "release"} :
          /\ Goto(p, l)
          /\ l = "sync" => attempt[p] < MaxAttempts
    BY <1>6 DEF Rejected
  <2>3. /\ remote' \in Content /\ rver' \in Nat /\ rver <= rver'
        /\ rver' = rver => remote' = remote
        /\ remote'["data"] = remote["data"]
    BY <1>4, <1>6 DEF Core, TypeOK
  <2>4. /\ origin' \in [ver : 0 .. rver', content : Content]
        /\ head' \in [ver : 0 .. rver', base : Content, content : Content]
    <3>1. /\ origin \in [ver : 0 .. rver, content : Content] /\ rver \in Nat
          /\ head \in [ver : 0 .. rver, base : Content, content : Content]
      BY DEF Core, TypeOK
    <3>2. \A v \in 0 .. rver : v \in 0 .. rver'
      BY <2>3, <3>1
    <3> QED BY <2>1, <3>1, <3>2
  <2>4a. pc' \in [Proc -> Labels]
    BY <2>2 DEF Core, TypeOK, Goto, Labels
  <2>5. TypeOK'
    <3>1. /\ {remote', index', tree', local', claimed'} \subseteq Content
          /\ plock' \in Proc \cup {NoProc} /\ got' \in [Proc -> BOOLEAN]
          /\ attempt' \in [Proc -> 0 .. MaxAttempts]
          /\ mine' \in [Proc -> 0 .. Cap] /\ sweep' \in 1 .. Cap \cup {NoSweep}
      BY <1>1, <2>1, <2>3 DEF Core, TypeOK
    <3> QED BY <1>2, <2>3, <2>4, <2>4a, <3>1 DEF TypeOK, Labels
  <2>6. Tries'
    BY <1>1, <2>2 DEF Core, Tries, TypeOK, Goto
  <2>7. Versions'
    <3>1. origin.ver <= rver /\ head.ver <= rver /\ origin.ver \in Nat
          /\ head.ver \in Nat /\ rver \in Nat
      BY DEF Core, TypeOK
    <3> QED BY <2>1, <2>3, <3>1 DEF Core, Versions
  <2>8. DataPart'
    BY <1>1, <2>1, <2>3 DEF Core, DataPart
  <2> QED BY <2>5, <2>6, <2>7, <2>8 DEF Core
<1> QED BY <1>5, <1>6 DEF Push

\* The steps that write the working tree, the index and the commit.
LEMMA ContentCore ==
  ASSUME Core, NEW p \in Proc, Write(p) \/ Add(p) \/ Commit(p)
  PROVE  Core'
<1>1. /\ UNCHANGED <<repo, origin, plock, got, attempt, analyst, claimed>>
      /\ pc[p] \in {"write", "add", "commit"}
  BY DEF Write, Add, Commit
<1>2. PICK l \in {"validate", "commit", "sync", "release"} : Goto(p, l)
  BY DEF Write, Add, Commit
<1>3. budget' \in [rejects : 0 .. MaxRejects, outages : 0 .. MaxOutages,
                   crashes : 0 .. MaxCrashes]
  <2>1. TypeOK
    BY DEF Core
  <2>2. Spend("rejects") \/ budget' = budget
    BY DEF Write, Add, Commit
  <2>3. CASE Spend("rejects") BY <2>1, <2>3, SpendType
  <2>4. CASE budget' = budget BY <2>1, <2>4 DEF TypeOK
  <2> QED BY <2>2, <2>3, <2>4
<1>4. Owns(p) \in Part /\ Owns(p) # "data" /\ Garbage \in 0 .. Cap
  BY OwnsPart, Bounds DEF Garbage
<1>5. CASE Write(p)
  <2>1. /\ \E v \in {local[Owns(p)], Garbage} : tree' = [tree EXCEPT ![Owns(p)] = v]
        /\ mine' = [mine EXCEPT ![p] = tree'[Owns(p)]]
        /\ UNCHANGED <<head, index>>
    BY <1>5 DEF Write
  <2>2. tree' \in Content /\ tree'["data"] = tree["data"]
    BY <1>4, <2>1 DEF Core, TypeOK, Content
  <2>3. mine' \in [Proc -> 0 .. Cap]
    BY <1>4, <2>1, <2>2 DEF Core, TypeOK, Content
  <2>4. TypeOK'
    BY <1>1, <1>2, <1>3, <2>1, <2>2, <2>3 DEF Core, TypeOK, Goto
  <2>5. Tries'
    BY <1>1, <1>2, <1>5 DEF Core, Tries, TypeOK, Goto, Write
  <2> QED BY <1>1, <2>1, <2>2, <2>4, <2>5 DEF Core, Versions, DataPart
<1>6. CASE Add(p)
  <2>1. index' = [index EXCEPT ![Owns(p)] = tree[Owns(p)]]
        /\ UNCHANGED <<head, tree, mine>>
    BY <1>6 DEF Add
  <2>2. index' \in Content /\ index'["data"] = index["data"]
    BY <1>4, <2>1 DEF Core, TypeOK, Content
  <2>4. TypeOK'
    BY <1>1, <1>2, <1>3, <2>1, <2>2 DEF Core, TypeOK, Goto
  <2>5. Tries'
    BY <1>1, <1>2, <1>6 DEF Core, Tries, TypeOK, Goto, Add
  <2> QED BY <1>1, <2>1, <2>2, <2>4, <2>5 DEF Core, Versions, DataPart
<1>7. CASE Commit(p)
  <2>1. head' = head \/ head' = [head EXCEPT !.content = index]
    BY <1>7 DEF Commit
  <2>2. UNCHANGED <<index, tree, mine>>
    BY <1>7 DEF Commit
  <2>3. /\ head' \in [ver : 0 .. rver, base : Content, content : Content]
        /\ head'.ver = head.ver /\ head'.base = head.base
        /\ head'.content \in {head.content, index}
    BY <2>1 DEF Core, TypeOK
  <2>4. TypeOK'
    BY <1>1, <1>2, <1>3, <2>2, <2>3 DEF Core, TypeOK, Goto
  <2>5. Tries'
    BY <1>1, <1>2, <1>7, Bounds DEF Core, Tries, TypeOK, Goto, Commit
  <2> QED BY <1>1, <2>2, <2>3, <2>4, <2>5 DEF Core, Versions, DataPart
<1> QED BY <1>5, <1>6, <1>7

LEMMA CoreNext == Core /\ [Next]_vars => Core'
<1> SUFFICES ASSUME Core, [Next]_vars PROVE Core'
  OBVIOUS
<1>t. TypeOK
  BY DEF Core
<1>1. CASE DataPush
  <2>1. /\ remote["data"] <= MaxData /\ rver' = rver + 1
        /\ remote' = [remote EXCEPT !["data"] = @ + 1]
        /\ UNCHANGED <<clone, procs, analyst, claimed, budget>>
    BY <1>1 DEF DataPush
  <2>2. /\ remote["data"] \in Nat /\ remote' \in Content
        /\ remote'["data"] = remote["data"] + 1
        /\ origin.content["data"] \in Nat
    BY <1>t, <2>1, Bounds DEF TypeOK, Content, Part
  <2>3. /\ rver' \in Nat /\ origin.ver # rver' /\ head.ver # rver'
        /\ origin \in [ver : 0 .. rver', content : Content]
        /\ head \in [ver : 0 .. rver', base : Content, content : Content]
    BY <1>t, <2>1 DEF TypeOK
  <2>4. TypeOK'
    BY <1>t, <2>1, <2>2, <2>3 DEF TypeOK
  <2> QED BY <2>1, <2>2, <2>3, <2>4, Bounds DEF Core, Tries, Versions, DataPart
<1>2. CASE Analyse \/ AnalyseQwen
  <2>1. /\ \/ local' = [local EXCEPT !["depth"] = @ + 1] /\ local["depth"] <= MaxVersion
           \/ local' = [local EXCEPT !["qwen"] = @ + 1] /\ local["qwen"] <= MaxVersion
        /\ UNCHANGED <<repo, clone, procs, sweep, claimed, budget>>
    BY <1>2 DEF Analyse, AnalyseQwen
  <2>2. local' \in Content
    BY <1>t, <2>1, Bounds DEF TypeOK, Content, Part
  <2>3. UNCHANGED <<repo, clone, procs, sweep, claimed, budget>>
    BY <2>1
  <2> QED BY <1>t, <2>2, <2>3 DEF Core, TypeOK, Tries, Versions, DataPart
<1>3. ASSUME NEW p \in Proc, Begin(p) PROVE Core'
  <2>1. /\ pc[p] = "off" /\ pc' = [pc EXCEPT ![p] = "lock"]
        /\ UNCHANGED <<repo, clone, plock, got, attempt, mine, analyst, claimed, budget>>
    BY <1>3 DEF Begin, Goto
  <2>2. TypeOK'
    BY <1>t, <2>1, Bounds DEF TypeOK
  <2> QED BY <1>t, <2>1, <2>2 DEF Core, TypeOK, Tries, Versions, DataPart
<1>4. ASSUME NEW p \in Proc, RemoveStale(p) PROVE Core'
  BY <1>4 DEF RemoveStale, Core, TypeOK, Tries, Versions, DataPart
<1>5. ASSUME NEW p \in Proc,
             Acquire(p) \/ WaitIsOver(p) \/ Check(p) \/ Validate(p)
      PROVE  Core'
  <2>1. /\ UNCHANGED <<repo, clone, attempt, mine, analyst, claimed, budget>>
        /\ plock' \in {plock, p, NoProc} /\ got' \in {got, [got EXCEPT ![p] = TRUE]}
    BY <1>5 DEF Acquire, WaitIsOver, Check, Validate
  <2>2. PICK l \in {"check", "fetch", "off", "release", "reset", "add"} : Goto(p, l)
    BY <1>5 DEF Acquire, WaitIsOver, Check, Validate, FirstStep
  <2>3. l = "release" \/ attempt[p] = 0
    BY <1>5, <1>t, <2>2 DEF Acquire, WaitIsOver, Check, Validate, Core, Tries,
                      Goto, TypeOK
  <2>4. plock' \in Proc \cup {NoProc} /\ got' \in [Proc -> BOOLEAN]
    BY <1>t, <2>1 DEF TypeOK
  <2>5. budget' \in [rejects : 0 .. MaxRejects, outages : 0 .. MaxOutages,
                     crashes : 0 .. MaxCrashes]
    BY <1>t, <2>1 DEF TypeOK
  <2>6. l \in Labels /\ l # "sync"
    BY DEF Labels
  <2> QED BY <2>1, <2>2, <2>3, <2>4, <2>5, <2>6, ProcStep
<1>6. ASSUME NEW p \in Proc, Crash(p) \/ Release(p) PROVE Core'
  <2>1. budget' \in [rejects : 0 .. MaxRejects, outages : 0 .. MaxOutages,
                     crashes : 0 .. MaxCrashes]
    BY <1>6, <1>t, SpendType DEF Crash, Release, TypeOK
  <2>2. /\ pc' = [pc EXCEPT ![p] = "off"] /\ got' = [got EXCEPT ![p] = FALSE]
        /\ attempt' = [attempt EXCEPT ![p] = 0] /\ mine' = [mine EXCEPT ![p] = 0]
        /\ plock' \in {plock, NoProc}
        /\ UNCHANGED <<repo, clone, analyst, claimed>>
    BY <1>6 DEF Crash, Release, Goto, Forget
  <2>3. TypeOK'
    <3>1. mine' \in [Proc -> 0 .. Cap] /\ attempt' \in [Proc -> 0 .. MaxAttempts]
      BY <1>t, <2>2, Bounds DEF TypeOK
    <3>2. /\ pc' \in [Proc -> Labels] /\ got' \in [Proc -> BOOLEAN]
          /\ plock' \in Proc \cup {NoProc}
      BY <1>t, <2>2 DEF TypeOK, Labels
    <3> QED BY <1>t, <2>1, <2>2, <3>1, <3>2 DEF TypeOK, Labels
  <2>4. Tries'
    BY <1>t, <2>2 DEF Core, Tries, TypeOK
  <2> QED BY <2>2, <2>3, <2>4 DEF Core, Versions, DataPart
<1>7. ASSUME NEW p \in Proc, Stamp(p) PROVE Core'
  <2>1. /\ sweep' = head.content["data"] /\ pc' = [pc EXCEPT ![p] = "release"]
        /\ UNCHANGED <<repo, clone, plock, got, attempt, mine, local, claimed, budget>>
    BY <1>7 DEF Stamp, Goto
  <2>2. /\ head.content["data"] = head.base["data"] /\ tree["data"] = head.base["data"]
        /\ head.base["data"] \in 1 .. Cap
    BY <1>t, Bounds DEF Core, DataPart, TypeOK, Content, Part
  <2>3. TypeOK'
    BY <1>t, <2>1, <2>2 DEF TypeOK
  <2>4. Tries'
    BY <1>t, <2>1 DEF Core, Tries, TypeOK
  <2> QED BY <2>1, <2>2, <2>3, <2>4 DEF Core, Versions, DataPart
<1>8. CASE UNCHANGED vars
  BY <1>8 DEF vars, Core, TypeOK, Tries, Versions, DataPart
<1> QED
  BY <1>1, <1>2, <1>3, <1>4, <1>5, <1>6, <1>7, <1>8, FetchCore, ResetCore,
     SyncCore, PushCore, ContentCore DEF Next, GitStep, Wait

LEMMA CoreCorrect == Spec => []Core
BY CoreInit, CoreNext, PTL DEF Spec

\* Every reachable state is well typed: no publisher tries more than MaxAttempts
\* pushes and no stamp names data that does not exist.
THEOREM TypeCorrect == Spec => []TypeOK
<1>1. Core => TypeOK BY DEF Core
<1> QED BY <1>1, CoreCorrect, PTL

\* The analysts' data is never older than what the sweep was refreshed to, with
\* or without the lock.
THEOREM DataCorrect == Spec => []DataIsCurrent
<1>1. Core => DataIsCurrent
  <2> SUFFICES ASSUME Core, sweep # NoSweep PROVE tree["data"] >= sweep
    BY DEF DataIsCurrent
  <2>1. sweep <= tree["data"]
    BY DEF Core, DataPart
  <2> QED BY <2>1
<1> QED BY <1>1, CoreCorrect, PTL

-------------------------------------------------------------------------------
(* Turns at the clone.                                                     *)
Inside == {p \in Proc : pc[p] \notin {"off", "lock"}}

\* While no lock outlives its publisher's turn, whoever is at the clone has it.
Turns == ~LockExpires => \A p \in Inside : plock = p /\ got[p]

\* Nobody else is at the clone when p is.
LEMMA OneInside ==
  ASSUME Turns, ~LockExpires, NEW p \in Inside, NEW r \in Inside
  PROVE  p = r
BY DEF Turns

\* A step of git other than the last is taken by a process that stays inside.
LEMMA GitInside ==
  ASSUME TypeOK, NEW p \in Proc, GitStep(p), ~Release(p)
  PROVE  /\ p \in Inside /\ Inside' \subseteq Inside
         /\ UNCHANGED <<plock, got>>
         /\ \A r \in Proc : r # p => pc'[r] = pc[r]
<1>1. pc[p] \notin {"off", "lock"} /\ UNCHANGED <<plock, got>>
  BY DEF GitStep, Fetch, Check, Reset, Stamp, Write, Validate, Add, Commit, Sync, Push
<1>2. PICK l \in Labels : Goto(p, l)
  BY DEF GitStep, Fetch, Check, Reset, Stamp, Write, Validate, Add, Commit, Sync,
         Push, Accepted, Rejected, Labels
<1> QED BY <1>1, <1>2 DEF Goto, Inside, TypeOK

LEMMA TurnsNext == Core /\ Turns /\ [Next]_vars => Turns'
<1> SUFFICES ASSUME Core, Turns, [Next]_vars, ~LockExpires
             PROVE  \A r \in Inside' : plock' = r /\ got'[r]
  BY CloneAssumption DEF Turns
<1>t. TypeOK /\ NoProc \notin Proc
  BY CloneAssumption DEF Core
<1>1. CASE UNCHANGED <<plock, pc, got>>
  BY <1>1 DEF Turns, Inside
<1>2. ASSUME NEW p \in Proc, Begin(p) \/ Crash(p) \/ WaitIsOver(p)
      PROVE  \A r \in Inside' : plock' = r /\ got'[r]
  <2>1. /\ plock' = plock /\ \A r \in Proc : r # p => got'[r] = got[r]
        /\ pc' = [pc EXCEPT ![p] = "lock"] \/ pc' = [pc EXCEPT ![p] = "off"]
    BY <1>2, <1>t DEF Begin, Crash, WaitIsOver, Forget, Goto, TypeOK
  <2>2. Inside' \subseteq Inside /\ p \notin Inside'
    BY <2>1, <1>t DEF Inside, TypeOK
  <2> QED BY <2>1, <2>2 DEF Turns, Inside
<1>3. ASSUME NEW p \in Proc, Acquire(p) PROVE \A r \in Inside' : plock' = r /\ got'[r]
  <2>1. /\ plock = NoProc /\ plock' = p /\ got' = [got EXCEPT ![p] = TRUE]
        /\ \A r \in Proc : r # p => pc'[r] = pc[r]
    BY <1>3, <1>t DEF Acquire, Goto, TypeOK
  <2>2. Inside = {}
    BY <2>1, <1>t DEF Turns, Inside
  <2>3. Inside' \subseteq {p}
    BY <2>1, <2>2 DEF Inside
  <2> QED BY <2>1, <2>3, <1>t DEF TypeOK
<1>4. ASSUME NEW p \in Proc, RemoveStale(p) PROVE \A r \in Inside' : plock' = r /\ got'[r]
  <2>1. pc[plock] = "off" /\ UNCHANGED pc
    BY <1>4 DEF RemoveStale
  <2> QED BY <2>1 DEF Turns, Inside
<1>5. ASSUME NEW p \in Proc, Release(p) PROVE \A r \in Inside' : plock' = r /\ got'[r]
  <2>1. p \in Inside /\ pc' = [pc EXCEPT ![p] = "off"]
    BY <1>5 DEF Release, Inside, Goto
  <2>2. Inside \subseteq {p}
    BY <2>1, OneInside
  <2> QED BY <2>1, <2>2, <1>t DEF Inside, TypeOK
<1>6. ASSUME NEW p \in Proc, GitStep(p), ~Release(p)
      PROVE  \A r \in Inside' : plock' = r /\ got'[r]
  BY <1>6, <1>t, GitInside DEF Turns
<1>7. CASE DataPush \/ Analyse \/ AnalyseQwen \/ UNCHANGED vars
  BY <1>1, <1>7 DEF DataPush, Analyse, AnalyseQwen, vars
<1>8. ASSUME NEW p \in Proc, Wait(p) PROVE RemoveStale(p) \/ WaitIsOver(p)
  BY <1>8 DEF Wait
<1> QED BY <1>2, <1>3, <1>4, <1>5, <1>6, <1>7, <1>8 DEF Next

-------------------------------------------------------------------------------
(* What does not parse stays out of the index.                             *)
Guarded == ~LockExpires \/ MaxRejects = 0

\* The clone and the remote parse, the working tree too when nothing malformed
\* is ever written; and what is about to be staged has been parsed.
Parses ==
  /\ \A q \in Part : Garbage \notin {remote[q], origin.content[q], head.base[q],
                                     head.content[q], index[q], local[q]}
  /\ MaxRejects = 0 => \A q \in Part : tree[q] # Garbage
  /\ \A p \in Proc : pc[p] = "add" => tree[Owns(p)] # Garbage

Valid == Core /\ Turns /\ Parses

LEMMA Numbers ==
  ASSUME TypeOK, NEW q \in Part
  PROVE  /\ {remote[q], origin.content[q], head.base[q], head.content[q], index[q],
             tree[q], local[q], claimed[q]} \subseteq Nat
BY Bounds DEF TypeOK, Content

LEMMA ParsesInit == Init => Parses
BY DEF Init, Parses, Fresh, Garbage

LEMMA ParsesNext == Guarded /\ Valid /\ [Next]_vars => Parses'
<1> SUFFICES ASSUME Guarded, Core, Turns, Parses, [Next]_vars PROVE Parses'
  BY DEF Valid
<1>t. TypeOK
  BY DEF Core
<1>1. CASE DataPush
  <2>1. /\ remote' = [remote EXCEPT !["data"] = @ + 1]
        /\ UNCHANGED <<clone, procs, analyst>>
    BY <1>1 DEF DataPush
  <2>2. \A q \in Part : remote'[q] # Garbage
    BY <1>t, <2>1, Bounds DEF Parses, TypeOK, Content, Garbage
  <2> QED BY <2>1, <2>2 DEF Parses
<1>2. CASE Analyse \/ AnalyseQwen
  <2>1. /\ \E q \in Part : local' = [local EXCEPT ![q] = @ + 1]
        /\ UNCHANGED <<repo, clone, procs>>
    BY <1>2 DEF Analyse, AnalyseQwen, Part
  <2>2. \A q \in Part : local'[q] # Garbage
    BY <1>t, <2>1, Bounds DEF Parses, TypeOK, Content, Garbage
  <2> QED BY <2>1, <2>2 DEF Parses
<1>3. ASSUME NEW p \in Proc,
             \/ Begin(p) \/ Acquire(p) \/ Wait(p) \/ Crash(p) \/ Fetch(p)
             \/ Check(p) \/ Stamp(p) \/ Validate(p) \/ Release(p)
      PROVE  Parses'
  <2>1. /\ UNCHANGED <<remote, head, index, tree, local>>
        /\ origin'.content \in {remote, origin.content}
    BY <1>3 DEF Begin, Acquire, Wait, RemoveStale, WaitIsOver, Crash, Fetch, Check,
                Stamp, Validate, Release
  <2>2. \A r \in Proc : pc'[r] = "add" => pc[r] = "add" \/ tree[Owns(r)] # Garbage
    BY <1>3, <1>t DEF Begin, Acquire, Wait, RemoveStale, WaitIsOver, Crash, Fetch,
                Check, Stamp, Validate, Release, Goto, FirstStep, TypeOK
  <2> QED BY <2>1, <2>2 DEF Parses
<1>4. ASSUME NEW p \in Proc, Reset(p) PROVE Parses'
  <2>1. CASE UNCHANGED <<head, index, tree>> /\ Goto(p, "release")
    BY <1>4, <2>1, <1>t DEF Reset, Parses, Goto, TypeOK
  <2>2. CASE ~Blocked
    <3>1. /\ head' = [ver |-> origin.ver, base |-> origin.content,
                      content |-> origin.content]
          /\ index' = [q \in Part |->
               IF index[q] = head.content[q] THEN origin.content[q] ELSE index[q]]
          /\ tree' = [q \in Part |->
               IF Dirty(q) THEN tree[q] ELSE origin.content[q]]
          /\ Goto(p, IF p \in Refreshers THEN "stamp" ELSE "write")
          /\ UNCHANGED <<repo, origin, analyst>>
      BY <1>4, <2>2 DEF Reset
    <3>2. \A q \in Part : Garbage \notin {remote'[q], origin'.content[q], head'.base[q],
                                          head'.content[q], index'[q], local'[q]}
      BY <3>1 DEF Parses
    <3>3. \A q \in Part : tree[q] # Garbage => tree'[q] # Garbage
      BY <3>1 DEF Parses
    <3>4. \A r \in Proc : pc'[r] = "add" => pc[r] = "add"
      BY <3>1, <1>t DEF Goto, TypeOK
    <3> QED BY <3>2, <3>3, <3>4, OwnsPart DEF Parses
  <2> QED BY <1>4, <2>1, <2>2 DEF Reset
<1>5. ASSUME NEW p \in Proc, Write(p) PROVE Parses'
  <2>1. /\ UNCHANGED <<repo, origin, head, index, local>> /\ Goto(p, "validate")
        /\ \/ tree' = [tree EXCEPT ![Owns(p)] = local[Owns(p)]]
           \/ tree' = [tree EXCEPT ![Owns(p)] = Garbage] /\ Spend("rejects")
    BY <1>5 DEF Write
  <2>2. \A q \in Part : q # Owns(p) => tree'[q] = tree[q]
    BY <2>1, <1>t DEF TypeOK, Content
  <2>3. Spend("rejects") => MaxRejects # 0
    BY <1>t, Bounds DEF Spend, TypeOK
  <2>4. MaxRejects = 0 => \A q \in Part : tree'[q] # Garbage
    BY <2>1, <2>3, <1>t DEF Parses, TypeOK, Content
  <2>5. ASSUME NEW r \in Proc, pc'[r] = "add" PROVE tree'[Owns(r)] # Garbage
    <3>1. r # p /\ pc[r] = "add"
      BY <2>1, <2>5, <1>t DEF Goto, TypeOK
    <3>2. r \in Inside /\ p \in Inside
      BY <1>5, <3>1 DEF Inside, Write
    <3> QED BY <2>4, <3>1, <3>2, OneInside, OwnsPart DEF Guarded
  <2> QED BY <2>1, <2>4, <2>5 DEF Parses
<1>6. ASSUME NEW p \in Proc, Add(p) PROVE Parses'
  <2>1. /\ UNCHANGED <<repo, origin, head, tree, local>> /\ Goto(p, "commit")
        /\ index' = [index EXCEPT ![Owns(p)] = tree[Owns(p)]] /\ pc[p] = "add"
    BY <1>6 DEF Add
  <2>2. \A q \in Part : index'[q] # Garbage
    BY <2>1, <1>t DEF Parses, TypeOK, Content
  <2>3. \A r \in Proc : pc'[r] = "add" => pc[r] = "add"
    BY <2>1, <1>t DEF Goto, TypeOK
  <2> QED BY <2>1, <2>2, <2>3 DEF Parses
<1>7. ASSUME NEW p \in Proc, Commit(p) PROVE Parses'
  <2>1. /\ UNCHANGED <<repo, origin, index, tree, local>>
        /\ head'.base = head.base /\ head'.content \in {head.content, index}
        /\ \E l \in {"release", "sync"} : Goto(p, l)
    BY <1>7, <1>t DEF Commit, TypeOK
  <2>2. \A r \in Proc : pc'[r] = "add" => pc[r] = "add"
    BY <2>1, <1>t DEF Goto, TypeOK
  <2> QED BY <2>1, <2>2 DEF Parses
<1>8. ASSUME NEW p \in Proc, Sync(p) PROVE Parses'
  <2>1. /\ UNCHANGED <<repo, local>> /\ \E l \in {"release", "push"} : Goto(p, l)
        /\ origin'.content \in {remote, origin.content}
    BY <1>8 DEF Sync
  <2>2. \A r \in Proc : pc'[r] = "add" => pc[r] = "add"
    BY <2>1, <1>t DEF Goto, TypeOK
  <2>3. CASE UNCHANGED <<head, index, tree>>
    BY <2>1, <2>2, <2>3 DEF Parses
  <2>4. CASE /\ head' = [ver |-> origin'.ver, base |-> origin'.content,
                         content |-> Merged(origin'.content)]
             /\ index' = head'.content /\ tree' = head'.content
    <3>1. \A q \in Part : Merged(origin'.content)[q] \in {head.content[q], origin'.content[q]}
      BY DEF Merged
    <3>2. \A q \in Part : origin'.content[q] # Garbage /\ head.content[q] # Garbage
      BY <2>1 DEF Parses
    <3>3. \A q \in Part : Merged(origin'.content)[q] # Garbage
      BY <3>1, <3>2
    <3> QED BY <2>1, <2>4, <3>2, <3>3, OwnsPart DEF Parses
  <2> QED BY <1>8, <2>3, <2>4 DEF Sync
<1>9. ASSUME NEW p \in Proc, Push(p) PROVE Parses'
  <2>1. /\ UNCHANGED <<index, tree, local>>
        /\ \E l \in {"release", "sync"} : Goto(p, l)
        /\ remote' \in {remote, head.content}
        /\ origin'.content \in {origin.content, head.content}
        /\ head'.base \in {head.base, head.content} /\ head'.content = head.content
    BY <1>9 DEF Push, Accepted, Rejected, Lands
  <2>2. \A r \in Proc : pc'[r] = "add" => pc[r] = "add"
    BY <2>1, <1>t DEF Goto, TypeOK
  <2> QED BY <2>1, <2>2 DEF Parses
<1>10. CASE UNCHANGED vars
  BY <1>10 DEF vars, Parses
<1> QED
  BY <1>1, <1>2, <1>3, <1>4, <1>5, <1>6, <1>7, <1>8, <1>9, <1>10 DEF Next, GitStep

LEMMA ValidInv == ASSUME Guarded PROVE Spec => []Valid
<1>1. Init => Valid
  <2>1. Init => Turns
    BY DEF Init, Turns, Inside
  <2> QED BY <2>1, CoreInit, ParsesInit DEF Valid
<1>2. Valid /\ [Next]_vars => Valid'
  BY CoreNext, TurnsNext, ParsesNext DEF Valid
<1> QED BY <1>1, <1>2, PTL DEF Spec

\* What does not parse is never pushed, while no lock expires under a live
\* publisher.
THEOREM ValidCorrect ==
  ASSUME ~LockExpires \/ MaxRejects = 0
  PROVE  Spec => []OnlyValidIsPushed
<1>1. Valid => OnlyValidIsPushed
  BY DEF Valid, Parses, OnlyValidIsPushed
<1>2. Guarded
  BY DEF Guarded
<1> QED BY <1>1, <1>2, ValidInv, PTL

-------------------------------------------------------------------------------
(* No part of the site goes back.                                          *)

\* Every part climbs: what a commit starts from, the remote as last fetched and
\* the remote; the commit, what is staged, what lies in the tree, and the newest
\* artifact there is.
Ladder ==
  \A q \in Part :
    /\ head.base[q] <= origin.content[q] /\ origin.content[q] <= remote[q]
    /\ head.base[q] <= head.content[q] /\ head.content[q] <= index[q]
    /\ tree[q] # Garbage => index[q] <= tree[q]
    /\ q # "data" => \A c \in {remote, index, tree} : c[q] <= local[q]

Climbing == Valid /\ Ladder

LEMMA LadderInit == Init => Ladder
BY DEF Init, Ladder, Fresh

LEMMA LadderNext ==
  Climbing /\ [Next]_vars => Ladder' /\ \A q \in Part : remote'[q] >= remote[q]
<1> SUFFICES ASSUME Valid, Ladder, [Next]_vars
             PROVE  Ladder' /\ \A q \in Part : remote'[q] >= remote[q]
  BY DEF Climbing
<1>t. TypeOK /\ Core /\ Parses
  BY DEF Valid, Core
<1>n. \A q \in Part : {remote[q], origin.content[q], head.base[q], head.content[q],
                       index[q], tree[q], local[q]} \subseteq Nat
  BY <1>t, Numbers
<1>g. Garbage = 0
  BY DEF Garbage
<1>1. CASE DataPush
  <2>1. /\ remote' = [remote EXCEPT !["data"] = @ + 1]
        /\ UNCHANGED <<clone, analyst>>
    BY <1>1 DEF DataPush
  <2>2. \A q \in Part : /\ remote'[q] >= remote[q] /\ remote'[q] \in Nat
                        /\ q # "data" => remote'[q] = remote[q]
    BY <1>t, <1>n, <2>1 DEF TypeOK, Content
  <2> QED BY <1>n, <2>1, <2>2 DEF Ladder
<1>2. CASE Analyse \/ AnalyseQwen
  <2>1. /\ \E q \in Part : local' = [local EXCEPT ![q] = @ + 1]
        /\ UNCHANGED <<repo, clone>>
    BY <1>2 DEF Analyse, AnalyseQwen, Part
  <2>2. \A q \in Part : local'[q] >= local[q] /\ local'[q] \in Nat
    BY <1>t, <1>n, <2>1 DEF TypeOK, Content
  <2> QED BY <1>n, <2>1, <2>2 DEF Ladder
<1>3. ASSUME NEW p \in Proc,
             \/ Begin(p) \/ Acquire(p) \/ Wait(p) \/ Crash(p) \/ Fetch(p)
             \/ Check(p) \/ Stamp(p) \/ Validate(p) \/ Release(p)
      PROVE  Ladder' /\ \A q \in Part : remote'[q] >= remote[q]
  <2>1. /\ UNCHANGED <<remote, head, index, tree, local>>
        /\ origin'.content \in {remote, origin.content}
    BY <1>3 DEF Begin, Acquire, Wait, RemoveStale, WaitIsOver, Crash, Fetch, Check,
                Stamp, Validate, Release
  <2> QED BY <1>n, <2>1 DEF Ladder
<1>4. ASSUME NEW p \in Proc, Reset(p)
      PROVE  Ladder' /\ \A q \in Part : remote'[q] >= remote[q]
  <2>1. UNCHANGED <<repo, origin, local>>
    BY <1>4 DEF Reset
  <2>2. CASE UNCHANGED <<head, index, tree>>
    BY <1>n, <2>1, <2>2 DEF Ladder
  <2>3. CASE ~Blocked
    <3>1. /\ head' = [ver |-> origin.ver, base |-> origin.content,
                      content |-> origin.content]
          /\ index' = [q \in Part |->
               IF index[q] = head.content[q] THEN origin.content[q] ELSE index[q]]
          /\ tree' = [q \in Part |->
               IF Dirty(q) THEN tree[q] ELSE origin.content[q]]
      BY <1>4, <2>3 DEF Reset
    <3>2. ASSUME NEW q \in Part
          PROVE  /\ head'.base[q] = origin.content[q] /\ head'.content[q] = origin.content[q]
                 /\ index'[q] \in {index[q], origin.content[q]}
                 /\ tree'[q] \in {tree[q], origin.content[q]}
                 /\ origin.content[q] <= index'[q]
                 /\ tree'[q] # Garbage => index'[q] <= tree'[q]
      <4>1. CASE ~Dirty(q)
        BY <1>n, <3>1, <4>1 DEF Dirty
      <4>2. CASE Dirty(q)
        <5>1. index[q] = origin.content[q] \/ head.content[q] = origin.content[q]
          BY <2>3, <4>2 DEF Blocked
        <5>2. index'[q] = index[q] /\ tree'[q] = tree[q]
          BY <3>1, <4>2, <5>1
        <5> QED BY <1>n, <3>1, <5>1, <5>2 DEF Ladder
      <4> QED BY <4>1, <4>2
    <3>3. ASSUME NEW q \in Part, q # "data"
          PROVE  \A c \in {remote', index', tree'} : c[q] <= local'[q]
      BY <1>n, <2>1, <3>2, <3>3 DEF Ladder
    <3> QED BY <1>n, <2>1, <3>2, <3>3 DEF Ladder
  <2> QED BY <1>4, <2>2, <2>3 DEF Reset
<1>5. ASSUME NEW p \in Proc, Write(p)
      PROVE  Ladder' /\ \A q \in Part : remote'[q] >= remote[q]
  <2>1. /\ UNCHANGED <<repo, origin, head, index, local>>
        /\ \E v \in {local[Owns(p)], Garbage} : tree' = [tree EXCEPT ![Owns(p)] = v]
    BY <1>5 DEF Write
  <2>2. \A q \in Part : \/ tree'[q] = tree[q]
                        \/ q # "data" /\ tree'[q] \in {local[q], Garbage}
    BY <1>t, <2>1, OwnsPart DEF TypeOK, Content
  <2> QED BY <1>n, <1>g, <2>1, <2>2 DEF Ladder
<1>6. ASSUME NEW p \in Proc, Add(p)
      PROVE  Ladder' /\ \A q \in Part : remote'[q] >= remote[q]
  <2>1. /\ UNCHANGED <<repo, origin, head, tree, local>>
        /\ index' = [index EXCEPT ![Owns(p)] = tree[Owns(p)]]
        /\ tree[Owns(p)] # Garbage
    BY <1>6, <1>t DEF Add, Parses
  <2>2. \A q \in Part : \/ index'[q] = index[q]
                        \/ index'[q] = tree[q] /\ tree[q] # Garbage
    BY <1>t, <2>1, OwnsPart DEF TypeOK, Content
  <2> QED BY <1>n, <2>1, <2>2 DEF Ladder
<1>7. ASSUME NEW p \in Proc, Commit(p)
      PROVE  Ladder' /\ \A q \in Part : remote'[q] >= remote[q]
  <2>1. /\ UNCHANGED <<repo, origin, index, tree, local>>
        /\ head'.base = head.base /\ head'.content \in {head.content, index}
    BY <1>7, <1>t DEF Commit, TypeOK
  <2> QED BY <1>n, <2>1 DEF Ladder
<1>8. ASSUME NEW p \in Proc, Sync(p)
      PROVE  Ladder' /\ \A q \in Part : remote'[q] >= remote[q]
  <2>1. /\ UNCHANGED <<repo, local>>
        /\ origin'.content \in {remote, origin.content}
    BY <1>8 DEF Sync
  <2>2. CASE UNCHANGED <<head, index, tree>>
    BY <1>n, <2>1, <2>2 DEF Ladder
  <2>3. CASE ~((\E q \in Part : Dirty(q)) \/ Conflict(origin'.content))
    <3>1. /\ head' = [ver |-> origin'.ver, base |-> origin'.content,
                      content |-> Merged(origin'.content)]
          /\ index' = head'.content /\ tree' = head'.content
      BY <1>8, <2>3 DEF Sync
    <3>2. ASSUME NEW q \in Part
          PROVE  /\ origin'.content[q] <= Merged(origin'.content)[q]
                 /\ Merged(origin'.content)[q] \in {index[q], remote[q], origin.content[q]}
                 /\ origin'.content[q] <= remote[q]
                 /\ origin'.content[q] \in Nat /\ Merged(origin'.content)[q] \in Nat
      <4>1. index[q] = head.content[q]
        BY <2>3 DEF Dirty
      <4>2. origin'.content[q] \in {remote[q], origin.content[q]}
        BY <2>1
      <4>3. CASE Ours(q)
        <5>1. origin'.content[q] \in {head.base[q], head.content[q]}
          BY <2>3, <4>3 DEF Conflict
        <5>2. Merged(origin'.content)[q] = head.content[q]
          BY <4>3 DEF Merged
        <5> QED BY <1>n, <4>1, <4>2, <5>1, <5>2 DEF Ladder
      <4>4. CASE ~Ours(q)
        <5>1. Merged(origin'.content)[q] = origin'.content[q]
          BY <4>4 DEF Merged
        <5> QED BY <1>n, <4>2, <5>1 DEF Ladder
      <4> QED BY <4>3, <4>4
    <3>3. ASSUME NEW q \in Part, q # "data"
          PROVE  \A c \in {remote', index', tree'} : c[q] <= local'[q]
      BY <1>n, <2>1, <3>1, <3>2, <3>3 DEF Ladder
    <3> QED BY <1>n, <2>1, <3>1, <3>2, <3>3 DEF Ladder
  <2> QED BY <1>8, <2>2, <2>3 DEF Sync
<1>9. ASSUME NEW p \in Proc, Push(p)
      PROVE  Ladder' /\ \A q \in Part : remote'[q] >= remote[q]
  <2>1. UNCHANGED <<index, tree, local>>
    BY <1>9 DEF Push
  <2>2. head.ver = rver => head.base = remote
    BY <1>t DEF Core, Versions
  <2>3. CASE UNCHANGED <<remote, origin, head>>
    BY <1>n, <2>1, <2>3 DEF Ladder
  <2>4. CASE /\ head.ver = rver /\ remote' = head.content
             /\ \/ UNCHANGED <<origin, head>>
                \/ /\ origin'.content = head.content /\ head'.base = head.content
                   /\ head'.content = head.content
    <3>1. \A q \in Part : remote[q] <= head.content[q] /\ head.content[q] <= index[q]
      BY <2>2, <2>4 DEF Ladder
    <3>2. ASSUME NEW q \in Part, q # "data"
          PROVE  \A c \in {remote', index', tree'} : c[q] <= local'[q]
      BY <1>n, <2>1, <2>4, <3>1, <3>2 DEF Ladder
    <3> QED BY <1>n, <2>1, <2>4, <3>1, <3>2 DEF Ladder
  <2> QED BY <1>9, <2>3, <2>4 DEF Push, Accepted, Rejected, Lands
<1>10. CASE UNCHANGED vars
  BY <1>n, <1>10 DEF vars, Ladder
<1> QED
  BY <1>1, <1>2, <1>3, <1>4, <1>5, <1>6, <1>7, <1>8, <1>9, <1>10 DEF Next, GitStep

LEMMA ClimbingInv == ASSUME Guarded PROVE Spec => []Climbing
<1>1. Init /\ Valid => Climbing
  BY LadderInit DEF Climbing
<1>2. Climbing /\ Valid' /\ [Next]_vars => Climbing'
  BY LadderNext DEF Climbing
<1> QED BY <1>1, <1>2, ValidInv, PTL DEF Spec

\* No push takes a part of the site back, whoever else pushes or publishes in
\* between: without the lock as long as every artifact parses, with it always.
THEOREM RollbackCorrect ==
  ASSUME ~LockExpires \/ MaxRejects = 0
  PROVE  Spec => NothingIsRolledBack
<1>1. Climbing /\ [Next]_vars => [\A q \in Part : remote'[q] >= remote[q]]_vars
  BY LadderNext
<1>2. Guarded
  BY DEF Guarded
<1> QED BY <1>1, <1>2, ClimbingInv, PTL DEF Spec, NothingIsRolledBack

-------------------------------------------------------------------------------
(* What is reported as pushed is on the site.                              *)

\* The version a publisher wrote goes from the tree through the index to the
\* commit, and the commit it pushes has it or a newer one.
Carried ==
  \A p \in Proc :
    /\ pc[p] \in {"validate", "add"} => tree[Owns(p)] = mine[p]
    /\ pc[p] = "commit" => index[Owns(p)] = mine[p]
    /\ pc[p] \in {"sync", "push"} => mine[p] <= head.content[Owns(p)]

Carrying == Climbing /\ PushedIsOnSite /\ Carried

\* Nobody else is between write and push, so that a step of p's need only carry
\* what p wrote.
LEMMA OthersCarry ==
  ASSUME Turns, ~LockExpires, NEW p \in Inside, NEW l, TypeOK, Goto(p, l),
         /\ l \in {"validate", "add"} => tree'[Owns(p)] = mine'[p]
         /\ l = "commit" => index'[Owns(p)] = mine'[p]
         /\ l \in {"sync", "push"} => mine'[p] <= head'.content[Owns(p)]
  PROVE  Carried'
<1>1. \A r \in Proc : r # p => pc'[r] \in {"off", "lock"}
  BY OneInside DEF Inside, Goto, TypeOK
<1>2. pc'[p] = l
  BY DEF Inside, Goto, TypeOK
<1> QED BY <1>1, <1>2 DEF Carried

\* A step that leaves the commit, the index and the tree alone carries on.
LEMMA StillCarries ==
  ASSUME Carried, UNCHANGED <<head, index, tree>>,
         \A r \in Proc : \/ /\ mine'[r] = mine[r]
                            /\ \/ pc'[r] = pc[r]
                               \/ pc[r] = "validate" /\ pc'[r] = "add"
                         \/ pc'[r] \notin {"validate", "add", "commit", "sync", "push"}
  PROVE  Carried'
BY DEF Carried

LEMMA CarriedNext == ~LockExpires /\ Carrying /\ [Next]_vars => Carried'
<1> SUFFICES ASSUME ~LockExpires, Turns, TypeOK, Ladder, Carried, [Next]_vars
             PROVE  Carried'
  BY DEF Carrying, Climbing, Valid, Core
<1>n. \A q \in Part : {remote[q], origin.content[q], head.base[q], head.content[q],
                       index[q], tree[q], local[q]} \subseteq Nat
  BY Numbers
<1>1. CASE DataPush \/ Analyse \/ AnalyseQwen \/ UNCHANGED vars
  BY <1>1, StillCarries DEF DataPush, Analyse, AnalyseQwen, vars
<1>2. ASSUME NEW p \in Proc,
             \/ Begin(p) \/ Acquire(p) \/ Wait(p) \/ Crash(p) \/ Fetch(p)
             \/ Check(p) \/ Stamp(p) \/ Validate(p) \/ Release(p)
      PROVE  Carried'
  <2>1. UNCHANGED <<head, index, tree>>
    BY <1>2 DEF Begin, Acquire, Wait, RemoveStale, WaitIsOver, Crash, Fetch, Check,
                Stamp, Validate, Release
  <2>2. \A r \in Proc : \/ /\ mine'[r] = mine[r]
                           /\ \/ pc'[r] = pc[r]
                              \/ pc[r] = "validate" /\ pc'[r] = "add"
                        \/ pc'[r] \notin {"validate", "add", "commit", "sync", "push"}
    BY <1>2 DEF Begin, Acquire, Wait, RemoveStale, WaitIsOver, Crash, Fetch, Check,
                Stamp, Validate, Release, Forget, Goto, FirstStep, TypeOK
  <2> QED BY <2>1, <2>2, StillCarries
<1>3. ASSUME NEW p \in Proc, Reset(p) PROVE Carried'
  <2>1. PICK l \in {"release", "stamp", "write"} : Goto(p, l)
    BY <1>3 DEF Reset
  <2> QED BY <1>3, <2>1, OthersCarry DEF Reset, Inside
<1>4. ASSUME NEW p \in Proc, Write(p) PROVE Carried'
  <2>1. mine'[p] = tree'[Owns(p)] /\ Goto(p, "validate") /\ p \in Inside
    BY <1>4 DEF Write, Inside, TypeOK
  <2> QED BY <2>1, OthersCarry
<1>5. ASSUME NEW p \in Proc, Add(p) PROVE Carried'
  <2>1. /\ index'[Owns(p)] = tree[Owns(p)] /\ mine' = mine /\ Goto(p, "commit")
        /\ tree[Owns(p)] = mine[p] /\ p \in Inside
    BY <1>5, OwnsPart DEF Add, Inside, TypeOK, Content, Carried
  <2> QED BY <2>1, OthersCarry
<1>6. ASSUME NEW p \in Proc, Commit(p) PROVE Carried'
  <2>1. mine' = mine /\ p \in Inside /\ index[Owns(p)] = mine[p] /\ Owns(p) \in Part
    BY <1>6, OwnsPart DEF Commit, Inside, Carried
  <2>2. CASE Goto(p, "release")
    BY <2>1, <2>2, OthersCarry
  <2>3. CASE head' = [head EXCEPT !.content = index] /\ Goto(p, "sync")
    <3>1. head'.content = index /\ index[Owns(p)] \in Nat
      BY <1>n, <2>1, <2>3 DEF TypeOK
    <3>2. mine'[p] <= head'.content[Owns(p)]
      BY <2>1, <3>1
    <3> QED BY <2>1, <2>3, <3>2, OthersCarry
  <2> QED BY <1>6, <2>2, <2>3 DEF Commit
<1>7. ASSUME NEW p \in Proc, Sync(p) PROVE Carried'
  <2>1. /\ mine' = mine /\ p \in Inside /\ mine[p] <= head.content[Owns(p)]
        /\ mine[p] \in Nat
    BY <1>7, Bounds DEF Sync, Inside, Carried, TypeOK
  <2>2. CASE Goto(p, "release")
    BY <2>1, <2>2, OthersCarry
  <2>3. CASE /\ head' = [ver |-> origin'.ver, base |-> origin'.content,
                         content |-> Merged(origin'.content)]
             /\ Goto(p, "push")
    <3>1. origin'.content \in {remote, origin.content} /\ Owns(p) \in Part
      BY <1>7, OwnsPart DEF Sync
    <3>2. /\ head.base[Owns(p)] <= origin.content[Owns(p)]
          /\ origin.content[Owns(p)] <= remote[Owns(p)]
      BY <3>1 DEF Ladder
    <3>3. /\ head.base[Owns(p)] \in Nat /\ origin.content[Owns(p)] \in Nat
          /\ remote[Owns(p)] \in Nat /\ head.content[Owns(p)] \in Nat
      BY <1>n, <3>1
    \* A part that is not ours is as old as the base, which the remote has passed.
    <3>4. head.content[Owns(p)] <= Merged(origin'.content)[Owns(p)]
      <4>1. CASE Ours(Owns(p))
        BY <3>1, <3>3, <4>1 DEF Merged
      <4>2. CASE ~Ours(Owns(p))
        BY <3>1, <3>2, <3>3, <4>2 DEF Merged, Ours
      <4> QED BY <4>1, <4>2
    <3>5. Merged(origin'.content)[Owns(p)] \in Nat
      BY <3>1, <3>3 DEF Merged
    <3>6. mine'[p] <= head'.content[Owns(p)]
      BY <2>1, <2>3, <3>3, <3>4, <3>5
    <3> QED BY <2>1, <2>3, <3>6, OthersCarry
  <2> QED BY <1>7, <2>2, <2>3 DEF Sync
<1>8. ASSUME NEW p \in Proc, Push(p) PROVE Carried'
  <2>1. /\ mine' = mine /\ p \in Inside /\ mine[p] <= head.content[Owns(p)]
        /\ head'.content = head.content
    BY <1>8 DEF Push, Accepted, Rejected, Inside, Carried
  <2>2. PICK l \in {"sync", "release"} : Goto(p, l)
    BY <1>8 DEF Push, Accepted, Rejected
  <2> QED BY <2>1, <2>2, OthersCarry
<1> QED
  BY <1>1, <1>2, <1>3, <1>4, <1>5, <1>6, <1>7, <1>8 DEF Next, GitStep

LEMMA SiteNext == Carrying /\ Core' /\ [Next]_vars => PushedIsOnSite'
<1> SUFFICES ASSUME Carrying, Core', [Next]_vars, NEW q \in Part
             PROVE  claimed'[q] <= remote'[q]
  BY DEF PushedIsOnSite
<1>t. TypeOK
  BY DEF Carrying, Climbing, Valid, Core
<1>n. remote[q] \in Nat /\ claimed[q] \in Nat /\ remote'[q] \in Nat
  <2>1. remote' \in Content
    BY DEF Core, TypeOK
  <2> QED BY <1>t, <2>1, Numbers, Bounds DEF Content
<1>1. remote[q] <= remote'[q] /\ claimed[q] <= remote[q]
  BY <1>n, LadderNext DEF Carrying, PushedIsOnSite
<1>2. CASE UNCHANGED claimed
  BY <1>n, <1>1, <1>2
<1>3. ASSUME NEW p \in Proc, pc[p] = "push", Accepted(p)
      PROVE  claimed'[q] <= remote'[q]
  <2>1. /\ remote' = head.content /\ mine[p] <= head.content[Owns(p)]
        /\ claimed'[q] = IF q = Owns(p) THEN AtLeast(claimed[q], mine[p])
                                        ELSE claimed[q]
    BY <1>3, <1>t DEF Accepted, Lands, Carrying, Carried, TypeOK, Content
  <2> QED BY <1>n, <1>1, <2>1 DEF AtLeast
<1>4. UNCHANGED claimed \/ \E p \in Proc : pc[p] = "push" /\ Accepted(p)
  <2>1. ASSUME NEW p \in Proc, GitStep(p)
        PROVE  UNCHANGED claimed \/ (pc[p] = "push" /\ Accepted(p))
    BY <2>1 DEF GitStep, Fetch, Check, Reset, Stamp, Write, Validate, Add, Commit,
                Sync, Push, Release, Rejected
  <2>2. ASSUME NEW p \in Proc, Begin(p) \/ Acquire(p) \/ Wait(p) \/ Crash(p)
        PROVE  UNCHANGED claimed
    BY <2>2 DEF Begin, Acquire, Wait, RemoveStale, WaitIsOver, Crash
  <2>3. CASE DataPush \/ Analyse \/ AnalyseQwen \/ UNCHANGED vars
    BY <2>3 DEF DataPush, Analyse, AnalyseQwen, vars
  <2> QED BY <2>1, <2>2, <2>3 DEF Next
<1> QED BY <1>2, <1>3, <1>4

\* A publisher that reports a push, and clears the bundles it carried, has its
\* version or a newer one on the site, now and for good.
THEOREM SiteCorrect ==
  ASSUME ~LockExpires
  PROVE  Spec => []PushedIsOnSite
<1>1. Init /\ Climbing => Carrying
  <2>1. Init => PushedIsOnSite
    BY DEF Init, PushedIsOnSite, Fresh
  <2>2. Init => Carried
    BY DEF Init, Carried
  <2> QED BY <2>1, <2>2 DEF Carrying
<1>2. Carrying /\ Climbing' /\ [Next]_vars => Carrying'
  BY CarriedNext, SiteNext DEF Carrying, Climbing, Valid
<1>3. Carrying => PushedIsOnSite
  BY DEF Carrying
<1>4. Guarded
  BY DEF Guarded
<1> QED BY <1>1, <1>2, <1>3, <1>4, ClimbingInv, PTL DEF Spec

===============================================================================
