---------------------------- MODULE DeployProofs ----------------------------
(***************************************************************************)
(* What Deploy.tla promises for any number of accounts, faults and runs:   *)
(* a clean full run connects the entrypoints with the runtime and grants   *)
(* every call, two of them wire everything, a step of deploy.sh can be     *)
(* repeated, and a clean destroy leaves nothing behind.                    *)
(***************************************************************************)
EXTENDS Deploy, SequenceTheorems, TLAPS

Steps ==
    {"security", "agentcore", "router", "gateway", "observability", "webui",
     "deploy-runtime", "persist-runtime", "create-gateway", "persist-gateway",
     "demo-whoami", "demo-docs", "demo-doc-write", "empty-gateway",
     "delete-gateway", "delete-runtime", "user-tokens", "clear-config"}

Has(q, x) == \E i \in 1..Len(q) : q[i] = x

\* After every x in the plan q there is a y.
Then(q, x, y) ==
    \A i \in 1..Len(q) : q[i] = x => \E j \in 1..Len(q) : i < j /\ q[j] = y

\* Every x in the plan q comes before any y.
Before(q, x, y) == \A i, j \in 1..Len(q) : q[i] = x /\ q[j] = y => i < j

ToDo(x) == Has(script.todo, x)

\* What the order of the steps in the plans is good for.
Orderly ==
    /\ script.name = "full" =>
         /\ Then(script.todo, "deploy-runtime", "persist-runtime")
         /\ Then(script.todo, "persist-runtime", "router")
         /\ Then(script.todo, "persist-runtime", "webui")
         /\ Then(script.todo, "create-gateway", "persist-gateway")
    /\ script.name = "destroy" =>
         /\ Then(script.todo, "empty-gateway", "delete-gateway")
         /\ Then(script.todo, "webui", "user-tokens")
         /\ Before(script.todo, "delete-gateway", "security")
    /\ script.name # "destroy" =>
         \A x \in Tools : Before(script.todo, "create-gateway", x)

\* A target is created at a gateway that exists.
GatewayFirst ==
    script.name # "destroy" /\ (\E x \in Tools : ToDo(x)) /\ ~ToDo("create-gateway")
        => gateway[Target] # NoGateway

\* Only full runs on one target make a streak.
StreakOK ==
    /\ streak.target = Target
    /\ streak.length > 0 => script.name = "full"

ScriptOK ==
    script \in [name : {"full", "part", "destroy"}, target : Targets,
                todo : Seq(Steps), clean : BOOLEAN]

\* The inductive invariant behind the types.
PlanInv == ScriptOK /\ Orderly /\ GatewayFirst /\ StreakOK

\* TypeOK in two halves: what a script changes as it goes on, and the rest.
RunOK ==
    /\ ScriptOK
    /\ \E plan \in {FullRun, DestroyRun, Base, RuntimePhase, GatewayPhase,
                    FrontendPhase} : IsSuffix(script.todo, plan)
    /\ faults \in 0..MaxFaults /\ runs \in [Targets -> Nat]
    /\ streak \in [target : Targets, length : 0..2]
    /\ spoiled \subseteq Targets

CloudOK ==
    /\ stacks \in [Targets -> SUBSET Stacks]
    /\ pool \in [Targets -> Ids]
    /\ arn \in [Targets -> [{"router", "webui"} -> Ids]]
    /\ runtime \in [Targets -> [id : Ids, url : Ids, pool : Ids]]
    /\ gateway \in [Targets -> [id : Ids, pool : Ids, tools : SUBSET Tools,
                                leaving : SUBSET Tools]]
    /\ userTokens \in [Targets -> BOOLEAN]
    /\ context \in [runtime : Ids, url : Ids]
    /\ config \in Targets \cup {Nobody}
    /\ made \in Ids
    /\ \A t \in Targets :
         /\ pool[t] # 0 <=> "security" \in stacks[t]
         /\ gateway[t].id = 0 => gateway[t] = NoGateway
         /\ runtime[t].id = 0 => runtime[t] = NoRuntime
         /\ gateway[t].tools \cap gateway[t].leaving = {}

\* A destroy that has met no fault has undone what it no longer has to do.
Undone ==
    script.name = "destroy" =>
        IF ~script.clean THEN Target \in spoiled
        ELSE /\ \A s \in Stacks : ~ToDo(s) => s \notin stacks[Target]
             /\ ~ToDo("delete-gateway") => gateway[Target] = NoGateway
             /\ ~ToDo("delete-runtime") => runtime[Target] = NoRuntime
             /\ ~ToDo("user-tokens") => ~userTokens[Target]

\* Unless a destroy met a fault, a gateway trusts the pool that exists, and its
\* targets leave only while a destroy waits for it.
Trusted ==
    \A t \in Targets \ spoiled :
        /\ gateway[t] # NoGateway =>
             gateway[t].pool = pool[t] /\ "security" \in stacks[t]
        /\ gateway[t].leaving # {} =>
             script.name = "destroy" /\ Target = t /\ ToDo("delete-gateway")

\* A full run that has met no fault has done what it no longer has to do.
DoneSoFar ==
    script.name = "full" /\ script.clean =>
        /\ \A s \in Stacks : ~ToDo(s) => s \in stacks[Target]
        /\ ~ToDo("deploy-runtime") =>
             /\ runtime[Target] # NoRuntime /\ runtime[Target].pool = pool[Target]
             /\ "security" \in stacks[Target]
        /\ ~ToDo("persist-runtime") => context.runtime = runtime[Target].id
        /\ ~ToDo("router") => arn[Target]["router"] = runtime[Target].id
        /\ ~ToDo("webui") => arn[Target]["webui"] = runtime[Target].id
        /\ ~ToDo("create-gateway") => gateway[Target] # NoGateway
        /\ ~ToDo("persist-gateway") => context.url = gateway[Target].id
        /\ \A x \in Tools : ~ToDo(x) /\ Target \notin spoiled =>
             x \in gateway[Target].tools

\* What a full run without a fault leaves, and no later step takes away.
Whole(t) ==
    /\ stacks[t] = Stacks /\ EntriesReachRuntime(t)
    /\ runtime[t].pool = pool[t] /\ gateway[t] # NoGateway
    /\ context = [runtime |-> runtime[t].id, url |-> gateway[t].id]

\* All is wired but for the URL the runtime was given, which is right once a
\* second run has deployed the runtime again.
Settled ==
    streak.length > 0 =>
        /\ Whole(Target)
        /\ Target \notin spoiled => gateway[Target].tools = Tools
        /\ \/ streak.length = 2
           \/ ~Idle /\ ~ToDo("deploy-runtime")
           => runtime[Target].url = gateway[Target].id

-----------------------------------------------------------------------------
(* Plans. *)

LEMMA PhaseTypes ==
    /\ Base \in Seq(Steps) /\ Len(Base) = 5
    /\ RuntimePhase \in Seq(Steps) /\ Len(RuntimePhase) = 2
    /\ GatewayPhase \in Seq(Steps) /\ Len(GatewayPhase) = 5
    /\ FrontendPhase \in Seq(Steps) /\ Len(FrontendPhase) = 3
<1>1. Base \in Seq(Steps) /\ Len(Base) = 5
  BY DEF Base, Steps
<1>2. RuntimePhase \in Seq(Steps) /\ Len(RuntimePhase) = 2
  BY DEF RuntimePhase, Steps
<1>3. GatewayPhase \in Seq(Steps) /\ Len(GatewayPhase) = 5
  BY DEF GatewayPhase, Steps
<1>4. FrontendPhase \in Seq(Steps) /\ Len(FrontendPhase) = 3
  BY DEF FrontendPhase, Steps
<1> QED
  BY <1>1, <1>2, <1>3, <1>4

LEMMA Joined ==
    ASSUME NEW p \in Seq(Steps), NEW q \in Seq(Steps)
    PROVE  /\ p \o q \in Seq(Steps) /\ Len(p \o q) = Len(p) + Len(q)
           /\ \A i \in 1..Len(p) + Len(q) :
                (p \o q)[i] = IF i <= Len(p) THEN p[i] ELSE q[i - Len(p)]
BY ConcatProperties

\* The steps of a full run that the order of others depends on.
LEMMA FullRunSteps ==
    /\ FullRun \in Seq(Steps) /\ Len(FullRun) = 15
    /\ FullRun[1] = "security" /\ FullRun[2] = "agentcore"
    /\ FullRun[3] = "router" /\ FullRun[4] = "gateway"
    /\ FullRun[5] = "observability" /\ FullRun[6] = "deploy-runtime"
    /\ FullRun[7] = "persist-runtime" /\ FullRun[8] = "create-gateway"
    /\ FullRun[9] = "persist-gateway" /\ FullRun[10] = "demo-whoami"
    /\ FullRun[11] = "demo-docs" /\ FullRun[12] = "demo-doc-write"
    /\ FullRun[13] = "security" /\ FullRun[14] = "router"
    /\ FullRun[15] = "webui"
<1> DEFINE p == Base \o RuntimePhase
           q == p \o GatewayPhase
           r == q \o FrontendPhase
<1>1. /\ p \in Seq(Steps) /\ Len(p) = 7
      /\ \A i \in 1..7 : p[i] = IF i <= 5 THEN Base[i] ELSE RuntimePhase[i - 5]
  <2>1. /\ Base \in Seq(Steps) /\ RuntimePhase \in Seq(Steps)
        /\ Len(Base) = 5 /\ Len(Base) + Len(RuntimePhase) = 7
    BY PhaseTypes
  <2>2. /\ p \in Seq(Steps) /\ Len(p) = Len(Base) + Len(RuntimePhase)
        /\ \A i \in 1..Len(Base) + Len(RuntimePhase) :
             p[i] = IF i <= Len(Base) THEN Base[i] ELSE RuntimePhase[i - Len(Base)]
    BY <2>1, Joined DEF p
  <2> HIDE DEF p
  <2> QED
    BY <2>1, <2>2
<1> HIDE DEF p
<1>2. /\ q \in Seq(Steps) /\ Len(q) = 12
      /\ \A i \in 1..12 : q[i] = IF i <= 7 THEN p[i] ELSE GatewayPhase[i - 7]
  <2>1. /\ p \in Seq(Steps) /\ GatewayPhase \in Seq(Steps)
        /\ Len(p) = 7 /\ Len(p) + Len(GatewayPhase) = 12
    BY <1>1, PhaseTypes
  <2>2. /\ q \in Seq(Steps) /\ Len(q) = Len(p) + Len(GatewayPhase)
        /\ \A i \in 1..Len(p) + Len(GatewayPhase) :
             q[i] = IF i <= Len(p) THEN p[i] ELSE GatewayPhase[i - Len(p)]
    BY <2>1, Joined DEF q
  <2> HIDE DEF q
  <2> QED
    BY <2>1, <2>2
<1> HIDE DEF q
<1>3. /\ r \in Seq(Steps) /\ Len(r) = 15
      /\ \A i \in 1..15 : r[i] = IF i <= 12 THEN q[i] ELSE FrontendPhase[i - 12]
  <2>1. /\ q \in Seq(Steps) /\ FrontendPhase \in Seq(Steps)
        /\ Len(q) = 12 /\ Len(q) + Len(FrontendPhase) = 15
    BY <1>2, PhaseTypes
  <2>2. /\ r \in Seq(Steps) /\ Len(r) = Len(q) + Len(FrontendPhase)
        /\ \A i \in 1..Len(q) + Len(FrontendPhase) :
             r[i] = IF i <= Len(q) THEN q[i] ELSE FrontendPhase[i - Len(q)]
    BY <2>1, Joined DEF r
  <2> HIDE DEF r
  <2> QED
    BY <2>1, <2>2
<1> HIDE DEF r
<1>4. r = FullRun
  BY DEF r, q, p, FullRun
<1>5. /\ r[1] = "security" /\ r[2] = "agentcore" /\ r[3] = "router"
      /\ r[4] = "gateway" /\ r[5] = "observability"
  BY <1>1, <1>2, <1>3 DEF Base
<1>6. r[6] = "deploy-runtime" /\ r[7] = "persist-runtime"
  BY <1>1, <1>2, <1>3 DEF RuntimePhase
<1>7. /\ r[8] = "create-gateway" /\ r[9] = "persist-gateway"
      /\ r[10] = "demo-whoami" /\ r[11] = "demo-docs"
      /\ r[12] = "demo-doc-write"
  BY <1>2, <1>3 DEF GatewayPhase
<1>8. r[13] = "security" /\ r[14] = "router" /\ r[15] = "webui"
  BY <1>3 DEF FrontendPhase
<1> QED
  BY <1>3, <1>4, <1>5, <1>6, <1>7, <1>8

LEMMA StacksAre ==
    Stacks = {"security", "agentcore", "router", "gateway", "observability",
              "webui"}
BY DEF Stacks, Base, Range

\* The first step of a plan, and the others.
LEMMA HasTail ==
    ASSUME NEW q \in Seq(Steps), q # <<>>
    PROVE  /\ Tail(q) \in Seq(Steps)
           /\ \A x : Has(q, x) <=> x = Head(q) \/ Has(Tail(q), x)
<1>1. /\ Tail(q) \in Seq(Steps) /\ Len(q) \in Nat /\ 1 \in 1..Len(q)
      /\ Head(q) = q[1] /\ Len(Tail(q)) = Len(q) - 1
      /\ \A i \in 1..Len(Tail(q)) : Tail(q)[i] = q[i + 1] /\ i + 1 \in 1..Len(q)
  OBVIOUS
<1>2. ASSUME NEW i \in 1..Len(q), i # 1
      PROVE  i - 1 \in 1..Len(Tail(q)) /\ Tail(q)[i - 1] = q[i]
  <2>1. i - 1 \in 1..Len(Tail(q)) /\ (i - 1) + 1 = i
    BY <1>1, <1>2
  <2> QED
    BY <1>1, <2>1
<1>3. \A x : Has(q, x) => x = Head(q) \/ Has(Tail(q), x)
  BY <1>1, <1>2 DEF Has
<1>4. \A x : x = Head(q) \/ Has(Tail(q), x) => Has(q, x)
  BY <1>1 DEF Has
<1> QED
  BY <1>1, <1>3, <1>4

LEMMA OrderTail ==
    ASSUME NEW q \in Seq(Steps), q # <<>>, NEW x, NEW y
    PROVE  /\ Then(q, x, y) =>
                /\ Then(Tail(q), x, y)
                /\ Has(q, x) => Has(q, y)
                /\ Head(q) = x => Has(Tail(q), y)
           /\ Before(q, x, y) =>
                /\ Before(Tail(q), x, y)
                /\ Head(q) = y => ~Has(q, x)
<1>1. /\ Len(q) \in Nat /\ 1 \in 1..Len(q)
      /\ Head(q) = q[1] /\ Len(Tail(q)) = Len(q) - 1
      /\ \A i \in 1..Len(Tail(q)) : Tail(q)[i] = q[i + 1] /\ i + 1 \in 1..Len(q)
  OBVIOUS
<1>2. ASSUME NEW i \in 1..Len(q), i # 1
      PROVE  i - 1 \in 1..Len(Tail(q)) /\ Tail(q)[i - 1] = q[i]
  <2>1. i - 1 \in 1..Len(Tail(q)) /\ (i - 1) + 1 = i
    BY <1>1, <1>2
  <2> QED
    BY <1>1, <2>1
<1>3. ASSUME Then(q, x, y), NEW i \in 1..Len(q), q[i] = x
      PROVE  \E j \in 1..Len(Tail(q)) : i < j + 1 /\ Tail(q)[j] = y
  <2>1. PICK j \in 1..Len(q) : i < j /\ q[j] = y
    BY <1>3 DEF Then
  <2>2. j # 1 /\ i < (j - 1) + 1
    BY <1>1, <2>1
  <2> QED
    BY <1>2, <2>1, <2>2
<1>4. ASSUME Then(q, x, y)
      PROVE  /\ Then(Tail(q), x, y)
             /\ Has(q, x) => Has(q, y)
             /\ Head(q) = x => Has(Tail(q), y)
  <2>1. ASSUME NEW i \in 1..Len(Tail(q)), Tail(q)[i] = x
        PROVE  \E j \in 1..Len(Tail(q)) : i < j /\ Tail(q)[j] = y
    <3>1. i + 1 \in 1..Len(q) /\ q[i + 1] = x
      BY <1>1, <2>1
    <3>2. PICK j \in 1..Len(Tail(q)) : i + 1 < j + 1 /\ Tail(q)[j] = y
      BY <1>3, <1>4, <3>1
    <3> QED
      BY <1>1, <3>2
  <2>2. Has(q, x) => Has(q, y)
    BY <1>4 DEF Then, Has
  <2>3. Head(q) = x => Has(Tail(q), y)
    BY <1>1, <1>3, <1>4 DEF Has
  <2> QED
    BY <2>1, <2>2, <2>3 DEF Then
<1>5. ASSUME Before(q, x, y)
      PROVE  /\ Before(Tail(q), x, y)
             /\ Head(q) = y => ~Has(q, x)
  <2>1. ASSUME NEW i \in 1..Len(Tail(q)), NEW j \in 1..Len(Tail(q)),
               Tail(q)[i] = x, Tail(q)[j] = y
        PROVE  i < j
    <3>1. /\ i + 1 \in 1..Len(q) /\ q[i + 1] = x
          /\ j + 1 \in 1..Len(q) /\ q[j + 1] = y
      BY <1>1, <2>1
    <3>2. i + 1 < j + 1
      BY <1>5, <3>1 DEF Before
    <3> QED
      BY <3>2
  <2>2. Head(q) = y => ~Has(q, x)
    BY <1>1, <1>5 DEF Before, Has
  <2> QED
    BY <2>1, <2>2 DEF Before
<1> QED
  BY <1>4, <1>5

LEMMA Nothing == \A x, y : ~Has(<<>>, x) /\ Then(<<>>, x, y) /\ Before(<<>>, x, y)
BY DEF Has, Then, Before

LEMMA PlanTypes ==
    /\ FullRun \in Seq(Steps) /\ DestroyRun \in Seq(Steps)
    /\ Base \in Seq(Steps) /\ RuntimePhase \in Seq(Steps)
    /\ GatewayPhase \in Seq(Steps) /\ FrontendPhase \in Seq(Steps)
<1>1. DestroyRun \in Seq(Steps)
  BY DEF DestroyRun, Steps
<1> QED
  BY <1>1, PhaseTypes, FullRunSteps

\* What a full run has to do, and in which order.
LEMMA FullRunOrder ==
    /\ \A x \in Stacks \cup Tools \cup
                {"deploy-runtime", "persist-runtime", "create-gateway",
                 "persist-gateway"} : Has(FullRun, x)
    /\ Then(FullRun, "deploy-runtime", "persist-runtime")
    /\ Then(FullRun, "persist-runtime", "router")
    /\ Then(FullRun, "persist-runtime", "webui")
    /\ Then(FullRun, "create-gateway", "persist-gateway")
    /\ \A x \in Tools : Before(FullRun, "create-gateway", x)
<1>2. \A i \in 1..15 :
        \/ i = 1 \/ i = 2 \/ i = 3 \/ i = 4 \/ i = 5 \/ i = 6 \/ i = 7 \/ i = 8
        \/ i = 9 \/ i = 10 \/ i = 11 \/ i = 12 \/ i = 13 \/ i = 14 \/ i = 15
  OBVIOUS
<1>3. \A x \in Stacks \cup Tools \cup
                {"deploy-runtime", "persist-runtime", "create-gateway",
                 "persist-gateway"} : \E i \in 1..15 : FullRun[i] = x
  BY FullRunSteps, StacksAre DEF Tools
<1>4. ASSUME NEW x \in Tools
      PROVE  Before(FullRun, "create-gateway", x)
  <2>1. \A i \in 1..15 :
          /\ FullRun[i] = "create-gateway" => i = 8
          /\ FullRun[i] = x => i > 8
    BY FullRunSteps, <1>2 DEF Tools
  <2> QED
    BY FullRunSteps, <2>1 DEF Before
<1> QED
  BY FullRunSteps, <1>2, <1>3, <1>4 DEF Has, Then

LEMMA DestroyRunOrder ==
    /\ \A x \in Stacks \cup
                {"delete-gateway", "delete-runtime", "user-tokens"} :
         Has(DestroyRun, x)
    /\ Then(DestroyRun, "empty-gateway", "delete-gateway")
    /\ Then(DestroyRun, "webui", "user-tokens")
    /\ Before(DestroyRun, "delete-gateway", "security")
<1>1. /\ Len(DestroyRun) = 11
      /\ DestroyRun[1] = "empty-gateway" /\ DestroyRun[2] = "delete-gateway"
      /\ DestroyRun[3] = "delete-runtime" /\ DestroyRun[4] = "webui"
      /\ DestroyRun[5] = "gateway" /\ DestroyRun[6] = "router"
      /\ DestroyRun[7] = "agentcore" /\ DestroyRun[8] = "observability"
      /\ DestroyRun[9] = "security" /\ DestroyRun[10] = "user-tokens"
      /\ DestroyRun[11] = "clear-config"
  BY DEF DestroyRun, Steps
<1>2. \A i \in 1..11 :
        \/ i = 1 \/ i = 2 \/ i = 3 \/ i = 4 \/ i = 5 \/ i = 6 \/ i = 7 \/ i = 8
        \/ i = 9 \/ i = 10 \/ i = 11
  OBVIOUS
<1>3. \A x \in Stacks \cup {"delete-gateway", "delete-runtime", "user-tokens"} :
        \E i \in 1..11 : DestroyRun[i] = x
  BY <1>1, StacksAre
<1>4. /\ Then(DestroyRun, "webui", "user-tokens")
      /\ Then(DestroyRun, "empty-gateway", "delete-gateway")
  BY <1>1, <1>2 DEF Then
<1>5. Before(DestroyRun, "delete-gateway", "security")
  BY <1>1, <1>2 DEF Before
<1> QED
  BY <1>1, <1>3, <1>4, <1>5 DEF Has

\* Only the gateway phase creates targets, and the gateway before them.
LEMMA PartsOrder ==
    /\ Has(GatewayPhase, "create-gateway")
    /\ \A plan \in {Base, RuntimePhase, FrontendPhase}, x \in Tools : ~Has(plan, x)
    /\ \A plan \in {Base, RuntimePhase, GatewayPhase, FrontendPhase}, x \in Tools :
         Before(plan, "create-gateway", x)
<1>1. ASSUME NEW x \in Tools
      PROVE  ~Has(Base, x) /\ ~Has(RuntimePhase, x) /\ ~Has(FrontendPhase, x)
  BY DEF Tools, Has, Base, RuntimePhase, FrontendPhase
<1>2. Has(GatewayPhase, "create-gateway")
  BY DEF Has, GatewayPhase
<1>3. ASSUME NEW x \in Tools
      PROVE  Before(GatewayPhase, "create-gateway", x)
  BY DEF Before, GatewayPhase, Tools
<1>4. ASSUME NEW plan, NEW x, ~Has(plan, x)
      PROVE  Before(plan, "create-gateway", x)
  BY <1>4 DEF Has, Before
<1>5. \A plan \in {Base, RuntimePhase, FrontendPhase}, x \in Tools : ~Has(plan, x)
  BY <1>1
<1> QED
  BY <1>2, <1>3, <1>4, <1>5

-----------------------------------------------------------------------------
(* Suffixes of plans. *)

\* What IsSuffix(a, b) says of the elements.
Closes(a, b) ==
    /\ Len(a) <= Len(b)
    /\ \A i \in 1..Len(a) : a[(Len(a) - i) + 1] = b[(Len(b) - i) + 1]

LEMMA PrefixIs ==
    ASSUME NEW a \in Seq(Steps), NEW b \in Seq(Steps)
    PROVE  IsPrefix(a, b) <=>
             Len(a) <= Len(b) /\ \A i \in 1..Len(a) : a[i] = b[i]
<1>1. ASSUME NEW c \in Seq(Steps), NEW n \in Nat, n <= Len(c)
      PROVE  /\ SubSeq(c, 1, n) \in Seq(Steps) /\ Len(SubSeq(c, 1, n)) = n
             /\ \A i \in 1..n : SubSeq(c, 1, n)[i] = c[i]
  BY <1>1
<1>2. ASSUME Len(a) <= Len(b), \A i \in 1..Len(a) : a[i] = b[i]
      PROVE SubSeq(a, 1, Len(a)) = SubSeq(b, 1, Len(a))
  <2>1. Len(a) \in Nat /\ Len(a) <= Len(a)
    OBVIOUS
  <2> DEFINE x == SubSeq(a, 1, Len(a))
             y == SubSeq(b, 1, Len(a))
  <2>2. x \in Seq(Steps) /\ Len(x) = Len(a) /\ \A i \in 1..Len(a) : x[i] = a[i]
    BY <1>1, <2>1
  <2>3. y \in Seq(Steps) /\ Len(y) = Len(a) /\ \A i \in 1..Len(a) : y[i] = b[i]
    BY <1>1, <1>2, <2>1
  <2> HIDE DEF x, y
  <2>4. x = y
    BY <1>2, <2>2, <2>3, SeqEqual
  <2> QED
    BY <2>4 DEF x, y
<1>3. ASSUME Len(a) <= Len(b), SubSeq(a, 1, Len(a)) = SubSeq(b, 1, Len(a)),
             NEW i \in 1..Len(a)
      PROVE a[i] = b[i]
  <2>1. Len(a) \in Nat /\ Len(a) <= Len(a)
    OBVIOUS
  <2> QED
    BY <1>1, <1>3, <2>1
<1> QED
  BY <1>2, <1>3 DEF IsPrefix

LEMMA SuffixIs ==
    ASSUME NEW a \in Seq(Steps), NEW b \in Seq(Steps)
    PROVE  IsSuffix(a, b) <=> Closes(a, b)
<1>1. ASSUME NEW c \in Seq(Steps)
      PROVE  /\ Reverse(c) \in Seq(Steps) /\ Len(Reverse(c)) = Len(c)
             /\ \A i \in 1..Len(c) : Reverse(c)[i] = c[(Len(c) - i) + 1]
  <2>1. \A i \in 1..Len(c) : (Len(c) - i) + 1 \in 1..Len(c)
    OBVIOUS
  <2> QED
    BY <2>1 DEF Reverse
<1> QED
  BY <1>1, PrefixIs DEF IsSuffix, Closes

LEMMA SuffixTail ==
    ASSUME NEW a \in Seq(Steps), NEW b \in Seq(Steps), IsSuffix(a, b), a # <<>>
    PROVE IsSuffix(Tail(a), b)
<1>1. /\ Tail(a) \in Seq(Steps) /\ Len(Tail(a)) = Len(a) - 1
      /\ Len(a) \in Nat /\ Len(b) \in Nat
      /\ \A i \in 1..Len(Tail(a)) : Tail(a)[i] = a[i + 1]
  OBVIOUS
<1>2. Len(a) <= Len(b) /\ \A i \in 1..Len(a) : a[(Len(a) - i) + 1] = b[(Len(b) - i) + 1]
  BY SuffixIs DEF Closes
<1>3. ASSUME NEW i \in 1..Len(Tail(a))
      PROVE  Tail(a)[(Len(Tail(a)) - i) + 1] = b[(Len(b) - i) + 1]
  <2>1. (Len(Tail(a)) - i) + 1 \in 1..Len(Tail(a)) /\ i \in 1..Len(a)
        /\ ((Len(Tail(a)) - i) + 1) + 1 = (Len(a) - i) + 1
    BY <1>1
  <2> QED
    BY <1>1, <1>2, <2>1
<1>4. Closes(Tail(a), b)
  BY <1>1, <1>2, <1>3 DEF Closes
<1> QED
  BY <1>1, <1>4, SuffixIs

LEMMA SuffixEnds ==
    ASSUME NEW b \in Seq(Steps)
    PROVE IsSuffix(<<>>, b) /\ IsSuffix(b, b)
<1>1. <<>> \in Seq(Steps) /\ Len(<<>>) = 0 /\ Len(b) \in Nat
  OBVIOUS
<1>2. IsSuffix(<<>>, b)
  <2>1. Closes(<<>>, b)
    BY <1>1 DEF Closes
  <2> QED
    BY <1>1, <2>1, SuffixIs
<1>3. Closes(b, b)
  BY <1>1 DEF Closes
<1> QED
  BY <1>2, <1>3, SuffixIs

-----------------------------------------------------------------------------
(* What a script does to its own state. *)

LEMMA TypeSplit == ScriptOK => (TypeOK <=> RunOK /\ CloudOK)
BY DEF ScriptOK, TypeOK, RunOK, CloudOK

Shape == RunOK /\ Orderly /\ StreakOK

\* The script goes on to its next step.
LEMMA Goes ==
    ASSUME Shape, ~Idle, NEW ok \in BOOLEAN, Proceed(ok),
           faults' \in 0..MaxFaults
    PROVE  /\ script'.name = script.name /\ script'.target = script.target
           /\ script'.clean = (script.clean /\ ok)
           /\ \A x : ToDo(x) <=> x = Head(script.todo) \/ ToDo(x)'
           /\ Shape'
<1>1. /\ script.todo \in Seq(Steps) /\ script.todo # <<>>
      /\ script.name \in {"full", "part", "destroy"} /\ script.clean \in BOOLEAN
      /\ script.target \in Targets
  BY DEF Shape, RunOK, ScriptOK, Idle
<1>2. script' = [script EXCEPT !.todo = Tail(@), !.clean = @ /\ ok]
  BY DEF Proceed
<1>3. /\ script'.name = script.name /\ script'.target = script.target
      /\ script'.todo = Tail(script.todo)
      /\ script'.clean = (script.clean /\ ok)
  BY <1>2 DEF Shape, RunOK, ScriptOK
<1>4. Tail(script.todo) \in Seq(Steps)
  BY <1>1, HasTail
<1>5. \A x : ToDo(x) <=> x = Head(script.todo) \/ ToDo(x)'
  BY <1>1, <1>3, HasTail DEF ToDo
<1>6. ScriptOK'
  BY <1>1, <1>2, <1>3, <1>4 DEF Shape, RunOK, ScriptOK
<1>7. Orderly'
  BY <1>1, <1>3, OrderTail DEF Orderly, Shape
<1>8. (\E plan \in {FullRun, DestroyRun, Base, RuntimePhase, GatewayPhase,
                   FrontendPhase} : IsSuffix(script.todo, plan))'
  <2>1. PICK plan \in {FullRun, DestroyRun, Base, RuntimePhase, GatewayPhase,
                      FrontendPhase} : IsSuffix(script.todo, plan)
    BY DEF Shape, RunOK
  <2>2. IsSuffix(Tail(script.todo), plan)
    BY <1>1, <2>1, PlanTypes, SuffixTail
  <2> QED
    BY <1>3, <2>1, <2>2
<1>9. streak' \in [target : Targets, length : 0..2] /\ StreakOK'
  <2>1. streak \in [target : Targets, length : 0..2]
    BY DEF Shape, RunOK
  <2>2. streak.length \in 0..2 /\ streak.target = Target
        /\ (streak.length > 0 => script.name = "full")
    BY <2>1 DEF Shape, StreakOK
  <2>3. PICK n : /\ streak' = [streak EXCEPT !.length = n]
                 /\ \/ n = 0 \/ n = streak.length
                    \/ /\ n = streak.length + 1 /\ streak.length < 2
                       /\ script.name = "full"
    BY DEF Proceed, Score
  <2>4. n \in 0..2 /\ (n > 0 => script.name = "full")
    BY <2>2, <2>3
  <2>5. streak'.target = streak.target /\ streak'.length = n
    BY <2>1, <2>3
  <2>6. streak' \in [target : Targets, length : 0..2]
    BY <2>1, <2>3, <2>4
  <2> QED
    BY <1>3, <2>2, <2>4, <2>5, <2>6 DEF StreakOK, Target
<1>10. spoiled' \subseteq Targets
  BY <1>1 DEF Proceed, Score, Shape, RunOK, Target
<1> QED
  BY <1>3, <1>5, <1>6, <1>7, <1>8, <1>9, <1>10 DEF Shape, RunOK, Proceed

\* The script ends, with a fault.
LEMMA Stops ==
    ASSUME Shape, script' = [script EXCEPT !.todo = <<>>, !.clean = FALSE],
           Score(<<>>, FALSE), runs' = runs, faults' \in 0..MaxFaults
    PROVE  /\ script'.name = script.name /\ script'.target = script.target
           /\ script'.todo = <<>> /\ script'.clean = FALSE
           /\ \A x : ~ToDo(x)'
           /\ Shape' /\ streak'.length = 0
<1>1. /\ script.name \in {"full", "part", "destroy"} /\ script.target \in Targets
      /\ script'.name = script.name /\ script'.target = script.target
      /\ script'.todo = <<>> /\ script'.clean = FALSE
  BY DEF Shape, RunOK, ScriptOK
<1>2. <<>> \in Seq(Steps)
  OBVIOUS
<1>3. ScriptOK'
  BY <1>1, <1>2 DEF Shape, RunOK, ScriptOK
<1>4. \A x : ~ToDo(x)'
  BY <1>1, Nothing DEF ToDo
<1>5. Orderly'
  BY <1>1, Nothing DEF Orderly
<1>6. IsSuffix(<<>>, FullRun)
  BY PlanTypes, SuffixEnds
<1>7. streak \in [target : Targets, length : 0..2] /\ streak.target = Target
  BY DEF Shape, RunOK, StreakOK
<1>8. streak' = [streak EXCEPT !.length = 0]
  BY DEF Score
<1>9. /\ streak' \in [target : Targets, length : 0..2]
      /\ streak'.length = 0 /\ streak'.target = Target
  BY <1>7, <1>8
<1>10. StreakOK'
  BY <1>1, <1>9 DEF StreakOK, Target
<1>11. spoiled' \subseteq Targets
  BY <1>1 DEF Score, Shape, RunOK, Target
<1> QED
  BY <1>1, <1>3, <1>4, <1>5, <1>6, <1>9, <1>10, <1>11 DEF Shape, RunOK

\* A script starts.
LEMMA Begins ==
    ASSUME Shape, NEW t \in Targets, StartScript(t)
    PROVE  /\ script'.target = t /\ script'.clean = TRUE
           /\ Shape'
           /\ \/ script'.name = "full" /\ script'.todo = FullRun
              \/ /\ script'.name = "part"
                 /\ script'.todo \in {Base, RuntimePhase, GatewayPhase, FrontendPhase}
              \/ script'.name = "destroy" /\ script'.todo = DestroyRun
<1>1. PICK name, plan :
        /\ Start(t, name, plan)
        /\ \/ name = "full" /\ plan = FullRun
           \/ name = "part" /\ plan \in {Base, RuntimePhase, GatewayPhase, FrontendPhase}
           \/ name = "destroy" /\ plan = DestroyRun
  BY DEF StartScript
<1>2. script' = [name |-> name, target |-> t, todo |-> plan, clean |-> TRUE]
  BY <1>1 DEF Start
<1>3. /\ script'.name = name /\ script'.target = t
      /\ script'.todo = plan /\ script'.clean = TRUE
  BY <1>2
<1>4. plan \in Seq(Steps)
  BY <1>1, PlanTypes
<1>5. ScriptOK'
  BY <1>1, <1>2, <1>4 DEF ScriptOK
<1>6. Orderly'
  BY <1>1, <1>3, FullRunOrder, DestroyRunOrder, PartsOrder DEF Orderly
<1>7. IsSuffix(plan, plan)
  BY <1>4, SuffixEnds
<1>8. runs' \in [Targets -> Nat]
  BY <1>1 DEF Start, Shape, RunOK
<1>9. streak' \in [target : Targets, length : 0..2] /\ StreakOK'
  <2>1. streak \in [target : Targets, length : 0..2]
    BY DEF Shape, RunOK
  <2>2. CASE name = "full" /\ streak.target = t
    <3>1. streak' = streak
      BY <1>1, <2>2 DEF Start
    <3> QED
      BY <1>3, <2>1, <2>2, <3>1 DEF StreakOK, Target
  <2>3. CASE ~(name = "full" /\ streak.target = t)
    <3>1. streak' = [target |-> t, length |-> 0]
      BY <1>1, <2>3 DEF Start
    <3> QED
      BY <1>3, <3>1 DEF StreakOK, Target
  <2> QED
    BY <2>2, <2>3
<1> QED
  BY <1>1, <1>3, <1>5, <1>6, <1>7, <1>8, <1>9 DEF Shape, RunOK, Start

-----------------------------------------------------------------------------
(* Types. *)

\* GatewayFirst guards the creation of targets.
LEMMA AtGateway ==
    ASSUME Shape, GatewayFirst, NEW x \in Tools, Deploying(x)
    PROVE  gateway[Target] # NoGateway
<1>1. /\ script.todo \in Seq(Steps) /\ script.todo # <<>> /\ Head(script.todo) = x
      /\ script.name # "destroy"
  BY DEF Shape, RunOK, ScriptOK, Deploying, Doing, Idle
<1>2. ToDo(x)
  BY <1>1, HasTail DEF ToDo
<1>3. Before(script.todo, "create-gateway", x)
  BY <1>1 DEF Shape, Orderly
<1>4. ~ToDo("create-gateway")
  BY <1>1, <1>3, OrderTail DEF ToDo
<1> QED
  BY <1>1, <1>2, <1>4 DEF GatewayFirst

LEMMA CloudTypes == Shape /\ CloudOK /\ GatewayFirst /\ [Next]_vars => CloudOK'
<1> SUFFICES ASSUME Shape, CloudOK, GatewayFirst, [Next]_vars
             PROVE  CloudOK'
  OBVIOUS
<1> DEFINE p == Target
<1>0. p \in Targets
  BY DEF Shape, RunOK, ScriptOK, Target
<1>1. CASE DeploySecurity
  <2>1. /\ UNCHANGED <<arn, runtime, gateway, userTokens, context, config>>
        /\ stacks' = [stacks EXCEPT ![p] = @ \cup {"security"}]
        /\ \/ "security" \in stacks[p] /\ pool' = pool /\ made' = made
           \/ made' = made + 1 /\ pool' = [pool EXCEPT ![p] = made + 1]
    BY <1>1 DEF DeploySecurity, local
  <2>2. stacks' \in [Targets -> SUBSET Stacks]
    BY <1>0, <2>1, StacksAre DEF CloudOK
  <2>3. pool' \in [Targets -> Ids] /\ made' \in Ids
    BY <1>0, <2>1 DEF CloudOK, Ids
  <2>4. ASSUME NEW t \in Targets
        PROVE  (pool[t] # 0 <=> "security" \in stacks[t])'
    <3>1. CASE t = p
      BY <1>0, <2>1, <3>1 DEF CloudOK, Ids
    <3>2. CASE t # p
      BY <1>0, <2>1, <3>2 DEF CloudOK, Ids
    <3> QED
      BY <3>1, <3>2
  <2> QED
    BY <2>1, <2>2, <2>3, <2>4 DEF CloudOK
<1>2. ASSUME NEW s \in Stacks, DeployEntrypoint(s)
      PROVE  CloudOK'
  <2>1. /\ UNCHANGED <<pool, runtime, gateway, userTokens, context, config, made>>
        /\ s \in {"router", "webui"}
        /\ stacks' = [stacks EXCEPT ![p] = @ \cup {s}]
        /\ arn' = [arn EXCEPT ![p][s] = context.runtime]
    BY <1>2 DEF DeployEntrypoint, local
  <2>2. stacks' \in [Targets -> SUBSET Stacks]
    BY <1>0, <2>1 DEF CloudOK
  <2>3. arn' \in [Targets -> [{"router", "webui"} -> Ids]]
    <3>1. context.runtime \in Ids /\ arn[p] \in [{"router", "webui"} -> Ids]
      BY <1>0 DEF CloudOK
    <3>2. [arn[p] EXCEPT ![s] = context.runtime] \in [{"router", "webui"} -> Ids]
      BY <2>1, <3>1
    <3> QED
      BY <1>0, <2>1, <3>2 DEF CloudOK
  <2>4. \A t \in Targets : "security" \in stacks'[t] <=> "security" \in stacks[t]
    BY <1>0, <2>1 DEF CloudOK
  <2> QED
    BY <2>1, <2>2, <2>3, <2>4 DEF CloudOK
<1>3. ASSUME NEW s \in Stacks, DeployStack(s)
      PROVE  CloudOK'
  <2>1. /\ UNCHANGED <<pool, arn, runtime, gateway, userTokens, context, config, made>>
        /\ s # "security"
        /\ stacks' = [stacks EXCEPT ![p] = @ \cup {s}]
    BY <1>3 DEF DeployStack, local
  <2>2. stacks' \in [Targets -> SUBSET Stacks]
    BY <1>0, <2>1 DEF CloudOK
  <2>3. \A t \in Targets : "security" \in stacks'[t] <=> "security" \in stacks[t]
    BY <1>0, <2>1 DEF CloudOK
  <2> QED
    BY <2>1, <2>2, <2>3 DEF CloudOK
<1>4. CASE DeployRuntime
  <2>1. PICK id :
          /\ UNCHANGED <<stacks, pool, arn, gateway, userTokens, context, config>>
          /\ id = IF runtime[p] = NoRuntime THEN made + 1 ELSE runtime[p].id
          /\ runtime' = [runtime EXCEPT ![p] =
                            [id |-> id, url |-> context.url, pool |-> pool[p]]]
          /\ made' = IF id > made THEN id ELSE made
    BY <1>4 DEF DeployRuntime, local
  <2>2. made \in Nat /\ runtime[p].id \in Nat /\ pool[p] \in Nat /\ context.url \in Nat
        /\ (runtime[p].id = 0 => runtime[p] = NoRuntime)
    BY <1>0 DEF CloudOK, Ids
  <2>3. id \in Nat /\ id # 0
    BY <2>1, <2>2
  <2>4. runtime' \in [Targets -> [id : Ids, url : Ids, pool : Ids]] /\ made' \in Ids
    BY <1>0, <2>1, <2>2, <2>3 DEF CloudOK, Ids
  <2>5. ASSUME NEW t \in Targets
        PROVE  (runtime[t].id = 0 => runtime[t] = NoRuntime)'
    <3>1. CASE t = p
      BY <1>0, <2>1, <2>3, <3>1 DEF CloudOK
    <3>2. CASE t # p
      BY <1>0, <2>1, <3>2 DEF CloudOK
    <3> QED
      BY <3>1, <3>2
  <2> QED
    BY <1>0, <2>1, <2>4, <2>5 DEF CloudOK
<1>5. CASE PersistRuntime
  <2>1. /\ UNCHANGED <<stacks, pool, arn, runtime, gateway, userTokens, config, made>>
        /\ context' = [context EXCEPT !.runtime = runtime[p].id]
    BY <1>5 DEF PersistRuntime, cloud
  <2>2. runtime[p].id \in Ids
    BY <1>0 DEF CloudOK
  <2> QED
    BY <2>1, <2>2 DEF CloudOK
<1>6. CASE CreateGateway
  <2>1. /\ UNCHANGED <<stacks, pool, arn, runtime, userTokens, context, config>>
        /\ \/ gateway' = gateway /\ made' = made
           \/ /\ made' = made + 1
              /\ gateway' = [gateway EXCEPT ![p] =
                    [id |-> made + 1, pool |-> pool[p], tools |-> {}, leaving |-> {}]]
    BY <1>6 DEF CreateGateway, local, NoGateway
  <2>2. made \in Nat /\ made + 1 \in Nat /\ made + 1 # 0 /\ pool[p] \in Nat
    BY <1>0 DEF CloudOK, Ids
  <2>3. CASE gateway' = gateway /\ made' = made
    BY <2>1, <2>3 DEF CloudOK
  <2>4. CASE /\ made' = made + 1
             /\ gateway' = [gateway EXCEPT ![p] =
                   [id |-> made + 1, pool |-> pool[p], tools |-> {}, leaving |-> {}]]
    <3>1. gateway' \in [Targets -> [id : Ids, pool : Ids, tools : SUBSET Tools,
                                    leaving : SUBSET Tools]]
      BY <1>0, <2>2, <2>4 DEF CloudOK, Ids
    <3>2. ASSUME NEW t \in Targets
          PROVE  (/\ gateway[t].id = 0 => gateway[t] = NoGateway
                  /\ gateway[t].tools \cap gateway[t].leaving = {})'
      <4>1. CASE t = p
        BY <1>0, <2>2, <2>4, <4>1 DEF CloudOK
      <4>2. CASE t # p
        BY <1>0, <2>4, <4>2 DEF CloudOK
      <4> QED
        BY <4>1, <4>2
    <3> QED
      BY <2>1, <2>2, <2>4, <3>1, <3>2 DEF CloudOK, Ids
  <2> QED
    BY <2>1, <2>3, <2>4
<1>7. CASE PersistGateway
  <2>1. /\ UNCHANGED <<stacks, pool, arn, runtime, gateway, userTokens, config, made>>
        /\ \/ context' = context
           \/ context' = [context EXCEPT !.url = gateway[p].id]
    BY <1>7 DEF PersistGateway, cloud
  <2>2. gateway[p].id \in Ids
    BY <1>0 DEF CloudOK
  <2> QED
    BY <2>1, <2>2 DEF CloudOK
<1>8. ASSUME NEW x \in Tools, CreateTarget(x)
      PROVE  CloudOK'
  <2>1. /\ UNCHANGED <<stacks, pool, arn, runtime, userTokens, context, config, made>>
        /\ \/ gateway' = gateway
           \/ /\ x \notin gateway[p].tools \cup gateway[p].leaving
              /\ gateway' = [gateway EXCEPT ![p].tools = @ \cup {x}]
        /\ Deploying(x)
    BY <1>8 DEF CreateTarget, local
  <2>2. CASE gateway' = gateway
    BY <2>1, <2>2 DEF CloudOK
  <2>3. CASE /\ x \notin gateway[p].tools \cup gateway[p].leaving
             /\ gateway' = [gateway EXCEPT ![p].tools = @ \cup {x}]
    <3>1. gateway[p].id # 0
      BY <1>0, <2>1, AtGateway DEF CloudOK
    <3>2. gateway' \in [Targets -> [id : Ids, pool : Ids, tools : SUBSET Tools,
                                    leaving : SUBSET Tools]]
      <4>1. gateway[p] \in [id : Ids, pool : Ids, tools : SUBSET Tools,
                            leaving : SUBSET Tools]
        BY <1>0 DEF CloudOK
      <4>2. [gateway[p] EXCEPT !.tools = @ \cup {x}] \in
              [id : Ids, pool : Ids, tools : SUBSET Tools, leaving : SUBSET Tools]
        BY <4>1
      <4> QED
        BY <1>0, <2>3, <4>2 DEF CloudOK
    <3>3. ASSUME NEW t \in Targets
          PROVE  (/\ gateway[t].id = 0 => gateway[t] = NoGateway
                  /\ gateway[t].tools \cap gateway[t].leaving = {})'
      <4>1. CASE t = p
        BY <1>0, <2>3, <3>1, <4>1 DEF CloudOK
      <4>2. CASE t # p
        BY <1>0, <2>3, <4>2 DEF CloudOK
      <4> QED
        BY <4>1, <4>2
    <3> QED
      BY <2>1, <3>2, <3>3 DEF CloudOK
  <2> QED
    BY <2>1, <2>2, <2>3
<1>9. CASE EmptyGateway
  <2>1. PICK refused \in SUBSET gateway[p].tools :
          /\ UNCHANGED <<stacks, pool, arn, runtime, userTokens, context, config, made>>
          /\ gateway' = [gateway EXCEPT
                           ![p].leaving = @ \cup (gateway[p].tools \ refused),
                           ![p].tools = refused]
    BY <1>9 DEF EmptyGateway, local
  <2>2. gateway' \in [Targets -> [id : Ids, pool : Ids, tools : SUBSET Tools,
                                  leaving : SUBSET Tools]]
    <3>1. gateway[p] \in [id : Ids, pool : Ids, tools : SUBSET Tools,
                          leaving : SUBSET Tools]
      BY <1>0 DEF CloudOK
    <3>2. gateway[p].leaving \cup (gateway[p].tools \ refused) \in SUBSET Tools
          /\ refused \in SUBSET Tools
      BY <2>1, <3>1
    <3> DEFINE g == [gateway[p] EXCEPT
                       !.leaving = gateway[p].leaving \cup (gateway[p].tools \ refused),
                       !.tools = refused]
    <3>3. g \in [id : Ids, pool : Ids, tools : SUBSET Tools, leaving : SUBSET Tools]
      BY <3>1, <3>2
    <3>4. gateway' = [gateway EXCEPT ![p] = g]
      BY <1>0, <2>1 DEF CloudOK
    <3> QED
      BY <1>0, <3>3, <3>4 DEF CloudOK
  <2>3. ASSUME NEW t \in Targets
        PROVE  (/\ gateway[t].id = 0 => gateway[t] = NoGateway
                /\ gateway[t].tools \cap gateway[t].leaving = {})'
    <3>1. CASE t = p
      <4>1. /\ gateway'[p].tools = refused
            /\ gateway'[p].leaving = gateway[p].leaving \cup (gateway[p].tools \ refused)
            /\ gateway'[p].id = gateway[p].id
        BY <1>0, <2>1 DEF CloudOK
      <4>2. ASSUME gateway[p] = NoGateway
            PROVE  gateway'[p] = NoGateway
        <5>1. /\ gateway'[p] \in [id : Ids, pool : Ids, tools : SUBSET Tools,
                                   leaving : SUBSET Tools]
              /\ gateway'[p].id = 0 /\ gateway'[p].pool = 0
              /\ gateway'[p].tools = {} /\ gateway'[p].leaving = {}
          BY <1>0, <2>1, <2>2, <4>2 DEF CloudOK, NoGateway
        <5> QED
          BY <5>1 DEF NoGateway
      <4> QED
        BY <1>0, <3>1, <4>1, <4>2 DEF CloudOK
    <3>2. CASE t # p
      BY <1>0, <2>1, <3>2 DEF CloudOK
    <3> QED
      BY <3>1, <3>2
  <2> QED
    BY <2>1, <2>2, <2>3 DEF CloudOK
<1>10. ASSUME NEW u \in Targets, TargetGone(u)
       PROVE  CloudOK'
  <2>1. PICK x \in gateway[u].leaving :
          /\ UNCHANGED <<stacks, pool, arn, runtime, userTokens, context, config, made>>
          /\ gateway' = [gateway EXCEPT ![u].leaving = @ \ {x}]
    BY <1>10 DEF TargetGone, local
  <2>2. gateway' \in [Targets -> [id : Ids, pool : Ids, tools : SUBSET Tools,
                                  leaving : SUBSET Tools]]
    <3>1. gateway[u] \in [id : Ids, pool : Ids, tools : SUBSET Tools,
                          leaving : SUBSET Tools]
      BY DEF CloudOK
    <3>2. [gateway[u] EXCEPT !.leaving = @ \ {x}] \in
            [id : Ids, pool : Ids, tools : SUBSET Tools, leaving : SUBSET Tools]
      BY <3>1
    <3> QED
      BY <2>1, <3>2 DEF CloudOK
  <2>3. gateway[u].id # 0
    BY <2>1 DEF CloudOK, NoGateway
  <2>4. ASSUME NEW t \in Targets
        PROVE  (/\ gateway[t].id = 0 => gateway[t] = NoGateway
                /\ gateway[t].tools \cap gateway[t].leaving = {})'
    <3>1. CASE t = u
      BY <2>1, <2>3, <3>1 DEF CloudOK
    <3>2. CASE t # u
      BY <2>1, <3>2 DEF CloudOK
    <3> QED
      BY <3>1, <3>2
  <2> QED
    BY <2>1, <2>2, <2>4 DEF CloudOK
<1>11. CASE DeleteGateway
  <2>1. /\ UNCHANGED <<stacks, pool, arn, runtime, userTokens, context, config, made>>
        /\ \/ gateway' = gateway
           \/ gateway' = [gateway EXCEPT ![p] = NoGateway]
    BY <1>11 DEF DeleteGateway, local
  <2>2. gateway' \in [Targets -> [id : Ids, pool : Ids, tools : SUBSET Tools,
                                  leaving : SUBSET Tools]]
    <3>1. NoGateway \in [id : Ids, pool : Ids, tools : SUBSET Tools,
                         leaving : SUBSET Tools]
      BY DEF NoGateway, Ids
    <3> QED
      BY <1>0, <2>1, <3>1 DEF CloudOK
  <2>3. ASSUME NEW t \in Targets
        PROVE  (/\ gateway[t].id = 0 => gateway[t] = NoGateway
                /\ gateway[t].tools \cap gateway[t].leaving = {})'
    <3>1. gateway'[t] = gateway[t] \/ gateway'[t] = NoGateway
      BY <1>0, <2>1 DEF CloudOK
    <3>2. CASE gateway'[t] = gateway[t]
      BY <3>2 DEF CloudOK
    <3>3. CASE gateway'[t] = NoGateway
      BY <3>3 DEF NoGateway
    <3> QED
      BY <3>1, <3>2, <3>3
  <2> QED
    BY <2>1, <2>2, <2>3 DEF CloudOK
<1>12. CASE DeleteRuntime
  <2>1. /\ UNCHANGED <<stacks, pool, arn, gateway, userTokens, context, config, made>>
        /\ \/ runtime' = runtime
           \/ runtime' = [runtime EXCEPT ![p] = NoRuntime]
    BY <1>12 DEF DeleteRuntime, local
  <2>2. runtime' \in [Targets -> [id : Ids, url : Ids, pool : Ids]]
    <3>1. NoRuntime \in [id : Ids, url : Ids, pool : Ids]
      BY DEF NoRuntime, Ids
    <3> QED
      BY <1>0, <2>1, <3>1 DEF CloudOK
  <2>3. ASSUME NEW t \in Targets
        PROVE  (runtime[t].id = 0 => runtime[t] = NoRuntime)'
    BY <1>0, <2>1 DEF CloudOK
  <2> QED
    BY <2>1, <2>2, <2>3 DEF CloudOK
<1>13. ASSUME NEW s \in Stacks, DestroyStack(s)
       PROVE  CloudOK'
  <2>1. /\ UNCHANGED <<runtime, gateway, userTokens, context, config, made>>
        /\ stacks' = [stacks EXCEPT ![p] = @ \ {s}]
        /\ pool' = IF s = "security" THEN [pool EXCEPT ![p] = 0] ELSE pool
        /\ arn' = IF s \in {"router", "webui"} THEN [arn EXCEPT ![p][s] = 0]
                  ELSE arn
    BY <1>13 DEF DestroyStack, local
  <2>2. stacks' \in [Targets -> SUBSET Stacks] /\ pool' \in [Targets -> Ids]
    BY <1>0, <2>1 DEF CloudOK, Ids
  <2>3. arn' \in [Targets -> [{"router", "webui"} -> Ids]]
    <3>1. arn[p] \in [{"router", "webui"} -> Ids]
      BY <1>0 DEF CloudOK
    <3>2. s \in {"router", "webui"} =>
            [arn[p] EXCEPT ![s] = 0] \in [{"router", "webui"} -> Ids]
      BY <3>1 DEF Ids
    <3> QED
      BY <1>0, <2>1, <3>2 DEF CloudOK
  <2>4. ASSUME NEW t \in Targets
        PROVE  (pool[t] # 0 <=> "security" \in stacks[t])'
    <3>1. CASE t = p
      BY <1>0, <2>1, <3>1 DEF CloudOK
    <3>2. CASE t # p
      BY <1>0, <2>1, <3>2 DEF CloudOK
    <3> QED
      BY <3>1, <3>2
  <2> QED
    BY <2>1, <2>2, <2>3, <2>4 DEF CloudOK
<1>14. CASE DeleteUserTokens
  BY <1>0, <1>14 DEF DeleteUserTokens, CloudOK, local
<1>15. CASE ClearConfig
  BY <1>15 DEF ClearConfig, CloudOK, cloud
<1>16. ASSUME NEW t \in Targets, Login(t)
       PROVE  CloudOK'
  BY <1>16 DEF Login, CloudOK, local
<1>17. CASE UNCHANGED <<cloud, local, made>>
  BY <1>17 DEF CloudOK, cloud, local
<1>18. UNCHANGED vars => UNCHANGED <<cloud, local, made>>
  BY DEF vars
<1>19. ASSUME NEW t \in Targets, StartScript(t)
       PROVE  UNCHANGED <<cloud, local, made>>
  BY <1>19 DEF StartScript, Start
<1>20. Abort \/ Missing => UNCHANGED <<cloud, local, made>>
  BY DEF Abort, Missing
<1>21. CASE Configure
  BY <1>0, <1>21 DEF Configure, CloudOK, cloud, Target
<1> QED
  BY <1>1, <1>2, <1>3, <1>4, <1>5, <1>6, <1>7, <1>8, <1>9, <1>10, <1>11, <1>12,
     <1>13, <1>14, <1>15, <1>16, <1>17, <1>18, <1>19, <1>20, <1>21
     DEF Next, DeployStep, DestroyStep, AtBound

-----------------------------------------------------------------------------
(* The kinds of steps. *)

Ended == script' = [script EXCEPT !.todo = <<>>, !.clean = FALSE] /\ Score(<<>>, FALSE)

\* The step that was to be done is done.
Took(names, step, ok) ==
    /\ script.name \in names /\ script'.name = script.name
    /\ script'.target = script.target
    /\ script'.clean = (script.clean /\ ok)
    /\ \A x : ToDo(x) <=> x = step \/ ToDo(x)'

LEMMA Takes ==
    ASSUME Shape, NEW names, NEW step, Doing(names, step),
           NEW ok \in BOOLEAN, Proceed(ok), faults' \in 0..MaxFaults
    PROVE  Took(names, step, ok)
<1>1. ~Idle /\ Head(script.todo) = step /\ script.name \in names
  BY DEF Doing
<1> QED
  BY <1>1, Goes DEF Took

LEMMA Counts ==
    Shape => /\ Succeed => Proceed(TRUE) /\ faults' \in 0..MaxFaults
             /\ Fail => Proceed(FALSE) /\ faults' \in 0..MaxFaults
             /\ Fault => faults' \in 0..MaxFaults
<1> SUFFICES ASSUME Shape
             PROVE  /\ Succeed => Proceed(TRUE) /\ faults' \in 0..MaxFaults
                    /\ Fail => Proceed(FALSE) /\ faults' \in 0..MaxFaults
                    /\ Fault => faults' \in 0..MaxFaults
  OBVIOUS
<1>1. MaxFaults \in Nat /\ faults \in 0..MaxFaults
  BY MaxFaultsAssumption DEF Shape, RunOK
<1>2. Fault => faults' \in 0..MaxFaults
  BY <1>1 DEF Fault
<1>3. Succeed => Proceed(TRUE) /\ faults' \in 0..MaxFaults
  BY <1>1 DEF Succeed
<1> QED
  BY <1>2, <1>3 DEF Fail

LEMMA Advances ==
    Shape /\ (DeployStep \/ DestroyStep) =>
        \E ok \in BOOLEAN : ~Idle /\ Proceed(ok) /\ faults' \in 0..MaxFaults
<1> SUFFICES ASSUME Shape
             PROVE  DeployStep \/ DestroyStep =>
                      \E ok \in BOOLEAN : ~Idle /\ Proceed(ok) /\ faults' \in 0..MaxFaults
  OBVIOUS
<1> DEFINE Goal == \E ok \in BOOLEAN :
                     ~Idle /\ Proceed(ok) /\ faults' \in 0..MaxFaults
<1>1. faults \in 0..MaxFaults
  BY DEF Shape, RunOK
<1>2. ~Idle /\ Succeed => Goal
  BY Counts
<1>3. ~Idle /\ Fail => Goal
  BY Counts
<1>4. ~Idle /\ Proceed(FALSE) /\ faults' = faults => Goal
  BY <1>1
<1> HIDE DEF Goal
<1>5. DeploySecurity \/ DeployRuntime \/ PersistRuntime \/ CreateGateway => Goal
  BY <1>2 DEF DeploySecurity, DeployRuntime, PersistRuntime, CreateGateway,
              Deploying, Doing
<1>6. ASSUME NEW s \in Stacks
      PROVE  DeployEntrypoint(s) \/ DeployStack(s) \/ DestroyStack(s) => Goal
  BY <1>2 DEF DeployEntrypoint, DeployStack, DestroyStack, Deploying, Destroying, Doing
<1>7. PersistGateway => Goal
  BY <1>2, <1>3 DEF PersistGateway, Deploying, Doing
<1>8. ASSUME NEW x \in Tools
      PROVE  CreateTarget(x) => Goal
  BY <1>2, <1>3 DEF CreateTarget, Deploying, Doing
<1>9. EmptyGateway => Goal
  BY <1>2, <1>3 DEF EmptyGateway, Destroying, Doing
<1>10. DeleteGateway => Goal
  BY <1>2, <1>3, <1>4 DEF DeleteGateway, Destroying, Doing
<1>11. DeleteRuntime \/ DeleteUserTokens \/ ClearConfig => Goal
  BY <1>2, <1>3 DEF DeleteRuntime, DeleteUserTokens, ClearConfig, Destroying, Doing
<1>12. DeployStep \/ DestroyStep => Goal
  BY <1>5, <1>6, <1>7, <1>8, <1>9, <1>10, <1>11 DEF DeployStep, DestroyStep
<1> QED
  BY <1>12 DEF Goal

\* Every step: a script begins, advances or ends, or none of this.
LEMMA Kinds ==
    ASSUME Shape, [Next]_vars
    PROVE  \/ \E t \in Targets : StartScript(t)
           \/ DeployStep \/ DestroyStep
           \/ /\ Ended /\ faults' \in 0..MaxFaults
              /\ UNCHANGED <<stacks, pool, arn, runtime, gateway, userTokens,
                             context, config, runs>>
           \/ /\ UNCHANGED <<script, streak, spoiled, runs, faults>>
              /\ UNCHANGED <<stacks, pool, arn, runtime, context>>
              /\ \/ UNCHANGED <<gateway, userTokens>>
                 \/ \E t \in Targets : TargetGone(t) \/ Login(t)
<1>1. faults \in 0..MaxFaults
  BY DEF Shape, RunOK
<1>2. Abort => /\ Ended /\ faults' \in 0..MaxFaults
               /\ UNCHANGED <<stacks, pool, arn, runtime, gateway, userTokens,
                              context, config, runs>>
  BY Counts DEF Abort, Ended, cloud, local
<1>3. Missing => /\ Ended /\ faults' \in 0..MaxFaults
                 /\ UNCHANGED <<stacks, pool, arn, runtime, gateway, userTokens,
                                context, config, runs>>
  BY <1>1 DEF Missing, Ended, cloud, local
<1>4. ASSUME NEW t \in Targets, TargetGone(t) \/ Login(t)
      PROVE  /\ UNCHANGED <<script, streak, spoiled, runs, faults>>
             /\ UNCHANGED <<stacks, pool, arn, runtime, context>>
  BY <1>4 DEF TargetGone, Login, local, ghosts
<1>5. AtBound \/ Configure \/ UNCHANGED vars =>
        /\ UNCHANGED <<script, streak, spoiled, runs, faults>>
        /\ UNCHANGED <<stacks, pool, arn, runtime, context>>
        /\ UNCHANGED <<gateway, userTokens>>
  BY DEF AtBound, Configure, vars, cloud, local, ghosts
<1> QED
  BY <1>2, <1>3, <1>4, <1>5 DEF Next

LEMMA ShapeStep == Shape /\ [Next]_vars => Shape'
<1> SUFFICES ASSUME Shape, [Next]_vars
             PROVE  Shape'
  OBVIOUS
<1>1. ASSUME NEW t \in Targets, StartScript(t)
      PROVE  Shape'
  BY <1>1, Begins
<1>2. CASE DeployStep \/ DestroyStep
  BY <1>2, Advances, Goes
<1>3. CASE Ended /\ faults' \in 0..MaxFaults /\ runs' = runs
  BY <1>3, Stops DEF Ended
<1>4. CASE UNCHANGED <<script, streak, spoiled, runs, faults>>
  BY <1>4 DEF Shape, RunOK, ScriptOK, Orderly, StreakOK, ToDo, Target
<1> QED
  BY <1>1, <1>2, <1>3, <1>4, Kinds

\* Only destroy.sh takes a gateway away, and none moves to another pool.
LEMMA GatewayStays ==
    ASSUME Shape, CloudOK, [Next]_vars, NEW t \in Targets, gateway[t] # NoGateway
    PROVE  \/ Destroying("delete-gateway") /\ t = Target
           \/ /\ gateway'[t] # NoGateway
              /\ gateway'[t].id = gateway[t].id /\ gateway'[t].pool = gateway[t].pool
<1>1. /\ gateway[t].id # 0
      /\ gateway[t] \in [id : Ids, pool : Ids, tools : SUBSET Tools,
                         leaving : SUBSET Tools]
  BY DEF CloudOK
<1>2. ASSUME gateway'[t].id = gateway[t].id
      PROVE  gateway'[t] # NoGateway
  BY <1>1, <1>2 DEF NoGateway
<1>3. CASE gateway' = gateway
  BY <1>3
<1>4. CASE CreateGateway
  <2>1. gateway'[t] = gateway[t]
    BY <1>4 DEF CreateGateway, CloudOK
  <2> QED
    BY <2>1
<1>5. ASSUME NEW x \in Tools, CreateTarget(x)
      PROVE  gateway'[t].id = gateway[t].id /\ gateway'[t].pool = gateway[t].pool
  BY <1>1, <1>5 DEF CreateTarget, CloudOK
<1>6. CASE EmptyGateway
  <2>1. gateway'[t].id = gateway[t].id /\ gateway'[t].pool = gateway[t].pool
    BY <1>1, <1>6 DEF EmptyGateway, CloudOK
  <2> QED
    BY <1>2, <2>1
<1>7. ASSUME NEW u \in Targets, TargetGone(u)
      PROVE  gateway'[t].id = gateway[t].id /\ gateway'[t].pool = gateway[t].pool
  BY <1>1, <1>7 DEF TargetGone, CloudOK
<1>8. CASE DeleteGateway
  BY <1>1, <1>2, <1>8 DEF DeleteGateway, CloudOK
<1>9. \/ gateway' = gateway \/ CreateGateway \/ EmptyGateway \/ DeleteGateway
      \/ \E x \in Tools : CreateTarget(x)
      \/ \E u \in Targets : TargetGone(u)
  BY DEF Next, vars, cloud, StartScript, Start, Login, DeployStep, DestroyStep,
         DeploySecurity, DeployEntrypoint, DeployStack, DeployRuntime, PersistRuntime,
         PersistGateway, DeleteRuntime, DestroyStack, DeleteUserTokens, ClearConfig,
         Abort, Missing, Configure, AtBound
<1> QED
  BY <1>2, <1>3, <1>4, <1>5, <1>6, <1>7, <1>8, <1>9

LEMMA GatewayFirstStep ==
    Shape /\ CloudOK /\ GatewayFirst /\ [Next]_vars => GatewayFirst'
<1> SUFFICES ASSUME Shape, CloudOK, GatewayFirst, [Next]_vars
             PROVE  GatewayFirst'
  OBVIOUS
<1>0. Target \in Targets
  BY DEF Shape, RunOK, ScriptOK, Target
<1>1. ASSUME NEW t \in Targets, StartScript(t)
      PROVE  GatewayFirst'
  BY <1>1, Begins, FullRunOrder, PartsOrder DEF GatewayFirst, ToDo
<1>2. CASE CreateGateway
  <2>1. gateway'[Target] # NoGateway
    <3>1. CASE gateway[Target] # NoGateway
      BY <1>2, <3>1 DEF CreateGateway
    <3>2. CASE gateway[Target] = NoGateway
      <4>1. gateway'[Target].id = made + 1
        <5>1. gateway' = [gateway EXCEPT ![Target] =
                            [NoGateway EXCEPT !.id = made + 1, !.pool = pool[Target]]]
          BY <1>2, <3>2 DEF CreateGateway
        <5>2. [NoGateway EXCEPT !.id = made + 1, !.pool = pool[Target]].id = made + 1
          BY DEF NoGateway
        <5>3. gateway'[Target]
                = [NoGateway EXCEPT !.id = made + 1, !.pool = pool[Target]]
          BY <1>0, <5>1 DEF CloudOK
        <5> QED
          BY <5>2, <5>3
      <4>2. made + 1 # 0
        BY DEF CloudOK, Ids
      <4> QED
        BY <4>1, <4>2 DEF NoGateway
    <3> QED
      BY <3>1, <3>2
  <2>2. script'.target = script.target
    BY <1>2, Advances, Goes DEF DeployStep
  <2> QED
    BY <2>1, <2>2 DEF GatewayFirst, Target
<1>3. CASE (DeployStep \/ DestroyStep) /\ ~CreateGateway
  <2>1. /\ script'.name = script.name /\ script'.target = script.target
        /\ \A x : ToDo(x) <=> x = Head(script.todo) \/ ToDo(x)'
    BY <1>3, Advances, Goes
  <2>2. Head(script.todo) # "create-gateway" \/ script.name = "destroy"
    BY <1>3, StacksAre
       DEF DeployStep, DestroyStep, DeploySecurity, DeployEntrypoint, DeployStack,
           DeployRuntime, PersistRuntime, PersistGateway, CreateTarget, EmptyGateway,
           DeleteGateway, DeleteRuntime, DestroyStack, DeleteUserTokens, ClearConfig,
           Deploying, Destroying, Doing, Tools
  <2>3. gateway[Target] # NoGateway /\ script.name # "destroy" =>
          gateway'[Target] # NoGateway
    BY <1>0, GatewayStays DEF Destroying, Doing
  <2> QED
    BY <2>1, <2>2, <2>3 DEF GatewayFirst, Target
<1>4. CASE Ended /\ faults' \in 0..MaxFaults /\ runs' = runs
  BY <1>4, Stops DEF Ended, GatewayFirst
<1>5. CASE UNCHANGED <<script, streak, spoiled, runs, faults>>
  <2>1. gateway[Target] # NoGateway /\ script.name # "destroy" =>
          gateway'[Target] # NoGateway
    BY <1>0, GatewayStays DEF Destroying, Doing
  <2> QED
    BY <1>5, <2>1 DEF GatewayFirst, ToDo, Target
<1> QED
  BY <1>1, <1>2, <1>3, <1>4, <1>5, Kinds

LEMMA PlanStep ==
    TypeOK /\ PlanInv /\ [Next]_vars => (TypeOK /\ PlanInv)'
<1> SUFFICES ASSUME TypeOK, PlanInv, [Next]_vars
             PROVE  (TypeOK /\ PlanInv)'
  OBVIOUS
<1>1. Shape /\ CloudOK /\ GatewayFirst
  BY TypeSplit DEF PlanInv, Shape
<1>2. Shape' /\ CloudOK' /\ GatewayFirst'
  BY <1>1, ShapeStep, CloudTypes, GatewayFirstStep
<1>3. (ScriptOK => (TypeOK <=> RunOK /\ CloudOK))'
  BY TypeSplit, PTL
<1> QED
  BY <1>2, <1>3 DEF Shape, PlanInv, RunOK

-----------------------------------------------------------------------------
(* A destroy without a fault leaves nothing. *)

\* What the lemmas below take for granted of the state they start from.
Sound == Shape /\ CloudOK /\ GatewayFirst

\* A fault of destroy.sh is remembered.
LEMMA FaultsSpoil ==
    ASSUME Shape, script.name = "destroy", ~Idle, NEW ok \in BOOLEAN, Proceed(ok),
           faults' \in 0..MaxFaults, ~script.clean => Target \in spoiled
    PROVE  /\ ~script'.clean => Target \in spoiled'
           /\ ~ok => Target \in spoiled'
<1>1. script'.clean = (script.clean /\ ok)
  BY Goes
<1>2. spoiled' = IF ~ok THEN spoiled \cup {Target}
                 ELSE IF Tail(script.todo) = <<>> /\ ok /\ script.clean
                      THEN spoiled \ {Target}
                 ELSE spoiled
  BY DEF Proceed, Score
<1> QED
  BY <1>1, <1>2

LEMMA UndoneStep == Sound /\ Undone /\ [Next]_vars => Undone'
<1> SUFFICES ASSUME Sound, Undone, [Next]_vars
             PROVE  Undone'
  OBVIOUS
<1> DEFINE p == Target
<1>0. p \in Targets /\ Shape /\ CloudOK
  BY DEF Sound, Shape, RunOK, ScriptOK, Target
<1>1. ASSUME NEW t \in Targets, StartScript(t)
      PROVE  Undone'
  BY <1>0, <1>1, Begins, DestroyRunOrder DEF Undone, ToDo
<1>2. CASE DeployStep
  <2>1. script.name # "destroy"
    BY <1>2 DEF DeployStep, DeploySecurity, DeployEntrypoint, DeployStack,
                DeployRuntime, PersistRuntime, CreateGateway, PersistGateway,
                CreateTarget, Deploying, Doing
  <2> QED
    BY <1>0, <1>2, <2>1, Advances, Goes DEF Undone
<1>3. CASE DestroyStep
  <2>1. script.name = "destroy" /\ ~Idle
    BY <1>3 DEF DestroyStep, EmptyGateway, DeleteGateway, DeleteRuntime, DestroyStack,
                DeleteUserTokens, ClearConfig, Destroying, Doing
  <2>2. PICK ok \in BOOLEAN : Proceed(ok) /\ faults' \in 0..MaxFaults
    BY <1>0, <1>3, Advances
  <2>3. /\ script'.name = script.name /\ script'.target = script.target
        /\ script'.clean = (script.clean /\ ok)
        /\ \A x : ToDo(x) <=> x = Head(script.todo) \/ ToDo(x)'
    BY <1>0, <2>1, <2>2, Goes
  <2>4. ~script'.clean => p \in spoiled'
    BY <1>0, <2>1, <2>2, FaultsSpoil DEF Undone
  <2>5. ASSUME script'.clean
        PROVE  /\ \A s \in Stacks : ~ToDo(s)' => s \notin stacks'[p]
               /\ ~ToDo("delete-gateway")' => gateway'[p] = NoGateway
               /\ ~ToDo("delete-runtime")' => runtime'[p] = NoRuntime
               /\ ~ToDo("user-tokens")' => ~userTokens'[p]
    <3> DEFINE x == Head(script.todo)
    <3>1. /\ \A s \in Stacks : ~ToDo(s) => s \notin stacks[p]
          /\ ~ToDo("delete-gateway") => gateway[p] = NoGateway
          /\ ~ToDo("delete-runtime") => runtime[p] = NoRuntime
          /\ ~ToDo("user-tokens") => ~userTokens[p]
      BY <2>1, <2>3, <2>5 DEF Undone
    <3>2. ok = TRUE
      BY <2>3, <2>5
    <3>3. Proceed(FALSE) => FALSE
      BY <1>0, <2>1, <2>2, <2>3, <2>5, Goes
    <3>4. CASE EmptyGateway
      <4>1. x = "empty-gateway" /\ UNCHANGED <<stacks, runtime, userTokens>>
        BY <3>4 DEF EmptyGateway, Destroying, Doing
      <4>2. gateway[p] = NoGateway => gateway'[p] = NoGateway
        <5>1. PICK refused \in SUBSET gateway[p].tools :
                gateway' = [gateway EXCEPT
                              ![p].leaving = @ \cup (gateway[p].tools \ refused),
                              ![p].tools = refused]
          BY <3>4 DEF EmptyGateway
        <5> SUFFICES ASSUME gateway[p] = NoGateway
                     PROVE  gateway'[p] = NoGateway
          OBVIOUS
        <5>2. gateway'[p].id = 0
          BY <1>0, <5>1 DEF CloudOK, NoGateway
        <5>3. CloudOK'
          BY CloudTypes DEF Sound
        <5> QED
          BY <1>0, <5>2, <5>3 DEF CloudOK
      <4> QED
        BY <2>3, <3>1, <4>1, <4>2, StacksAre
    <3>5. CASE DeleteGateway
      <4>1. /\ x = "delete-gateway" /\ UNCHANGED <<stacks, runtime, userTokens>>
            /\ gateway' = [gateway EXCEPT ![p] = NoGateway]
        BY <3>3, <3>5 DEF DeleteGateway, Destroying, Doing, Fail
      <4> QED
        BY <1>0, <2>3, <3>1, <4>1, StacksAre DEF CloudOK
    <3>6. CASE DeleteRuntime
      <4>1. /\ x = "delete-runtime" /\ UNCHANGED <<stacks, gateway, userTokens>>
            /\ runtime' = [runtime EXCEPT ![p] = NoRuntime]
        BY <3>3, <3>6 DEF DeleteRuntime, Destroying, Doing, Fail
      <4> QED
        BY <1>0, <2>3, <3>1, <4>1, StacksAre DEF CloudOK
    <3>7. ASSUME NEW s \in Stacks, DestroyStack(s)
          PROVE  /\ \A z \in Stacks : ~ToDo(z)' => z \notin stacks'[p]
                 /\ ~ToDo("delete-gateway")' => gateway'[p] = NoGateway
                 /\ ~ToDo("delete-runtime")' => runtime'[p] = NoRuntime
                 /\ ~ToDo("user-tokens")' => ~userTokens'[p]
      <4>1. /\ x = s /\ UNCHANGED <<runtime, gateway, userTokens>>
            /\ stacks' = [stacks EXCEPT ![p] = @ \ {s}]
        BY <3>7 DEF DestroyStack, Destroying, Doing
      <4> QED
        BY <1>0, <2>3, <3>1, <4>1, StacksAre DEF CloudOK
    <3>8. CASE DeleteUserTokens
      <4>1. /\ x = "user-tokens" /\ UNCHANGED <<stacks, gateway, runtime>>
            /\ userTokens' = [userTokens EXCEPT ![p] = FALSE]
        BY <3>3, <3>8 DEF DeleteUserTokens, Destroying, Doing, Fail
      <4> QED
        BY <1>0, <2>3, <3>1, <4>1, StacksAre DEF CloudOK
    <3>9. CASE ClearConfig
      <4>1. x = "clear-config" /\ UNCHANGED <<stacks, gateway, runtime, userTokens>>
        BY <3>9 DEF ClearConfig, Destroying, Doing, cloud
      <4> QED
        BY <2>3, <3>1, <4>1, StacksAre
    <3> QED
      BY <1>3, <3>4, <3>5, <3>6, <3>7, <3>8, <3>9 DEF DestroyStep
  <2> QED
    BY <2>3, <2>4, <2>5 DEF Undone, Target
<1>4. CASE /\ Ended /\ faults' \in 0..MaxFaults
           /\ runs' = runs
  <2>1. script.name = "destroy" => p \in spoiled'
    BY <1>4 DEF Ended, Score
  <2> QED
    BY <1>0, <1>4, <2>1, Stops DEF Ended, Undone, Target
<1>5. CASE /\ UNCHANGED <<script, streak, spoiled, runs, faults>>
           /\ UNCHANGED <<stacks, pool, arn, runtime, context>>
           /\ \/ UNCHANGED <<gateway, userTokens>>
              \/ \E t \in Targets : TargetGone(t) \/ Login(t)
  <2> SUFFICES ASSUME script.name = "destroy", script.clean
               PROVE  /\ ~ToDo("delete-gateway") => gateway'[p] = NoGateway
                      /\ ~ToDo("user-tokens") => ~userTokens'[p]
    BY <1>5 DEF Undone, ToDo, Target
  <2>1. /\ ~ToDo("webui") => "webui" \notin stacks[p]
        /\ ~ToDo("delete-gateway") => gateway[p] = NoGateway
        /\ ~ToDo("user-tokens") => ~userTokens[p]
    BY StacksAre DEF Undone
  <2>2. CASE UNCHANGED <<gateway, userTokens>>
    BY <2>1, <2>2
  <2>3. ASSUME NEW t \in Targets, TargetGone(t)
        PROVE  /\ ~ToDo("delete-gateway") => gateway'[p] = NoGateway
               /\ ~ToDo("user-tokens") => ~userTokens'[p]
    <3>1. gateway[t].leaving # {} /\ userTokens' = userTokens
      BY <2>3 DEF TargetGone
    <3>2. t # p => gateway'[p] = gateway[p]
      BY <1>0, <2>3 DEF TargetGone, CloudOK
    <3> QED
      BY <2>1, <3>1, <3>2 DEF NoGateway
  <2>4. ASSUME NEW t \in Targets, Login(t)
        PROVE  /\ ~ToDo("delete-gateway") => gateway'[p] = NoGateway
               /\ ~ToDo("user-tokens") => ~userTokens'[p]
    <3>1. "webui" \in stacks[t] /\ gateway' = gateway
      BY <2>4 DEF Login
    <3>2. t # p => userTokens'[p] = userTokens[p]
      BY <1>0, <2>4 DEF Login, CloudOK
    <3>3. ToDo("webui") => ToDo("user-tokens")
      BY <1>0 DEF Shape, Orderly, Then, ToDo, Has
    <3> QED
      BY <2>1, <3>1, <3>2, <3>3
  <2> QED
    BY <1>5, <2>2, <2>3, <2>4
<1>6. \/ \E t \in Targets : StartScript(t)
      \/ DeployStep \/ DestroyStep
      \/ Ended /\ faults' \in 0..MaxFaults /\ runs' = runs
      \/ /\ UNCHANGED <<script, streak, spoiled, runs, faults>>
         /\ UNCHANGED <<stacks, pool, arn, runtime, context>>
         /\ \/ UNCHANGED <<gateway, userTokens>>
            \/ \E t \in Targets : TargetGone(t) \/ Login(t)
  BY <1>0, Kinds
<1>7. CASE \/ DeployStep \/ DestroyStep
           \/ \E t \in Targets : StartScript(t)
  BY <1>1, <1>2, <1>3, <1>7
<1> QED
  BY <1>4, <1>5, <1>6, <1>7

\* What the steps of deploy.sh leave of what Trusted is about.
LEMMA TrustedDeploy ==
    ASSUME Sound, Trusted, DeployStep
    PROVE  \A t \in Targets \ spoiled :
             /\ gateway'[t] # NoGateway =>
                  gateway'[t].pool = pool'[t] /\ "security" \in stacks'[t]
             /\ gateway'[t].leaving = {}
<1> DEFINE p == Target
<1>0. p \in Targets /\ CloudOK
  BY DEF Sound, Shape, RunOK, ScriptOK, Target
<1>1. script.name # "destroy"
  BY DEF DeployStep, DeploySecurity, DeployEntrypoint, DeployStack,
         DeployRuntime, PersistRuntime, CreateGateway, PersistGateway,
         CreateTarget, Deploying, Doing
<1> SUFFICES ASSUME NEW t \in Targets \ spoiled
             PROVE  /\ gateway'[t] # NoGateway =>
                         gateway'[t].pool = pool'[t] /\ "security" \in stacks'[t]
                    /\ gateway'[t].leaving = {}
  OBVIOUS
<1>2. /\ gateway[t] # NoGateway =>
           gateway[t].pool = pool[t] /\ "security" \in stacks[t]
      /\ gateway[t].leaving = {}
  BY <1>1 DEF Trusted
<1>3. CASE DeploySecurity
  <2>1. /\ gateway' = gateway
        /\ stacks' = [stacks EXCEPT ![p] = @ \cup {"security"}]
        /\ \/ pool' = pool
           \/ "security" \notin stacks[p] /\ pool' = [pool EXCEPT ![p] = made + 1]
    BY <1>3 DEF DeploySecurity
  <2> QED
    BY <1>0, <1>2, <2>1 DEF CloudOK
<1>4. ASSUME NEW s \in Stacks, DeployEntrypoint(s) \/ DeployStack(s)
      PROVE  /\ gateway' = gateway /\ pool' = pool
             /\ "security" \in stacks[t] => "security" \in stacks'[t]
  <2>1. /\ gateway' = gateway /\ pool' = pool
        /\ stacks' = [stacks EXCEPT ![p] = @ \cup {s}]
    BY <1>4 DEF DeployEntrypoint, DeployStack
  <2> QED
    BY <1>0, <2>1 DEF CloudOK
<1>5. CASE DeployRuntime \/ PersistRuntime \/ PersistGateway
  BY <1>2, <1>5 DEF DeployRuntime, PersistRuntime, PersistGateway, cloud
<1>6. CASE CreateGateway
  <2>1. /\ pool' = pool /\ stacks' = stacks /\ "security" \in stacks[p]
        /\ \/ gateway' = gateway
           \/ gateway' = [gateway EXCEPT ![p] =
                 [id |-> made + 1, pool |-> pool[p], tools |-> {}, leaving |-> {}]]
    BY <1>6 DEF CreateGateway, NoGateway
  <2> QED
    BY <1>0, <1>2, <2>1 DEF CloudOK
<1>7. ASSUME NEW x \in Tools, CreateTarget(x)
      PROVE  /\ gateway'[t] # NoGateway =>
                  gateway'[t].pool = pool'[t] /\ "security" \in stacks'[t]
             /\ gateway'[t].leaving = {}
  <2>1. /\ pool' = pool /\ stacks' = stacks /\ Deploying(x)
        /\ \/ gateway' = gateway
           \/ gateway' = [gateway EXCEPT ![p].tools = @ \cup {x}]
    BY <1>7 DEF CreateTarget
  <2>2. gateway'[t].pool = gateway[t].pool /\ gateway'[t].leaving = gateway[t].leaving
    BY <1>0, <2>1 DEF CloudOK
  <2>3. gateway[t] = NoGateway => gateway'[t] = gateway[t]
    BY <1>0, <2>1, AtGateway DEF CloudOK, Sound
  <2> QED
    BY <1>2, <2>1, <2>2, <2>3
<1> QED
  BY <1>2, <1>3, <1>4, <1>5, <1>6, <1>7 DEF DeployStep

\* And the steps of destroy.sh that succeed, on the target of the script.
LEMMA TrustedDestroy ==
    ASSUME Sound, Undone, Trusted, DestroyStep, ~Idle,
           Target \notin spoiled, Proceed(TRUE), ~Proceed(FALSE),
           faults' \in 0..MaxFaults
    PROVE  /\ gateway'[Target] # NoGateway =>
                /\ gateway'[Target].pool = pool'[Target]
                /\ "security" \in stacks'[Target]
           /\ gateway'[Target].leaving # {} => ToDo("delete-gateway")'
<1> DEFINE p == Target
           x == Head(script.todo)
<1>0. p \in Targets /\ CloudOK /\ Shape
  BY DEF Sound, Shape, RunOK, ScriptOK, Target
<1>1. script.name = "destroy" /\ script.clean
  BY DEF DestroyStep, EmptyGateway, DeleteGateway, DeleteRuntime, DestroyStack,
         DeleteUserTokens, ClearConfig, Destroying, Doing, Undone
<1>2. \A y : ToDo(y) <=> y = x \/ ToDo(y)'
  BY <1>0, Goes
<1>3. /\ gateway[p] # NoGateway =>
           gateway[p].pool = pool[p] /\ "security" \in stacks[p]
      /\ gateway[p].leaving # {} => ToDo("delete-gateway")
      /\ ~ToDo("delete-gateway") => gateway[p] = NoGateway
  BY <1>0, <1>1 DEF Trusted, Undone
<1>4. CASE EmptyGateway
  <2>1. PICK refused \in SUBSET gateway[p].tools :
          /\ gateway' = [gateway EXCEPT
                           ![p].leaving = @ \cup (gateway[p].tools \ refused),
                           ![p].tools = refused]
          /\ pool' = pool /\ stacks' = stacks /\ x = "empty-gateway"
    BY <1>4 DEF EmptyGateway, Destroying, Doing
  <2>2. gateway'[p].pool = gateway[p].pool /\ gateway'[p].id = gateway[p].id
    BY <1>0, <2>1 DEF CloudOK
  <2>3. CloudOK'
    BY <1>4, CloudTypes DEF Sound, Next, DestroyStep
  <2>4. gateway[p] = NoGateway => gateway'[p] = NoGateway
    BY <1>0, <2>2, <2>3 DEF CloudOK, NoGateway
  <2>5. ToDo("delete-gateway")'
    <3>1. script.todo \in Seq(Steps) /\ script.todo # <<>>
          /\ Then(script.todo, "empty-gateway", "delete-gateway")
      BY <1>0, <1>1 DEF Shape, RunOK, ScriptOK, Orderly, Idle
    <3>2. ToDo("empty-gateway")
      BY <1>2, <2>1
    <3>3. ToDo("delete-gateway")
      BY <3>1, <3>2 DEF ToDo, Then, Has
    <3> QED
      BY <1>2, <2>1, <3>3
  <2> QED
    BY <1>3, <2>1, <2>2, <2>4, <2>5
<1>5. CASE DeleteGateway
  <2>1. gateway' = [gateway EXCEPT ![p] = NoGateway]
    BY <1>5 DEF DeleteGateway, Fail
  <2>2. gateway'[p] = NoGateway
    BY <1>0, <2>1 DEF CloudOK
  <2> QED
    BY <2>2 DEF NoGateway
<1>6. CASE DeleteRuntime \/ DeleteUserTokens \/ ClearConfig
  <2>1. UNCHANGED <<gateway, pool, stacks>> /\ x # "delete-gateway"
    BY <1>6 DEF DeleteRuntime, DeleteUserTokens, ClearConfig, Destroying, Doing, cloud
  <2> QED
    BY <1>2, <1>3, <2>1
<1>7. ASSUME NEW s \in Stacks, DestroyStack(s)
      PROVE  /\ gateway'[p] # NoGateway =>
                  gateway'[p].pool = pool'[p] /\ "security" \in stacks'[p]
             /\ gateway'[p].leaving # {} => ToDo("delete-gateway")'
  <2>1. /\ gateway' = gateway /\ x = s /\ s # "delete-gateway"
        /\ stacks' = [stacks EXCEPT ![p] = @ \ {s}]
        /\ pool' = IF s = "security" THEN [pool EXCEPT ![p] = 0] ELSE pool
    BY <1>7, StacksAre DEF DestroyStack, Destroying, Doing
  <2>2. CASE s # "security"
    BY <1>0, <1>2, <1>3, <2>1, <2>2 DEF CloudOK
  <2>3. CASE s = "security"
    <3>1. script.todo \in Seq(Steps) /\ script.todo # <<>>
          /\ Before(script.todo, "delete-gateway", "security")
      BY <1>0, <1>1 DEF Shape, RunOK, ScriptOK, Orderly, Idle
    <3>2. ~ToDo("delete-gateway")
      BY <2>1, <2>3, <3>1, OrderTail DEF ToDo
    <3> QED
      BY <1>3, <2>1, <3>2 DEF NoGateway
  <2> QED
    BY <2>2, <2>3
<1> QED
  BY <1>4, <1>5, <1>6, <1>7 DEF DestroyStep

\* destroy.sh works on one target.
LEMMA OthersStay ==
    ASSUME Sound, DestroyStep, NEW t \in Targets, t # Target
    PROVE  gateway'[t] = gateway[t] /\ pool'[t] = pool[t] /\ stacks'[t] = stacks[t]
<1>0. Target \in Targets /\ CloudOK
  BY DEF Sound, Shape, RunOK, ScriptOK, Target
<1>1. CASE EmptyGateway
  BY <1>0, <1>1 DEF EmptyGateway, CloudOK
<1>2. CASE DeleteGateway
  BY <1>0, <1>2 DEF DeleteGateway, CloudOK
<1>3. CASE DeleteRuntime \/ DeleteUserTokens \/ ClearConfig
  BY <1>3 DEF DeleteRuntime, DeleteUserTokens, ClearConfig, cloud
<1>4. ASSUME NEW s \in Stacks, DestroyStack(s)
      PROVE  gateway'[t] = gateway[t] /\ pool'[t] = pool[t] /\ stacks'[t] = stacks[t]
  BY <1>0, <1>4 DEF DestroyStack, CloudOK
<1> QED
  BY <1>1, <1>2, <1>3, <1>4 DEF DestroyStep

LEMMA TrustedStep == Sound /\ Undone /\ Trusted /\ [Next]_vars => Trusted'
<1> SUFFICES ASSUME Sound, Undone, Trusted, [Next]_vars
             PROVE  Trusted'
  OBVIOUS
<1> DEFINE p == Target
<1>0. p \in Targets /\ Shape /\ CloudOK
  BY DEF Sound, Shape, RunOK, ScriptOK, Target
<1>1. ASSUME NEW t \in Targets, StartScript(t)
      PROVE  Trusted'
  <2>1. /\ spoiled' = spoiled /\ UNCHANGED <<gateway, pool, stacks>>
        /\ script.todo = <<>>
    BY <1>1 DEF StartScript, Start, cloud, Idle
  <2>2. ~ToDo("delete-gateway")
    BY <2>1, Nothing DEF ToDo
  <2>3. \A u \in Targets \ spoiled : gateway[u].leaving = {}
    BY <2>2 DEF Trusted
  <2> QED
    BY <2>1, <2>3 DEF Trusted
<1>2. CASE DeployStep
  <2>1. spoiled' = spoiled
    <3>1. script.name # "destroy"
      BY <1>2 DEF DeployStep, DeploySecurity, DeployEntrypoint, DeployStack,
                  DeployRuntime, PersistRuntime, CreateGateway, PersistGateway,
                  CreateTarget, Deploying, Doing
    <3> QED
      BY <1>0, <1>2, <3>1, Advances DEF Proceed, Score
  <2> QED
    BY <1>2, <2>1, TrustedDeploy DEF Trusted
<1>3. CASE DestroyStep
  <2>1. script.name = "destroy" /\ ~Idle
    BY <1>3 DEF DestroyStep, EmptyGateway, DeleteGateway, DeleteRuntime, DestroyStack,
                DeleteUserTokens, ClearConfig, Destroying, Doing
  <2>2. PICK ok \in BOOLEAN : Proceed(ok) /\ faults' \in 0..MaxFaults
    BY <1>0, <1>3, Advances
  <2>3. /\ script'.name = script.name /\ script'.target = script.target
        /\ script'.clean = (script.clean /\ ok)
        /\ \A x : ToDo(x) <=> x = Head(script.todo) \/ ToDo(x)'
    BY <1>0, <2>1, <2>2, Goes
  <2>4. /\ ~script'.clean => p \in spoiled'
        /\ ~ok => p \in spoiled'
    BY <1>0, <2>1, <2>2, FaultsSpoil DEF Undone
  <2>5. /\ spoiled \ {p} \subseteq spoiled'
        /\ p \in spoiled /\ p \notin spoiled' => script'.todo = <<>>
    <3>1. script'.todo = Tail(script.todo)
      BY <1>0, <2>2 DEF Proceed, Shape, RunOK, ScriptOK
    <3> QED
      BY <2>1, <2>2, <3>1 DEF Proceed, Score
  <2>6. ASSUME NEW t \in Targets \ spoiled', t # p
        PROVE  /\ gateway'[t] # NoGateway =>
                    gateway'[t].pool = pool'[t] /\ "security" \in stacks'[t]
               /\ gateway'[t].leaving = {}
    <3>1. t \notin spoiled
      BY <2>5, <2>6
    <3> QED
      BY <1>3, <2>6, <3>1, OthersStay DEF Trusted
  <2>7. ASSUME p \notin spoiled'
        PROVE  /\ gateway'[p] # NoGateway =>
                    gateway'[p].pool = pool'[p] /\ "security" \in stacks'[p]
               /\ gateway'[p].leaving # {} => ToDo("delete-gateway")'
    <3>1. ok = TRUE /\ script'.clean = TRUE
      BY <2>3, <2>4, <2>7 DEF Shape, RunOK
    <3>2. CASE p \in spoiled
      <4>1. script'.todo = <<>>
        BY <2>5, <2>7, <3>2
      <4>2. ~ToDo("delete-gateway")'
        BY <4>1, Nothing DEF ToDo
      <4>3. Undone'
        BY UndoneStep
      <4>4. gateway'[p] = NoGateway
        BY <2>1, <2>3, <3>1, <4>2, <4>3 DEF Undone, Target
      <4> QED
        BY <4>4 DEF NoGateway
    <3>3. CASE p \notin spoiled
      <4>1. ~Proceed(FALSE)
        <5>1. Proceed(FALSE) => p \in spoiled'
          BY <2>1 DEF Proceed, Score
        <5> QED
          BY <2>7, <5>1
      <4>2. Proceed(TRUE)
        BY <2>2, <3>1
      <4> QED
        BY <1>3, <2>1, <2>2, <3>3, <4>1, <4>2, TrustedDestroy
    <3> QED
      BY <3>2, <3>3
  <2> QED
    BY <2>1, <2>3, <2>6, <2>7 DEF Trusted, Target
<1>4. CASE /\ Ended /\ faults' \in 0..MaxFaults
           /\ UNCHANGED <<stacks, pool, arn, runtime, gateway, userTokens,
                          context, config, runs>>
  <2>1. spoiled' = IF script.name = "destroy" THEN spoiled \cup {p} ELSE spoiled
    BY <1>4 DEF Ended, Score
  <2>2. \A t \in Targets \ spoiled' : gateway[t].leaving = {}
    BY <2>1 DEF Trusted
  <2> QED
    BY <1>4, <2>1, <2>2 DEF Trusted
<1>5. CASE /\ UNCHANGED <<script, streak, spoiled, runs, faults>>
           /\ UNCHANGED <<stacks, pool, arn, runtime, context>>
           /\ \/ UNCHANGED <<gateway, userTokens>>
              \/ \E t \in Targets : TargetGone(t) \/ Login(t)
  <2>1. CASE gateway' = gateway
    BY <1>5, <2>1 DEF Trusted, ToDo, Target
  <2>2. ASSUME NEW u \in Targets, TargetGone(u)
        PROVE  Trusted'
    <3>1. PICK x \in gateway[u].leaving :
            gateway' = [gateway EXCEPT ![u].leaving = @ \ {x}]
      BY <2>2 DEF TargetGone
    <3>2. ASSUME NEW t \in Targets
          PROVE  /\ gateway'[t].pool = gateway[t].pool
                 /\ gateway'[t].leaving \subseteq gateway[t].leaving
                 /\ gateway[t] = NoGateway => gateway'[t] = gateway[t]
      BY <1>0, <3>1 DEF CloudOK, NoGateway
    <3> QED
      BY <1>5, <3>2 DEF Trusted, ToDo, Target
  <2>3. ASSUME NEW u \in Targets, Login(u)
        PROVE  gateway' = gateway
    BY <2>3 DEF Login
  <2> QED
    BY <1>5, <2>1, <2>2, <2>3
<1> QED
  BY <1>0, <1>1, <1>2, <1>3, <1>4, <1>5, Kinds

-----------------------------------------------------------------------------
(* A full run without a fault. *)

LEMMA DoneSoFarDeploy ==
    ASSUME Sound, Trusted, DoneSoFar, DeployStep, script'.name = "full", script'.clean
    PROVE  DoneSoFar'
<1> DEFINE p == Target
           x == Head(script.todo)
<1>0. p \in Targets /\ CloudOK /\ Shape
  BY DEF Sound, Shape, RunOK, ScriptOK, Target
<1>1. PICK ok \in BOOLEAN : ~Idle /\ Proceed(ok) /\ faults' \in 0..MaxFaults
  BY <1>0, Advances
<1>2. /\ script.name = "full" /\ script.clean /\ ok = TRUE
      /\ script'.target = script.target
      /\ \A y : ToDo(y) <=> y = x \/ ToDo(y)'
      /\ Shape'
  <2>1. /\ script'.name = script.name /\ script'.target = script.target
        /\ script'.clean = (script.clean /\ ok)
        /\ \A y : ToDo(y) <=> y = x \/ ToDo(y)'
        /\ Shape'
    BY <1>0, <1>1, Goes
  <2> QED
    BY <2>1 DEF Shape, RunOK, ScriptOK
<1>3. ~Proceed(FALSE)
  <2>1. Proceed(FALSE) => script'.clean = FALSE
    BY <1>0 DEF Proceed, Shape, RunOK, ScriptOK
  <2> QED
    BY <2>1
<1>4. spoiled' = spoiled
  BY <1>1, <1>2 DEF Proceed, Score
<1>5. /\ ToDo("deploy-runtime") => ToDo("persist-runtime")'
      /\ ToDo("create-gateway") /\ x = "create-gateway" => ToDo("persist-gateway")'
      /\ ToDo("persist-runtime")' => ToDo("router")' /\ ToDo("webui")'
  <2>1. /\ script.todo \in Seq(Steps) /\ script.todo # <<>>
        /\ Then(script.todo, "deploy-runtime", "persist-runtime")
        /\ Then(script.todo, "create-gateway", "persist-gateway")
    BY <1>0, <1>1, <1>2 DEF Shape, RunOK, ScriptOK, Orderly, Idle
  <2>2. script'.todo = Tail(script.todo)
    BY <1>0, <1>1 DEF Proceed, Shape, RunOK, ScriptOK
  <2>3. x = "deploy-runtime" => ToDo("persist-runtime")'
    BY <2>1, <2>2, OrderTail DEF ToDo
  <2>4. x = "create-gateway" => ToDo("persist-gateway")'
    BY <2>1, <2>2, OrderTail DEF ToDo
  <2>5. Has(script'.todo, "deploy-runtime") => Has(script'.todo, "persist-runtime")
    BY <1>2 DEF Shape, Orderly, Then, Has
  <2>6. Has(script'.todo, "persist-runtime") =>
          Has(script'.todo, "router") /\ Has(script'.todo, "webui")
    BY <1>2 DEF Shape, Orderly, Then, Has
  <2>7. /\ ToDo("deploy-runtime")' => ToDo("persist-runtime")'
        /\ ToDo("persist-runtime")' => ToDo("router")' /\ ToDo("webui")'
    BY <2>5, <2>6 DEF ToDo
  <2> QED
    BY <1>2, <2>3, <2>4, <2>7
<1>6. /\ \A s \in Stacks : ~ToDo(s) => s \in stacks[p]
      /\ ~ToDo("deploy-runtime") =>
           /\ runtime[p] # NoRuntime /\ runtime[p].pool = pool[p]
           /\ "security" \in stacks[p]
      /\ ~ToDo("persist-runtime") => context.runtime = runtime[p].id
      /\ ~ToDo("router") => arn[p]["router"] = runtime[p].id
      /\ ~ToDo("webui") => arn[p]["webui"] = runtime[p].id
      /\ ~ToDo("create-gateway") => gateway[p] # NoGateway
      /\ ~ToDo("persist-gateway") => context.url = gateway[p].id
      /\ \A y \in Tools : ~ToDo(y) /\ p \notin spoiled => y \in gateway[p].tools
  BY <1>2 DEF DoneSoFar
<1> DEFINE Goal ==
      /\ \A s \in Stacks : ~ToDo(s)' => s \in stacks'[p]
      /\ ~ToDo("deploy-runtime")' =>
           /\ runtime'[p] # NoRuntime /\ runtime'[p].pool = pool'[p]
           /\ "security" \in stacks'[p]
      /\ ~ToDo("persist-runtime")' => context'.runtime = runtime'[p].id
      /\ ~ToDo("router")' => arn'[p]["router"] = runtime'[p].id
      /\ ~ToDo("webui")' => arn'[p]["webui"] = runtime'[p].id
      /\ ~ToDo("create-gateway")' => gateway'[p] # NoGateway
      /\ ~ToDo("persist-gateway")' => context'.url = gateway'[p].id
      /\ \A y \in Tools : ~ToDo(y)' /\ p \notin spoiled => y \in gateway'[p].tools
<1>7. ASSUME DeploySecurity
      PROVE  Goal
  <2>1. /\ x = "security" /\ UNCHANGED <<arn, runtime, gateway, context>>
        /\ stacks' = [stacks EXCEPT ![p] = @ \cup {"security"}]
        /\ "security" \in stacks[p] => pool' = pool
    BY <1>7 DEF DeploySecurity, Deploying, Doing, local
  <2>2. \A s \in Stacks : ~ToDo(s)' => s \in stacks'[p]
    BY <1>0, <1>2, <1>6, <2>1 DEF CloudOK
  <2>3. ~ToDo("deploy-runtime")' =>
           /\ runtime'[p] # NoRuntime /\ runtime'[p].pool = pool'[p]
           /\ "security" \in stacks'[p]
    BY <1>0, <1>2, <1>6, <2>1 DEF CloudOK
  <2> QED
    BY <1>2, <1>6, <2>1, <2>2, <2>3 DEF Tools
<1>8. ASSUME NEW s \in Stacks, DeployEntrypoint(s)
      PROVE  Goal
  <2>1. /\ x = s /\ UNCHANGED <<pool, runtime, gateway, context>>
        /\ s \in {"router", "webui"}
        /\ stacks' = [stacks EXCEPT ![p] = @ \cup {s}]
        /\ arn' = [arn EXCEPT ![p][s] = context.runtime]
    BY <1>8 DEF DeployEntrypoint, Deploying, Doing, local
  <2>2. \A z \in Stacks : ~ToDo(z)' => z \in stacks'[p]
    BY <1>0, <1>2, <1>6, <2>1 DEF CloudOK
  <2>3. "security" \in stacks[p] => "security" \in stacks'[p]
    BY <1>0, <2>1 DEF CloudOK
  <2>4. ASSUME NEW z \in {"router", "webui"}, ~ToDo(z)'
        PROVE  arn'[p][z] = runtime'[p].id
    <3>1. ~ToDo("persist-runtime") /\ context.runtime = runtime[p].id
      BY <1>2, <1>5, <1>6, <2>1, <2>4
    <3>2. arn[p] \in [{"router", "webui"} -> Ids]
      BY <1>0 DEF CloudOK
    <3>3. arn'[p][z] = IF z = s THEN context.runtime ELSE arn[p][z]
      BY <1>0, <2>1, <3>2 DEF CloudOK
    <3> QED
      BY <1>2, <1>6, <2>1, <2>4, <3>1, <3>3
  <2> QED
    BY <1>2, <1>6, <2>1, <2>2, <2>3, <2>4 DEF Tools
<1>9. ASSUME NEW s \in Stacks, DeployStack(s)
      PROVE  Goal
  <2>1. /\ x = s /\ UNCHANGED <<pool, arn, runtime, gateway, context>>
        /\ s \in {"agentcore", "gateway", "observability"}
        /\ stacks' = [stacks EXCEPT ![p] = @ \cup {s}]
    BY <1>9 DEF DeployStack, Deploying, Doing, local
  <2>2. \A z \in Stacks : ~ToDo(z)' => z \in stacks'[p]
    BY <1>0, <1>2, <1>6, <2>1 DEF CloudOK
  <2>3. "security" \in stacks[p] => "security" \in stacks'[p]
    BY <1>0, <2>1 DEF CloudOK
  <2> QED
    BY <1>2, <1>6, <2>1, <2>2, <2>3 DEF Tools
<1>10. ASSUME DeployRuntime
       PROVE  Goal
  <2>1. /\ x = "deploy-runtime" /\ "security" \in stacks[p]
        /\ UNCHANGED <<stacks, pool, gateway, context>>
        /\ \E id : runtime' = [runtime EXCEPT ![p] =
                                [id |-> id, url |-> context.url, pool |-> pool[p]]]
    BY <1>10 DEF DeployRuntime, Deploying, Doing, local
  <2>2. runtime'[p].pool = pool'[p]
    BY <1>0, <2>1 DEF CloudOK
  <2>3. runtime'[p] # NoRuntime
    <3>1. pool[p] # 0
      BY <1>0, <2>1 DEF CloudOK
    <3> QED
      BY <2>1, <2>2, <3>1 DEF NoRuntime
  <2>4. ToDo("persist-runtime")' /\ ToDo("router")' /\ ToDo("webui")'
    BY <1>2, <1>5, <2>1
  <2>5. \A s \in Stacks : ~ToDo(s)' => s \in stacks'[p]
    BY <1>2, <1>6, <2>1, StacksAre
  <2> QED
    BY <1>2, <1>6, <2>1, <2>2, <2>3, <2>4, <2>5 DEF Tools
<1>11. ASSUME PersistRuntime
       PROVE  Goal
  <2>1. /\ x = "persist-runtime"
        /\ UNCHANGED <<stacks, pool, arn, runtime, gateway>>
        /\ context' = [context EXCEPT !.runtime = runtime[p].id]
    BY <1>11 DEF PersistRuntime, Deploying, Doing, cloud
  <2>2. context'.runtime = runtime[p].id /\ context'.url = context.url
    BY <1>0, <2>1 DEF CloudOK
  <2>3. \A s \in Stacks : ~ToDo(s)' => s \in stacks'[p]
    BY <1>2, <1>6, <2>1, StacksAre
  <2> QED
    BY <1>2, <1>6, <2>1, <2>2, <2>3 DEF Tools
<1>12. ASSUME CreateGateway
       PROVE  Goal
  <2>1. /\ x = "create-gateway"
        /\ UNCHANGED <<stacks, pool, arn, runtime, context>>
        /\ IF gateway[p] # NoGateway THEN gateway' = gateway
           ELSE gateway' = [gateway EXCEPT ![p] =
                  [id |-> made + 1, pool |-> pool[p], tools |-> {}, leaving |-> {}]]
    BY <1>12 DEF CreateGateway, NoGateway, Deploying, Doing, local
  <2>2. gateway'[p] # NoGateway
    <3>1. made + 1 # 0
      BY <1>0 DEF CloudOK, Ids
    <3>2. CASE gateway[p] = NoGateway
      <4>1. gateway'[p].id = made + 1
        BY <1>0, <2>1, <3>2 DEF CloudOK
      <4> QED
        BY <3>1, <4>1 DEF NoGateway
    <3> QED
      BY <2>1, <3>2
  <2>3. ASSUME NEW y \in Tools, ~ToDo(y)', p \notin spoiled
        PROVE  y \in gateway'[p].tools
    <3>1. y \in gateway[p].tools
      BY <1>2, <1>6, <2>1, <2>3 DEF Tools
    <3>2. gateway[p] # NoGateway
      BY <3>1 DEF NoGateway
    <3> QED
      BY <2>1, <3>1, <3>2
  <2>4. ToDo("persist-gateway")'
    BY <1>2, <1>5, <2>1
  <2>5. \A s \in Stacks : ~ToDo(s)' => s \in stacks'[p]
    BY <1>2, <1>6, <2>1, StacksAre
  <2> QED
    BY <1>2, <1>6, <2>1, <2>2, <2>3, <2>4, <2>5
<1>13. ASSUME PersistGateway
       PROVE  Goal
  <2>1. /\ x = "persist-gateway"
        /\ UNCHANGED <<stacks, pool, arn, runtime, gateway>>
        /\ context' = [context EXCEPT !.url = gateway[p].id]
    BY <1>3, <1>13 DEF PersistGateway, Deploying, Doing, cloud, Fail
  <2>2. context'.runtime = context.runtime /\ context'.url = gateway[p].id
    BY <1>0, <2>1 DEF CloudOK
  <2>3. \A s \in Stacks : ~ToDo(s)' => s \in stacks'[p]
    BY <1>2, <1>6, <2>1, StacksAre
  <2> QED
    BY <1>2, <1>6, <2>1, <2>2, <2>3 DEF Tools
<1>14. ASSUME NEW tool \in Tools, CreateTarget(tool)
       PROVE  Goal
  <2>1. /\ x = tool /\ Deploying(tool)
        /\ UNCHANGED <<stacks, pool, arn, runtime, context>>
        /\ \/ /\ tool \in gateway[p].tools \cup gateway[p].leaving
              /\ gateway' = gateway
           \/ gateway' = [gateway EXCEPT ![p].tools = @ \cup {tool}]
    BY <1>3, <1>14 DEF CreateTarget, Deploying, Doing, local, Fail
  <2>2. gateway[p] # NoGateway
    BY <2>1, AtGateway DEF Sound
  <2>3. gateway'[p].id = gateway[p].id /\ gateway'[p] # NoGateway
    <3>1. gateway'[p].id = gateway[p].id
      BY <1>0, <2>1 DEF CloudOK
    <3> QED
      BY <1>0, <2>2, <3>1 DEF CloudOK, NoGateway
  <2>4. ASSUME NEW y \in Tools, ~ToDo(y)', p \notin spoiled
        PROVE  y \in gateway'[p].tools
    <3>1. gateway[p].leaving = {}
      BY <1>0, <1>2, <2>4 DEF Trusted
    <3>2. gateway[p].tools \cup {tool} \subseteq gateway'[p].tools
      BY <1>0, <2>1, <3>1 DEF CloudOK
    <3>3. y = tool \/ y \in gateway[p].tools
      BY <1>2, <1>6, <2>1, <2>4
    <3> QED
      BY <3>2, <3>3
  <2>5. \A s \in Stacks : ~ToDo(s)' => s \in stacks'[p]
    BY <1>2, <1>6, <2>1, StacksAre DEF Tools
  <2> QED
    BY <1>2, <1>6, <2>1, <2>3, <2>4, <2>5 DEF Tools
<1>15. Goal => DoneSoFar'
  BY <1>2, <1>4 DEF DoneSoFar, Target
<1> HIDE DEF Goal
<1> QED
  BY <1>7, <1>8, <1>9, <1>10, <1>11, <1>12, <1>13, <1>14, <1>15 DEF DeployStep

LEMMA DoneSoFarStep == Sound /\ Trusted /\ DoneSoFar /\ [Next]_vars => DoneSoFar'
<1> SUFFICES ASSUME Sound, Trusted, DoneSoFar, [Next]_vars
             PROVE  DoneSoFar'
  OBVIOUS
<1> DEFINE p == Target
<1>0. p \in Targets /\ Shape /\ CloudOK
  BY DEF Sound, Shape, RunOK, ScriptOK, Target
<1>1. ASSUME NEW t \in Targets, StartScript(t)
      PROVE  DoneSoFar'
  <2>1. CASE script'.name = "full" /\ script'.todo = FullRun
    <3>1. /\ \A s \in Stacks : ToDo(s)'
          /\ ToDo("deploy-runtime")' /\ ToDo("persist-runtime")'
          /\ ToDo("create-gateway")' /\ ToDo("persist-gateway")'
          /\ ToDo("router")' /\ ToDo("webui")'
          /\ \A x \in Tools : ToDo(x)'
      BY <2>1, FullRunOrder, StacksAre DEF ToDo
    <3> QED
      BY <3>1 DEF DoneSoFar
  <2>2. CASE script'.name # "full"
    BY <2>2 DEF DoneSoFar
  <2> QED
    BY <1>0, <1>1, <2>1, <2>2, Begins
<1>2. CASE DeployStep
  <2>1. script'.name = "full" /\ script'.clean => DoneSoFar'
    BY <1>2, DoneSoFarDeploy
  <2> QED
    BY <2>1 DEF DoneSoFar
<1>3. CASE DestroyStep
  <2>1. script.name = "destroy"
    BY <1>3 DEF DestroyStep, EmptyGateway, DeleteGateway, DeleteRuntime, DestroyStack,
                DeleteUserTokens, ClearConfig, Destroying, Doing
  <2> QED
    BY <1>0, <1>3, <2>1, Advances, Goes DEF DoneSoFar
<1>4. CASE /\ Ended /\ faults' \in 0..MaxFaults
           /\ runs' = runs
  BY <1>0, <1>4, Stops DEF Ended, DoneSoFar
<1>5. CASE /\ UNCHANGED <<script, streak, spoiled, runs, faults>>
           /\ UNCHANGED <<stacks, pool, arn, runtime, context>>
           /\ \/ UNCHANGED <<gateway, userTokens>>
              \/ \E t \in Targets : TargetGone(t) \/ Login(t)
  <2>1. CASE gateway' = gateway
    BY <1>5, <2>1 DEF DoneSoFar, ToDo, Target
  <2>2. ASSUME NEW u \in Targets, TargetGone(u)
        PROVE  DoneSoFar'
    <3>1. PICK x \in gateway[u].leaving :
            gateway' = [gateway EXCEPT ![u].leaving = @ \ {x}]
      BY <2>2 DEF TargetGone
    <3>2. /\ gateway'[p].id = gateway[p].id /\ gateway'[p].tools = gateway[p].tools
          /\ gateway[p] # NoGateway => gateway'[p] # NoGateway
      BY <1>0, <3>1 DEF CloudOK, NoGateway
    <3> QED
      BY <1>5, <3>2 DEF DoneSoFar, ToDo, Target
  <2>3. ASSUME NEW u \in Targets, Login(u)
        PROVE  gateway' = gateway
    BY <2>3 DEF Login
  <2> QED
    BY <1>5, <2>1, <2>2, <2>3
<1> QED
  BY <1>0, <1>1, <1>2, <1>3, <1>4, <1>5, Kinds

\* What deploy.sh finds as it should be it leaves so, but for the URL that the
\* runtime was given: deploying it again sets that right.
LEMMA WholeStays ==
    ASSUME Sound, NEW t \in Targets, t = Target, Whole(t), DeployStep
    PROVE  /\ Whole(t)'
           /\ pool'[t] = pool[t] /\ gateway'[t].pool = gateway[t].pool
           /\ gateway'[t].id = gateway[t].id
           /\ gateway[t].tools \subseteq gateway'[t].tools
           /\ \/ runtime'[t].url = gateway[t].id
              \/ /\ runtime'[t].url = runtime[t].url
                 /\ Head(script.todo) # "deploy-runtime"
<1>0. t \in Targets /\ CloudOK /\ Shape
  BY DEF Sound, Shape, RunOK, ScriptOK, Target
<1>1. /\ stacks[t] = Stacks
      /\ runtime[t] # NoRuntime
      /\ arn[t]["router"] = runtime[t].id /\ arn[t]["webui"] = runtime[t].id
      /\ runtime[t].pool = pool[t] /\ gateway[t] # NoGateway
      /\ context = [runtime |-> runtime[t].id, url |-> gateway[t].id]
      /\ context.runtime = runtime[t].id /\ context.url = gateway[t].id
  BY DEF Whole, EntriesReachRuntime
<1> DEFINE Goal ==
      /\ stacks'[t] = Stacks
      /\ runtime'[t] # NoRuntime
      /\ arn'[t]["router"] = runtime'[t].id /\ arn'[t]["webui"] = runtime'[t].id
      /\ runtime'[t].pool = pool'[t] /\ gateway'[t] # NoGateway
      /\ context' = [runtime |-> runtime'[t].id, url |-> gateway'[t].id]
      /\ pool'[t] = pool[t] /\ gateway'[t].pool = gateway[t].pool
      /\ gateway'[t].id = gateway[t].id
      /\ gateway[t].tools \subseteq gateway'[t].tools
      /\ \/ runtime'[t].url = gateway[t].id
         \/ /\ runtime'[t].url = runtime[t].url
            /\ Head(script.todo) # "deploy-runtime"
<1>2. ASSUME DeploySecurity
      PROVE  Goal
  <2>1. /\ UNCHANGED <<arn, runtime, gateway, context, pool>>
        /\ stacks' = [stacks EXCEPT ![t] = @ \cup {"security"}]
        /\ Head(script.todo) # "deploy-runtime"
    BY <1>1, <1>2, StacksAre DEF DeploySecurity, Deploying, Doing, local
  <2>2. stacks'[t] = Stacks
    BY <1>0, <1>1, <2>1, StacksAre DEF CloudOK
  <2> QED
    BY <1>1, <2>1, <2>2
<1>3. ASSUME NEW s \in Stacks, DeployEntrypoint(s)
      PROVE  Goal
  <2>1. /\ UNCHANGED <<pool, runtime, gateway, context>>
        /\ s \in {"router", "webui"}
        /\ stacks' = [stacks EXCEPT ![t] = @ \cup {s}]
        /\ arn' = [arn EXCEPT ![t][s] = context.runtime]
        /\ Head(script.todo) # "deploy-runtime"
    BY <1>3 DEF DeployEntrypoint, Deploying, Doing, local
  <2>2. stacks'[t] = Stacks
    BY <1>0, <1>1, <2>1, StacksAre DEF CloudOK
  <2>3. arn'[t]["router"] = runtime[t].id /\ arn'[t]["webui"] = runtime[t].id
    <3>1. arn[t] \in [{"router", "webui"} -> Ids]
      BY <1>0 DEF CloudOK
    <3>2. arn'[t] = [arn[t] EXCEPT ![s] = context.runtime]
      BY <1>0, <2>1 DEF CloudOK
    <3> QED
      BY <1>1, <2>1, <3>1, <3>2
  <2> QED
    BY <1>1, <2>1, <2>2, <2>3
<1>4. ASSUME NEW s \in Stacks, DeployStack(s)
      PROVE  Goal
  <2>1. /\ UNCHANGED <<pool, arn, runtime, gateway, context>>
        /\ stacks' = [stacks EXCEPT ![t] = @ \cup {s}]
        /\ Head(script.todo) # "deploy-runtime"
    BY <1>4 DEF DeployStack, Deploying, Doing, local
  <2>2. stacks'[t] = Stacks
    BY <1>0, <1>1, <2>1 DEF CloudOK
  <2> QED
    BY <1>1, <2>1, <2>2
<1>5. ASSUME DeployRuntime
      PROVE  Goal
  <2>1. /\ UNCHANGED <<stacks, pool, arn, gateway, context>>
        /\ runtime' = [runtime EXCEPT ![t] =
              [id |-> runtime[t].id, url |-> context.url, pool |-> pool[t]]]
    BY <1>1, <1>5 DEF DeployRuntime, local
  <2>2. /\ runtime'[t].id = runtime[t].id /\ runtime'[t].url = gateway[t].id
        /\ runtime'[t].pool = pool[t]
    BY <1>0, <1>1, <2>1 DEF CloudOK
  <2>3. runtime'[t] # NoRuntime
    <3>1. runtime[t].id # 0
      BY <1>0, <1>1 DEF CloudOK
    <3> QED
      BY <2>2, <3>1 DEF NoRuntime
  <2> QED
    BY <1>1, <2>1, <2>2, <2>3
<1>6. ASSUME PersistRuntime
      PROVE  Goal
  <2>1. /\ UNCHANGED <<stacks, pool, arn, runtime, gateway>>
        /\ context' = [context EXCEPT !.runtime = runtime[t].id]
        /\ Head(script.todo) # "deploy-runtime"
    BY <1>6 DEF PersistRuntime, Deploying, Doing, cloud
  <2>2. context' = context
    BY <1>1, <2>1
  <2> QED
    BY <1>1, <2>1, <2>2
<1>7. ASSUME CreateGateway
      PROVE  Goal
  <2>1. /\ UNCHANGED <<stacks, pool, arn, runtime, gateway, context>>
        /\ Head(script.todo) # "deploy-runtime"
    BY <1>1, <1>7 DEF CreateGateway, Deploying, Doing, local
  <2> QED
    BY <1>1, <2>1
<1>8. ASSUME PersistGateway
      PROVE  Goal
  <2>1. /\ UNCHANGED <<stacks, pool, arn, runtime, gateway>>
        /\ \/ context' = context
           \/ context' = [context EXCEPT !.url = gateway[t].id]
        /\ Head(script.todo) # "deploy-runtime"
    BY <1>8 DEF PersistGateway, Deploying, Doing, cloud
  <2>2. context' = context
    BY <1>1, <2>1
  <2> QED
    BY <1>1, <2>1, <2>2
<1>9. ASSUME NEW x \in Tools, CreateTarget(x)
      PROVE  Goal
  <2>1. /\ UNCHANGED <<stacks, pool, arn, runtime, context>>
        /\ \/ gateway' = gateway
           \/ gateway' = [gateway EXCEPT ![t].tools = @ \cup {x}]
        /\ Head(script.todo) # "deploy-runtime"
    BY <1>9 DEF CreateTarget, Deploying, Doing, local, Tools
  <2>2. /\ gateway'[t].pool = gateway[t].pool /\ gateway'[t].id = gateway[t].id
        /\ gateway[t].tools \subseteq gateway'[t].tools
    BY <1>0, <2>1 DEF CloudOK
  <2>3. gateway'[t] # NoGateway
    BY <1>0, <1>1, <2>2 DEF CloudOK, NoGateway
  <2> QED
    BY <1>1, <2>1, <2>2, <2>3
<1>10. Goal => Whole(t)'
  BY DEF Whole, EntriesReachRuntime
<1>11. Goal
  <2> HIDE DEF Goal
  <2> QED
    BY <1>2, <1>3, <1>4, <1>5, <1>6, <1>7, <1>8, <1>9 DEF DeployStep
<1> QED
  BY <1>10, <1>11

LEMMA SettledStep ==
    Sound /\ Trusted /\ DoneSoFar /\ Settled /\ [Next]_vars => Settled'
<1> SUFFICES ASSUME Sound, Trusted, DoneSoFar, Settled, [Next]_vars,
                    streak'.length > 0
             PROVE  Settled'
  BY DEF Settled
<1>0. PICK p \in Targets : p = Target
  BY DEF Sound, Shape, RunOK, ScriptOK, Target
<1>1. Shape /\ CloudOK /\ Shape' /\ CloudOK' /\ DoneSoFar'
  BY ShapeStep, CloudTypes, DoneSoFarStep DEF Sound
<1>2. /\ streak.length > 0 => script.name = "full"
      /\ script'.name = "full"
      /\ script.todo \in Seq(Steps) /\ script'.todo \in Seq(Steps)
      /\ streak.length \in 0..2 /\ streak'.length \in 0..2
  BY <1>1 DEF Shape, StreakOK, RunOK, ScriptOK
<1>3. ASSUME NEW t \in Targets, StartScript(t)
      PROVE  Settled'
  <2>1. /\ UNCHANGED <<stacks, pool, arn, runtime, gateway, context, spoiled>>
        /\ script'.target = t /\ Idle
        /\ streak' = IF script'.name = "full" /\ streak.target = t THEN streak
                     ELSE [target |-> t, length |-> 0]
    BY <1>3 DEF StartScript, Start, cloud, local
  <2>2. streak' = streak /\ streak.target = t
    BY <1>2, <2>1
  <2>3. t = p
    BY <1>0, <1>1, <2>2 DEF Shape, StreakOK
  <2>4. script'.todo = FullRun
    BY <1>1, <1>2, <1>3, Begins
  <2>5. ToDo("deploy-runtime")'
    BY <2>4, FullRunOrder DEF ToDo
  <2>6. /\ Whole(p)
        /\ p \notin spoiled => gateway[p].tools = Tools
        /\ streak.length = 2 => runtime[p].url = gateway[p].id
    BY <1>0, <2>2 DEF Settled
  <2>7. /\ Whole(p)'
        /\ (p \notin spoiled => gateway[p].tools = Tools)'
        /\ (streak.length = 2 => runtime[p].url = gateway[p].id)'
    BY <2>1, <2>2, <2>6 DEF Whole, EntriesReachRuntime
  <2>8. Target' = p
    BY <2>1, <2>3 DEF Target
  <2> QED
    BY <2>5, <2>7, <2>8 DEF Settled
<1>4. CASE DeployStep
  <2>1. PICK ok \in BOOLEAN : ~Idle /\ Proceed(ok) /\ faults' \in 0..MaxFaults
    BY <1>1, <1>4, Advances
  <2>2. /\ script'.name = script.name /\ script'.target = script.target
        /\ script'.clean = (script.clean /\ ok)
        /\ \A x : ToDo(x) <=> x = Head(script.todo) \/ ToDo(x)'
    BY <1>1, <2>1, Goes
  <2>3. Target' = p
    BY <1>0, <2>2 DEF Target
  <2>4. script'.todo = Tail(script.todo) /\ spoiled' = spoiled /\ ok = TRUE
    <3>1. script'.todo = Tail(script.todo)
      BY <1>1, <2>1 DEF Proceed, Shape, RunOK, ScriptOK
    <3>2. ok = TRUE
      <4>1. ok = FALSE => streak' = [streak EXCEPT !.length = 0]
        BY <2>1 DEF Proceed, Score
      <4>2. ok = FALSE => streak'.length = 0
        BY <1>1, <4>1 DEF Shape, RunOK
      <4> QED
        BY <4>2
    <3> QED
      BY <1>2, <2>1, <2>2, <3>1, <3>2 DEF Proceed, Score
  <2>5. \/ streak' = streak
        \/ /\ script'.todo = <<>> /\ script'.clean
           /\ streak'.length = streak.length + 1
    <3>1. streak \in [target : Targets, length : 0..2]
      BY <1>1 DEF Shape, RunOK
    <3>2. streak' = [streak EXCEPT !.length =
                      IF Tail(script.todo) = <<>> /\ script.clean /\ streak.length < 2
                      THEN streak.length + 1 ELSE streak.length]
      BY <1>2, <2>1, <2>2, <2>4 DEF Proceed, Score
    <3>3. CASE Tail(script.todo) = <<>> /\ script.clean /\ streak.length < 2
      BY <2>2, <2>4, <3>1, <3>2, <3>3
    <3>4. CASE ~(Tail(script.todo) = <<>> /\ script.clean /\ streak.length < 2)
      BY <3>1, <3>2, <3>4
    <3> QED
      BY <3>3, <3>4
  \* A step of a run after the first of the streak.
  <2>6. ASSUME streak.length > 0
        PROVE  /\ Whole(p)' /\ gateway'[p].id = gateway[p].id
               /\ p \notin spoiled => gateway'[p].tools = Tools
               /\ \/ streak.length = 2
                  \/ ~ToDo("deploy-runtime")'
                  => runtime'[p].url = gateway'[p].id
    <3>1. /\ Whole(p)
          /\ p \notin spoiled => gateway[p].tools = Tools
          /\ streak.length = 2 \/ ~ToDo("deploy-runtime") =>
               runtime[p].url = gateway[p].id
      BY <1>0, <2>1, <2>6 DEF Settled
    <3>2. /\ Whole(p)' /\ gateway'[p].id = gateway[p].id
          /\ gateway[p].tools \subseteq gateway'[p].tools
          /\ \/ runtime'[p].url = gateway[p].id
             \/ /\ runtime'[p].url = runtime[p].url
                /\ Head(script.todo) # "deploy-runtime"
      BY <1>0, <1>4, <3>1, WholeStays
    <3>3. gateway'[p].tools \subseteq Tools
      BY <1>1 DEF CloudOK
    <3> QED
      BY <2>2, <3>1, <3>2, <3>3
  <2>7. CASE streak' = streak
    BY <2>3, <2>4, <2>6, <2>7 DEF Settled
  <2>8. CASE /\ script'.todo = <<>> /\ script'.clean
             /\ streak'.length = streak.length + 1
    <3>1. \A x : ~ToDo(x)'
      BY <2>8, Nothing DEF ToDo
    <3>2. /\ \A s \in Stacks : s \in stacks'[p]
          /\ runtime'[p] # NoRuntime /\ runtime'[p].pool = pool'[p]
          /\ context'.runtime = runtime'[p].id
          /\ arn'[p]["router"] = runtime'[p].id
          /\ arn'[p]["webui"] = runtime'[p].id
          /\ gateway'[p] # NoGateway
          /\ context'.url = gateway'[p].id
          /\ p \notin spoiled' => \A x \in Tools : x \in gateway'[p].tools
      <4> DEFINE Done(t) ==
            /\ \A s \in Stacks : ~ToDo(s) => s \in stacks[t]
            /\ ~ToDo("deploy-runtime") =>
                 runtime[t] # NoRuntime /\ runtime[t].pool = pool[t]
            /\ ~ToDo("persist-runtime") => context.runtime = runtime[t].id
            /\ ~ToDo("router") => arn[t]["router"] = runtime[t].id
            /\ ~ToDo("webui") => arn[t]["webui"] = runtime[t].id
            /\ ~ToDo("create-gateway") => gateway[t] # NoGateway
            /\ ~ToDo("persist-gateway") => context.url = gateway[t].id
            /\ \A x \in Tools : ~ToDo(x) /\ t \notin spoiled => x \in gateway[t].tools
      <4>1. Done(p)'
        BY <1>1, <1>2, <2>3, <2>8 DEF DoneSoFar
      <4> QED
        BY <3>1, <4>1
    <3>3. /\ stacks'[p] \subseteq Stacks /\ gateway'[p].tools \subseteq Tools
          /\ context' \in [runtime : Ids, url : Ids]
      BY <1>1 DEF CloudOK
    <3>4. context' = [runtime |-> runtime'[p].id, url |-> gateway'[p].id]
      BY <3>2, <3>3
    <3>5. Whole(p)'
      BY <3>2, <3>3, <3>4 DEF Whole, EntriesReachRuntime
    <3>6. p \notin spoiled' => gateway'[p].tools = Tools
      BY <3>2, <3>3
    <3>7. streak'.length = 2 => runtime'[p].url = gateway'[p].id
      BY <1>2, <2>6, <2>8, <3>1
    <3>8. Idle'
      BY <2>8 DEF Idle
    <3> QED
      BY <2>3, <3>5, <3>6, <3>7, <3>8 DEF Settled
  <2> QED
    BY <2>5, <2>7, <2>8
<1>5. CASE DestroyStep
  <2>1. script.name = "destroy"
    BY <1>5 DEF DestroyStep, EmptyGateway, DeleteGateway, DeleteRuntime, DestroyStack,
                DeleteUserTokens, ClearConfig, Destroying, Doing
  <2>2. script'.name = script.name
    BY <1>1, <1>5, Advances, Goes
  <2> QED
    BY <1>2, <2>1, <2>2
<1>6. CASE /\ Ended /\ faults' \in 0..MaxFaults
           /\ runs' = runs
  BY <1>1, <1>6, Stops DEF Ended
<1>7. CASE /\ UNCHANGED <<script, streak, spoiled, runs, faults>>
           /\ UNCHANGED <<stacks, pool, arn, runtime, context>>
           /\ \/ UNCHANGED <<gateway, userTokens>>
              \/ \E t \in Targets : TargetGone(t) \/ Login(t)
  <2>1. /\ gateway'[p].id = gateway[p].id /\ gateway'[p].tools = gateway[p].tools
        /\ gateway[p] # NoGateway => gateway'[p] # NoGateway
    <3>1. ASSUME NEW u \in Targets, TargetGone(u)
          PROVE  /\ gateway'[p].id = gateway[p].id
                 /\ gateway'[p].tools = gateway[p].tools
                 /\ gateway[p] # NoGateway => gateway'[p] # NoGateway
      <4>1. PICK x \in gateway[u].leaving :
              gateway' = [gateway EXCEPT ![u].leaving = @ \ {x}]
        BY <3>1 DEF TargetGone
      <4> QED
        BY <1>0, <1>1, <4>1 DEF CloudOK, NoGateway
    <3>2. ASSUME NEW u \in Targets, Login(u)
          PROVE  gateway' = gateway
      BY <3>2 DEF Login
    <3> QED
      BY <1>7, <3>1, <3>2
  <2>2. /\ Whole(p)
        /\ p \notin spoiled => gateway[p].tools = Tools
        /\ streak.length = 2 \/ (~Idle /\ ~ToDo("deploy-runtime")) =>
             runtime[p].url = gateway[p].id
    BY <1>0, <1>7 DEF Settled
  <2>3. /\ Target' = p /\ (Idle' <=> Idle)
        /\ ToDo("deploy-runtime")' <=> ToDo("deploy-runtime")
    BY <1>0, <1>7 DEF Target, Idle, ToDo
  <2>4. Whole(p)'
    BY <1>7, <2>1, <2>2 DEF Whole, EntriesReachRuntime
  <2>5. /\ (p \notin spoiled => gateway[p].tools = Tools)'
        /\ (streak.length = 2 \/ (~Idle /\ ~ToDo("deploy-runtime")) =>
              runtime[p].url = gateway[p].id)'
    BY <1>7, <2>1, <2>2, <2>3
  <2>6. /\ Whole(Target)'
        /\ (Target \notin spoiled => gateway[Target].tools = Tools)'
    BY <2>3, <2>4, <2>5
  <2>7. (streak.length = 2 \/ (~Idle /\ ~ToDo("deploy-runtime")) =>
           runtime[Target].url = gateway[Target].id)'
    BY <2>3, <2>5
  <2> QED
    BY <2>6, <2>7 DEF Settled
<1> QED
  BY <1>1, <1>3, <1>4, <1>5, <1>6, <1>7, Kinds

-----------------------------------------------------------------------------
(* The theorems. *)

LEMMA InitTypes == Init => TypeOK /\ PlanInv
<1> SUFFICES ASSUME Init
             PROVE  TypeOK /\ PlanInv
  OBVIOUS
<1>1. PICK t \in Targets :
        /\ script = [name |-> "part", target |-> t, todo |-> <<>>, clean |-> FALSE]
        /\ streak = [target |-> t, length |-> 0]
  BY DEF Init
<1>2. /\ script.name = "part" /\ script.target = t /\ script.todo = <<>>
      /\ script.clean = FALSE /\ <<>> \in Seq(Steps)
      /\ streak.target = t /\ streak.length = 0
  BY <1>1
<1>3. ScriptOK
  BY <1>1, <1>2 DEF ScriptOK
<1>4. Orderly /\ GatewayFirst /\ StreakOK
  BY <1>2, Nothing DEF Orderly, GatewayFirst, StreakOK, ToDo, Target
<1>5. RunOK
  <2>1. IsSuffix(script.todo, FullRun)
    BY <1>2, PlanTypes, SuffixEnds
  <2>2. faults \in 0..MaxFaults /\ runs \in [Targets -> Nat] /\ spoiled \subseteq Targets
    BY MaxFaultsAssumption DEF Init
  <2>3. streak \in [target : Targets, length : 0..2]
    BY <1>1
  <2> QED
    BY <1>3, <2>1, <2>2, <2>3 DEF RunOK
<1>6. CloudOK
  <2>1. NoRuntime \in [id : Ids, url : Ids, pool : Ids]
    BY DEF NoRuntime, Ids
  <2>2. NoGateway \in [id : Ids, pool : Ids, tools : SUBSET Tools,
                       leaving : SUBSET Tools]
    BY DEF NoGateway, Ids
  <2>3. arn \in [Targets -> [{"router", "webui"} -> Ids]]
    BY DEF Init, Ids
  <2>4. NoGateway.tools = {} /\ NoGateway.leaving = {}
    BY DEF NoGateway
  <2>5. context \in [runtime : Ids, url : Ids]
    BY DEF Init, Ids
  <2> QED
    BY <2>1, <2>2, <2>3, <2>4, <2>5 DEF Init, CloudOK, Ids
<1> QED
  BY <1>3, <1>4, <1>5, <1>6, TypeSplit DEF PlanInv

\* Whatever scripts are started, killed or fail, for whatever accounts: every
\* step of theirs finds and leaves the cloud, cdk.json and the configuration in
\* states that make sense, and targets are created at gateways that exist.
THEOREM TypeCorrect == Spec => [](TypeOK /\ PlanInv)
<1>1. Init => TypeOK /\ PlanInv
  BY InitTypes
<1>2. TypeOK /\ PlanInv /\ [Next]_vars => (TypeOK /\ PlanInv)'
  BY PlanStep
<1> QED
  BY <1>1, <1>2, PTL DEF Spec

LEMMA Soundness == TypeOK /\ PlanInv => Sound
BY TypeSplit DEF Sound, PlanInv, Shape

\* A destroy that met no fault has undone what it no longer has to do.
LEMMA UndoneAlways == Spec => []Undone
<1>1. Init => Undone
  BY DEF Init, Undone
<1>2. TypeOK /\ PlanInv /\ Undone /\ [Next]_vars => Undone'
  BY Soundness, UndoneStep
<1> QED
  BY <1>1, <1>2, TypeCorrect, PTL DEF Spec

\* A gateway whose target is not spoiled trusts the pool of the target.
LEMMA TrustedAlways == Spec => []Trusted
<1>1. Init => Trusted
  BY DEF Init, Trusted, NoGateway
<1>2. TypeOK /\ PlanInv /\ Undone /\ Trusted /\ [Next]_vars => Trusted'
  BY Soundness, TrustedStep
<1> QED
  BY <1>1, <1>2, TypeCorrect, UndoneAlways, PTL DEF Spec

\* What full runs without a fault have done, and have left after them.
LEMMA SettledAlways == Spec => [](DoneSoFar /\ Settled)
<1>1. Init => DoneSoFar /\ Settled
  BY DEF Init, DoneSoFar, Settled
<1>2. TypeOK /\ PlanInv /\ Trusted /\ DoneSoFar /\ Settled /\ [Next]_vars =>
        (DoneSoFar /\ Settled)'
  BY Soundness, DoneSoFarStep, SettledStep
<1> QED
  BY <1>1, <1>2, TypeCorrect, TrustedAlways, PTL DEF Spec

\* destroy.sh, when none of its steps failed or was refused, leaves no stack,
\* runtime or gateway of its target, and no token of a user who logged in while
\* it ran: it deletes the secrets after the stack that stores them.
THEOREM DestroyedIsGoneAlways == Spec => []DestroyedIsGone
<1>1. TypeOK /\ PlanInv /\ Undone => DestroyedIsGone
  <2> SUFFICES ASSUME TypeOK, PlanInv, Undone, Idle, script.name = "destroy",
                      script.clean
               PROVE  /\ stacks[Target] = {} /\ ~userTokens[Target]
                      /\ runtime[Target] = NoRuntime /\ gateway[Target] = NoGateway
    BY DEF DestroyedIsGone
  <2>1. \A x : ~ToDo(x)
    BY Nothing DEF Idle, ToDo
  <2>2. stacks[Target] \subseteq Stacks
    BY DEF TypeOK, Target
  <2> QED
    BY <2>1, <2>2 DEF Undone
<1> QED
  BY <1>1, TypeCorrect, UndoneAlways, PTL

\* After a full run of deploy.sh in which nothing failed the router and web_api
\* call the runtime that exists, whatever cdk.json named when it began.
THEOREM OneRunReachesRuntimeAlways == Spec => []OneRunReachesRuntime
<1>1. TypeOK /\ PlanInv /\ Settled => OneRunReachesRuntime
  BY DEF PlanInv, StreakOK, Settled, Whole, OneRunReachesRuntime
<1> QED
  BY <1>1, TypeCorrect, SettledAlways, PTL

\* After two of them on end everything is wired, unless a destroy of the target
\* met a fault: then its gateway may trust a user pool that is gone.
THEOREM TwoRunsWireAlways == Spec => []TwoRunsWire
<1>1. TypeOK /\ PlanInv /\ Trusted /\ Settled => TwoRunsWire
  <2> SUFFICES ASSUME TypeOK, PlanInv, Trusted, Settled, streak.length = 2,
                      streak.target \notin spoiled
               PROVE  Wired(streak.target)
    BY DEF TwoRunsWire
  <2>1. streak.target = Target /\ Target \in Targets
    BY DEF PlanInv, StreakOK, ScriptOK, Target
  <2>2. /\ Whole(Target) /\ gateway[Target].tools = Tools
        /\ runtime[Target].url = gateway[Target].id
    BY <2>1 DEF Settled
  <2>3. gateway[Target].pool = pool[Target]
    BY <2>1, <2>2 DEF Trusted, Whole
  <2> QED
    BY <2>1, <2>2, <2>3 DEF Wired, Whole
<1> QED
  BY <1>1, TypeCorrect, TrustedAlways, SettledAlways, PTL

\* The roles permit the calls of the components, resource by resource.
LEMMA Permitted ==
    ASSUME NEW a, NEW b
    PROVE  /\ AgentCalls(a) \subseteq AgentRole(a)
           /\ RouterCalls(a) \subseteq RouterRole(a)
           /\ WebApiCalls(a, b) \subseteq WebApiRole(a, b)
           /\ InterceptorCalls \subseteq InterceptorRole
           /\ ToolCalls \subseteq ToolRole /\ GatewayCalls \subseteq GatewayRole
<1>1. AgentCalls(a) \subseteq AgentRole(a)
  BY DEF AgentCalls, AgentRole, Statement, Fixed, Secrets
<1>2. RouterCalls(a) \subseteq RouterRole(a)
  BY DEF RouterCalls, RouterRole, Statement, Fixed, Secrets, TableAccess
<1>3. WebApiCalls(a, b) \subseteq WebApiRole(a, b)
  BY DEF WebApiCalls, WebApiRole, Statement, Fixed, Secrets, TableAccess
<1>4. ToolCalls \subseteq ToolRole
  BY DEF ToolCalls, ToolRole
<1> QED
  BY <1>1, <1>2, <1>3, <1>4 DEF InterceptorCalls, InterceptorRole, GatewayCalls,
     GatewayRole

\* And from then on no component calls what its role does not permit: the pool
\* that the agent was given is the one that its role names.
THEOREM CallsAreGrantedAlways == Spec => []CallsAreGranted
<1>1. TypeOK /\ PlanInv /\ Settled => CallsAreGranted
  <2> SUFFICES ASSUME TypeOK, PlanInv, Settled, streak.length > 0
               PROVE  Calls(streak.target) \subseteq Grants(streak.target)
    BY DEF CallsAreGranted
  <2>1. runtime[streak.target].pool = pool[streak.target]
    BY DEF PlanInv, StreakOK, Settled, Whole
  <2> QED
    BY <2>1, Permitted DEF Calls, Grants
<1> QED
  BY <1>1, TypeCorrect, SettledAlways, PTL

\* Once everything is wired and cdk.json says so, no step of deploy.sh, in any
\* order and with any fault, takes it apart.
THEOREM StepsAreIdempotentAlways == Spec => StepsAreIdempotent
<1> DEFINE Repeats ==
      \A t \in Targets :
         Wired(t) /\ context = [runtime |-> runtime[t].id, url |-> gateway[t].id]
         /\ script.name # "destroy" /\ t = Target => Wired(t)'
<1>1. TypeOK /\ PlanInv /\ [Next]_vars => Repeats
  <2> SUFFICES ASSUME TypeOK, PlanInv, [Next]_vars, NEW t \in Targets, Wired(t),
                      context = [runtime |-> runtime[t].id, url |-> gateway[t].id],
                      script.name # "destroy", t = Target
               PROVE  Wired(t)'
    OBVIOUS
  <2>0. Sound /\ Shape /\ CloudOK /\ CloudOK'
    BY Soundness, CloudTypes DEF Sound
  <2>1. ASSUME NEW u \in Targets, StartScript(u)
        PROVE  Wired(t)'
    BY <2>1 DEF StartScript, Start, cloud, Wired, EntriesReachRuntime
  <2>2. CASE DeployStep
    <3>1. Whole(t)
      BY DEF Whole, Wired
    <3>2. /\ Whole(t)'
          /\ pool'[t] = pool[t] /\ gateway'[t].pool = gateway[t].pool
          /\ gateway'[t].id = gateway[t].id
          /\ gateway[t].tools \subseteq gateway'[t].tools
          /\ \/ runtime'[t].url = gateway[t].id
             \/ runtime'[t].url = runtime[t].url
      BY <2>0, <2>2, <3>1, WholeStays
    <3>3. gateway'[t].tools \subseteq Tools
      BY <2>0 DEF CloudOK
    <3> QED
      BY <3>2, <3>3 DEF Whole, Wired
  <2>3. CASE DestroyStep
    BY <2>3 DEF DestroyStep, EmptyGateway, DeleteGateway, DeleteRuntime, DestroyStack,
                DeleteUserTokens, ClearConfig, Destroying, Doing
  <2>4. CASE UNCHANGED <<stacks, pool, arn, runtime, gateway>>
    BY <2>4 DEF Wired, EntriesReachRuntime
  <2>5. ASSUME NEW u \in Targets, TargetGone(u),
               UNCHANGED <<stacks, pool, arn, runtime>>
        PROVE  Wired(t)'
    <3>1. PICK x \in gateway[u].leaving :
            gateway' = [gateway EXCEPT ![u].leaving = @ \ {x}]
      BY <2>5 DEF TargetGone
    <3>2. /\ gateway'[t].id = gateway[t].id /\ gateway'[t].pool = gateway[t].pool
          /\ gateway'[t].tools = gateway[t].tools
          /\ gateway[t] # NoGateway => gateway'[t] # NoGateway
      BY <2>0, <3>1 DEF CloudOK, NoGateway
    <3> QED
      BY <2>5, <3>2 DEF Wired, EntriesReachRuntime
  <2>6. ASSUME NEW u \in Targets, Login(u)
        PROVE  gateway' = gateway
    BY <2>6 DEF Login
  <2> QED
    BY <2>0, <2>1, <2>2, <2>3, <2>4, <2>5, <2>6, Kinds
<1>2. TypeOK /\ PlanInv /\ [Next]_vars => [Repeats]_vars
  BY <1>1
<1>3. StepsAreIdempotent <=> [][Repeats]_vars
  BY DEF StepsAreIdempotent
<1> QED
  BY <1>2, <1>3, TypeCorrect, PTL DEF Spec

=============================================================================
