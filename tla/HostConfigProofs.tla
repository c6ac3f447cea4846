--------------------------- MODULE HostConfigProofs ---------------------------
(***************************************************************************)
(* Proofs about HostConfig, for any Hosts, files, flags and numbers of     *)
(* init commands and kills: the rows a Host has, that init leaves nothing  *)
(* open, that a Host runs what its file says, and that its row says so.    *)
(***************************************************************************)
EXTENDS HostConfig, FiniteSetTheorems, TLAPS

\* The ids of the environment, and all there may be.
EnvIds == {EnvId[h] : h \in Hosts} \ {NoId}
IdSpace == Nat \union EnvIds \union {NoId}

HostPcs == {"down", "booting", "registering", "up"}
InitPcs == {"idle", "planned", "opened", "applying", "posted"}
HostRecord == [pc : HostPcs, agent : Agents, id : IdSpace,
               reg : {"none", "sent", "answered"}, seq : Nat]
Registrations == [host : Hosts, id : IdSpace, name : Names, tags : Tags, seq : Nat]
RowRecord == [host : Hosts, name : Names, tags : Tags, seq : Nat, newest : Nat]

\* The types, with ids and numbers of any size.
Types ==
    /\ file = NoFile \/ file \in Seq(Entries)
    /\ init \in [pc : InitPcs, plan : Seq(Entries), urls : 0..Len(HostName), next : Nat,
                 settles : BOOLEAN]
    /\ hosts \in [Hosts -> HostRecord]
    /\ idFile \in [Hosts -> IdSpace]
    /\ wire \subseteq Registrations
    /\ DOMAIN rows \subseteq IdSpace /\ \A id \in DOMAIN rows : rows[id] \in RowRecord
    /\ lastId \in Nat /\ lastSend \in Nat
    /\ doubt \subseteq Hosts /\ tears \in [Hosts -> Nat]
    /\ inits \in 0..MaxInits /\ faults \in 0..MaxFaults

\* Ids are of uuids that were made, or from an environment; numbers are of
\* registrations that were sent.
Known ==
    /\ \A h \in Hosts :
          /\ hosts[h].id \in IF hosts[h].pc = "down" THEN {NoId} ELSE Ids
          /\ idFile[h] \in Ids \union {0, NoId}
          /\ hosts[h].seq <= lastSend
          /\ tears[h] <= faults
    /\ \A r \in wire : r.id \in Ids /\ 1 <= r.seq /\ r.seq <= lastSend
    /\ \A id \in DOMAIN rows :
          /\ id \in Ids
          /\ 1 <= rows[id].seq /\ rows[id].seq <= rows[id].newest /\ rows[id].newest <= lastSend

\* What the phase of a Host says of its registration and id file.
Phase(h) ==
    /\ hosts[h].pc \in {"down", "booting"} => hosts[h].reg = "none" /\ hosts[h].seq = 0
    /\ h \in HasIdFile /\ hosts[h].pc = "booting" => idFile[h] = 0
    /\ h \in HasIdFile /\ hosts[h].pc \in {"registering", "up"} => idFile[h] = hosts[h].id

\* The ids Host h has, or may come to have a row under.
Mention(h, id) ==
    \/ hosts[h].pc # "down" /\ hosts[h].id = id
    \/ idFile[h] = id
    \/ EnvId[h] = id
    \/ \E r \in wire : r.host = h /\ r.id = id
    \/ id \in DOMAIN rows /\ rows[id].host = h

IdsOf(h) == {id \in Ids : Mention(h, id)}

\* One id, and one more for each kill that left the id file empty; a Host that is
\* down and finds no id will take one more.
Budget(h) ==
    /\ EnvId[h] # NoId => IdsOf(h) = {EnvId[h]}
    /\ h \in HasIdFile /\ EnvId[h] = NoId =>
          /\ IsFiniteSet(IdsOf(h)) /\ Cardinality(IdsOf(h)) <= 1 + tears[h]
          /\ hosts[h].pc = "down" /\ idFile[h] \in {0, NoId} => Cardinality(IdsOf(h)) <= tears[h]

Hostwise(h) == Phase(h) /\ (h \in HasIdFile => Budget(h))

\* The inductive invariant of ids, types and phases.
Inv == Types /\ Known /\ SettledIsComplete /\ \A h \in Hosts : Hostwise(h)

-----------------------------------------------------------------------------
\* What every file and plan keeps of an entry, at its place.
GoodEntry(i, e) ==
    /\ e.mode = "opencode" => e.tags = "discovered"
    /\ Named => \A h \in Hosts : e.name = HostName[h] => i = h
GoodFile(f) == \A i \in DOMAIN f : GoodEntry(i, f[i])

\* An id belongs to one Host.
Owned == \A h, k \in Hosts, id \in Ids : Mention(h, id) /\ Mention(k, id) => h = k

\* A row or a registration says what the agent is.
Says(r, agent) == r.name = agent.name /\ r.tags = agent.tags

\* Its last registration is the newest that can be taken for its id, and says
\* what its agent is.
Latest(h) ==
    hosts[h].pc \in {"registering", "up"} =>
        /\ \A r \in wire : r.id = hosts[h].id =>
              r.seq <= hosts[h].seq /\ (r.seq = hosts[h].seq => Says(r, hosts[h].agent))
        /\ \A r \in wire : r.host = h /\ r.seq = hosts[h].seq => r.id = hosts[h].id
        /\ hosts[h].id \in DOMAIN rows =>
              LET row == rows[hosts[h].id]
              IN  row.newest <= hosts[h].seq /\ (row.seq = hosts[h].seq => Says(row, hosts[h].agent))
        /\ hosts[h].reg = "answered" =>
              hosts[h].id \in DOMAIN rows /\ rows[hosts[h].id].newest = hosts[h].seq

\* The row of a Host nobody doubts follows it, whatever is taken next.
Followed(h) ==
    hosts[h].pc = "up" /\ h \notin doubt =>
        /\ hosts[h].id \in DOMAIN rows
        /\ LET row == rows[hosts[h].id]
           IN  /\ row.seq = row.newest => Says(row, hosts[h].agent)
               /\ \A r \in wire : r.id = hosts[h].id /\ r.seq >= row.newest => Says(r, hosts[h].agent)

\* It runs what its entry gives: an agent of that name and those tags, and of
\* that executor and planner where nothing else gives it an LLM.
Current(h) ==
    hosts[h].pc # "down" /\ h \notin doubt /\ file # NoFile /\ h \in DOMAIN file
    /\ EntryOf(h) \subseteq {h}
        => /\ Says(hosts[h].agent, Boots(file[h]))
           /\ Plain => hosts[h].agent = Boots(file[h])

\* init posts what it wrote, and waits for the Host that it posted to.
InitOK ==
    /\ init.pc \in {"applying", "posted"} => file = init.plan
    /\ init.pc = "posted" => Target \in Hosts /\ Target \in DOMAIN init.plan
    /\ init.pc = "posted" /\ hosts[Target].pc = "up" /\ hosts[Target].reg # "none"
          => hosts[Target].agent = Applies(init.plan[Target])

\* The inductive invariants of the agents and of their rows.
RunsInv ==
    /\ file # NoFile => GoodFile(file)
    /\ GoodFile(init.plan)
    /\ InitOK
    /\ \A h \in Hosts : Current(h)

CatalogInv == Owned /\ \A h \in Hosts : Latest(h) /\ Followed(h)

-----------------------------------------------------------------------------
(* Entries and agents.                                                     *)

\* What the proofs use of the constants.
LEMMA Settings == /\ EnvUrl \in Urls \union {NoUrl} /\ NoUrl \notin Urls
                  /\ Hosts = 1..Len(HostName) /\ Len(HostName) \in Nat /\ 1 \in Hosts
                  /\ \A h \in Hosts : HostName[h] \in Names /\ EnvId[h] \notin Nat
                  /\ NoId \notin Nat /\ HasIdFile \subseteq Hosts
                  /\ NoFile \notin Seq(Entries)
<1>1. HostName \in Seq(STRING) /\ HostName # <<>>
  BY ConfigAssumption
<1>2. Hosts = 1..Len(HostName) /\ Len(HostName) \in Nat /\ 1 \in Hosts
  BY <1>1 DEF Hosts
<1>3. QED
  BY <1>2, ConfigAssumption DEF Names

LEMMA EntryFields ==
    ASSUME NEW e \in Entries
    PROVE  /\ e.name \in Names /\ e.mode \in Modes /\ e.url \in Urls \union {NoUrl}
           /\ e.tags \in Tags
  BY DEF Entries

\* What spec_from_local, the flags of a Host and apply_config make is an agent.
LEMMA AgentTypes ==
    /\ \A e \in Entries : Boots(e) \in Agents /\ Applies(e) \in Agents
    /\ \A h \in Hosts : BootsBare(h) \in Agents
<1>1. Worker.kind \in {"echo", "agent", "opencode"} /\ Worker.url \in Urls \union {NoUrl}
  BY Settings DEF Worker
<1>2. ASSUME NEW name \in Names, NEW tags \in Tags, NEW x,
             x.kind \in {"echo", "agent", "opencode"}, x.url \in Urls \union {NoUrl},
             NEW planner \in Urls \union {NoUrl}
      PROVE  Agent(name, tags, x, planner) \in Agents
  BY <1>2 DEF Agent, Agents
<1>3. ASSUME NEW h \in Hosts PROVE BootsBare(h) \in Agents
  <2>1. (IF HostExecutor = "opencode" THEN "discovered" ELSE "given") \in Tags
    BY DEF Tags
  <2>2. QED
    BY <1>1, <1>2, <2>1, Settings DEF BootsBare
<1>4. ASSUME NEW e \in Entries PROVE Boots(e) \in Agents /\ Applies(e) \in Agents
  <2> DEFINE echo == [kind |-> "echo", url |-> NoUrl]
             code == [kind |-> "opencode", url |-> NoUrl]
  <2>1. /\ echo.kind = "echo" /\ echo.url = NoUrl /\ code.kind = "opencode" /\ code.url = NoUrl
        /\ LlmLoop(e.url).kind = "agent" /\ LlmLoop(e.url).url = e.url
        /\ "discovered" \in Tags
    BY DEF LlmLoop, Tags
  <2> HIDE DEF echo, code
  <2>2. \A t \in Tags, u \in Urls \union {NoUrl} :
           /\ Agent(e.name, t, echo, u) \in Agents /\ Agent(e.name, t, code, u) \in Agents
           /\ Agent(e.name, t, LlmLoop(e.url), u) \in Agents
           /\ Agent(e.name, t, Worker, u) \in Agents
    BY <1>1, <1>2, <2>1, EntryFields
  <2>3. QED
    BY <2>1, <2>2, Settings, EntryFields DEF Boots, Applies, echo, code
<1>5. QED
  BY <1>3, <1>4

\* apply_flags, of one agent: it keeps the name, and settled flags complete it.
LEMMA FlagEntryType ==
    ASSUME NEW e \in Entries, NEW x \in Flags
    PROVE  /\ FlagEntry(e, x) \in Entries
           /\ FlagEntry(e, x).name = e.name
           /\ Settles(x) => Configured(FlagEntry(e, x))
           /\ (e.mode = "opencode" => e.tags = "discovered")
                => (FlagEntry(e, x).mode = "opencode" => FlagEntry(e, x).tags = "discovered")
<1> DEFINE f == FlagEntry(e, x)
<1>1. x.executor \in Modes \union {"none"} /\ x.url \in Urls \union {NoUrl, NotGiven}
  BY DEF Flags
<1>2. f \in Entries /\ f.name = e.name
  BY <1>1 DEF FlagEntry, Entries, Modes, Tags
<1>3. /\ f.mode = "opencode" => f.tags = IF x.executor = "opencode" THEN "discovered" ELSE e.tags
      /\ f.mode = "opencode" /\ x.executor # "opencode" => e.mode = "opencode"
  BY <1>1 DEF FlagEntry, Entries, Modes, Tags
<1>4. ASSUME Settles(x) PROVE Configured(f)
  BY <1>1, <1>4, ConfigAssumption DEF Settles, Configured, FlagEntry, Entries, Modes, Tags
<1>5. QED
  BY <1>2, <1>3, <1>4

-----------------------------------------------------------------------------
(* What init plans.                                                        *)

\* default_agents: one for each Host, in order, complete for settled flags.
LEMMA DefaultAgentsType ==
    ASSUME NEW x \in [executor : Modes \union {"none"}, url : Urls \union {NoUrl, NotGiven}]
    PROVE  /\ DefaultAgents(x) \in Seq(Entries) /\ DOMAIN DefaultAgents(x) = Hosts
           /\ \A h \in Hosts : DefaultAgents(x)[h].name = HostName[h]
           /\ Settles(x) => Complete(DefaultAgents(x))
           /\ GoodFile(DefaultAgents(x))
<1> DEFINE mode == IF x.executor # "none" THEN x.executor
                   ELSE IF x.url \in Urls THEN "auto" ELSE "echo"
           f == DefaultAgents(x)
<1>1. mode \in Modes /\ x.url \in Urls \union {NoUrl, NotGiven}
  BY DEF Modes
<1>2. ASSUME NEW h \in Hosts
      PROVE  /\ f[h] \in Entries /\ f[h].name = HostName[h] /\ f[h].mode = mode
             /\ f[h].mode = "opencode" => f[h].tags = "discovered"
             /\ Settles(x) => Configured(f[h])
  <2> DEFINE e == [name |-> HostName[h], mode |-> mode,
                   url |-> IF mode = "opencode" \/ x.url = NotGiven THEN NoUrl ELSE x.url,
                   tags |-> IF mode = "opencode" THEN "discovered" ELSE "given"]
  <2>1. f[h] = e
    BY DEF DefaultAgents
  <2>2. e.name = HostName[h] /\ e.mode = mode /\ (e.mode = "opencode" => e.tags = "discovered")
    OBVIOUS
  <2>3. e \in Entries
    BY <1>1, Settings DEF Entries, Tags
  <2>4. ASSUME Settles(x) PROVE Configured(e)
    BY <2>4, ConfigAssumption DEF Settles, Configured, Modes
  <2> HIDE DEF e, f
  <2>5. QED
    BY <2>1, <2>2, <2>3, <2>4
<1>3. f = [h \in Hosts |-> f[h]] /\ DOMAIN f = Hosts
  BY DEF DefaultAgents
<1> HIDE DEF f
<1>4. f \in Seq(Entries)
  BY <1>2, <1>3, Settings
<1>5. Settles(x) => Complete(f)
  BY <1>2, <1>3, <1>4, Settings DEF Complete
<1>6. GoodFile(f)
  BY <1>2, <1>3 DEF Named, GoodFile, GoodEntry
<1>7. QED
  BY <1>2, <1>3, <1>4, <1>5, <1>6 DEF f

\* init --yes, of whatever the file holds.
LEMMA FromFlagsType ==
    ASSUME file = NoFile \/ file \in Seq(Entries), NEW x \in Flags
    PROVE  /\ FromFlags(x) \in Seq(Entries)
           /\ Settles(x) => Complete(FromFlags(x))
           /\ (file # NoFile => GoodFile(file)) => GoodFile(FromFlags(x))
<1>1. CASE file = <<>>
  BY <1>1, DefaultAgentsType DEF FromFlags, Flags
<1>2. CASE file # <<>>
  <2> DEFINE seeds == IF file = NoFile THEN DefaultAgents(x) ELSE file
             f == [i \in DOMAIN seeds |-> FlagEntry(seeds[i], x)]
  <2>1. /\ seeds \in Seq(Entries) /\ seeds # <<>>
        /\ (file # NoFile => GoodFile(file)) => GoodFile(seeds)
    <3>1. DefaultAgents(x) # <<>>
      BY DefaultAgentsType, Settings DEF Flags
    <3>2. QED
      BY <1>2, <3>1, DefaultAgentsType DEF Flags
  <2>2. FromFlags(x) = f
    BY <1>2 DEF FromFlags
  <2> HIDE DEF seeds
  <2>3. \A i \in DOMAIN seeds : seeds[i] \in Entries
    BY <2>1
  <2>4. DOMAIN f = DOMAIN seeds /\ \A i \in DOMAIN seeds : f[i] = FlagEntry(seeds[i], x)
    OBVIOUS
  <2>5. f \in Seq(Entries) /\ f # <<>>
    <3>1. \A i \in DOMAIN seeds : FlagEntry(seeds[i], x) \in Entries
      BY <2>3, FlagEntryType
    <3>2. DOMAIN seeds = 1..Len(seeds) /\ Len(seeds) \in Nat /\ Len(seeds) > 0
      BY <2>1
    <3>3. QED
      BY <3>1, <3>2
  <2> HIDE DEF f
  <2>6. Settles(x) => Complete(f)
    BY <2>3, <2>4, <2>5, FlagEntryType, Settings DEF Complete
  <2>7. GoodFile(seeds) => GoodFile(f)
    BY <2>3, <2>4, FlagEntryType DEF GoodFile, GoodEntry
  <2>8. QED
    BY <2>1, <2>2, <2>5, <2>6, <2>7
<1>3. QED
  BY <1>1, <1>2

\* Any answers to the wizard about one agent complete it.
LEMMA WizardEntryType ==
    ASSUME NEW e \in Entries, NEW w \in WizardEntries(e)
    PROVE  /\ w \in Entries /\ Configured(w) /\ w.name \in NewNames \union {e.name}
           /\ w.mode = "opencode" => w.tags = "discovered"
  BY EntryFields, Settings DEF WizardEntries, Entries, Configured, Names, Modes, Tags

\* The wizard, of whatever the file holds.
LEMMA WizardType ==
    ASSUME file = NoFile \/ file \in Seq(Entries), NEW plan \in WizardPlans
    PROVE  /\ plan \in Seq(Entries) /\ Complete(plan)
           /\ (file # NoFile => GoodFile(file)) => GoodFile(plan)
<1> DEFINE bare == [executor |-> "none", url |-> NotGiven]
           seeds == IF file \in {NoFile, <<>>} THEN DefaultAgents(bare) ELSE file
<1>1. bare \in [executor : Modes \union {"none"}, url : Urls \union {NoUrl, NotGiven}]
  OBVIOUS
<1>2. /\ seeds \in Seq(Entries) /\ seeds # <<>>
      /\ (file # NoFile => GoodFile(file)) => GoodFile(seeds)
  <2>1. /\ DefaultAgents(bare) \in Seq(Entries) /\ DOMAIN DefaultAgents(bare) = Hosts
        /\ GoodFile(DefaultAgents(bare))
    BY <1>1, DefaultAgentsType
  <2> HIDE DEF bare
  <2>2. QED
    BY <2>1, Settings
<1>3. DOMAIN plan = DOMAIN seeds /\ \A i \in DOMAIN seeds : plan[i] \in WizardEntries(seeds[i])
  BY DEF WizardPlans
<1>4. plan = [i \in DOMAIN seeds |-> plan[i]]
  BY DEF WizardPlans
<1> HIDE DEF seeds
<1>5. \A i \in DOMAIN seeds : seeds[i] \in Entries /\ plan[i] \in Entries /\ Configured(plan[i])
  BY <1>2, <1>3, WizardEntryType
<1>6. DOMAIN seeds = 1..Len(seeds) /\ Len(seeds) \in Nat /\ Len(seeds) > 0
  BY <1>2
<1>7. plan \in Seq(Entries) /\ plan # <<>>
  BY <1>4, <1>5, <1>6
<1>8. Complete(plan)
  BY <1>3, <1>5, <1>7, Settings DEF Complete
<1>9. ASSUME GoodFile(seeds) PROVE GoodFile(plan)
  BY <1>3, <1>5, <1>9, WizardEntryType DEF Named, GoodFile, GoodEntry
<1>10. QED
  BY <1>2, <1>7, <1>8, <1>9

-----------------------------------------------------------------------------
(* The ids of a Host.                                                      *)

\* What a step does to the ids: no Host gets one, or Host h one nobody has had.
IdsStay == \A k \in Hosts, id \in Ids' : Mention(k, id)' => id \in Ids /\ Mention(k, id)
IdIsMade(h) == \A k \in Hosts, id \in Ids' :
                  Mention(k, id)' => (id \in Ids /\ Mention(k, id)) \/ (k = h /\ id \notin Ids)
OwnIds == IdsStay \/ \E h \in Hosts : IdIsMade(h)

\* The ids of the environment are ids; NoId, 0 and the next number are none.
LEMMA IdsFacts == /\ EnvIds \subseteq Ids /\ EnvIds \subseteq IdSpace /\ NoId \notin EnvIds
                  /\ \A h \in Hosts : EnvId[h] # NoId => EnvId[h] \in EnvIds
                  /\ lastId \in Nat => /\ Ids \subseteq IdSpace /\ NoId \notin Ids /\ 0 \notin Ids
                                       /\ lastId + 1 \notin Ids
<1>1. EnvIds \subseteq Ids /\ EnvIds \subseteq IdSpace /\ NoId \notin EnvIds
  BY DEF EnvIds, Ids, IdSpace
<1>2. \A h \in Hosts : EnvId[h] # NoId => EnvId[h] \in EnvIds
  BY DEF EnvIds
<1>3. \A id \in EnvIds : id \notin Nat
  BY Settings DEF EnvIds
<1>4. ASSUME lastId \in Nat
      PROVE  /\ Ids \subseteq IdSpace /\ NoId \notin Ids /\ 0 \notin Ids /\ lastId + 1 \notin Ids
  <2>1. Ids = (1..lastId) \union EnvIds
    BY DEF Ids, EnvIds
  <2>2. \A id \in 1..lastId : id \in Nat /\ id # 0 /\ id # lastId + 1
    BY <1>4
  <2>3. QED
    BY <1>1, <1>3, <1>4, <2>1, <2>2, Settings DEF IdSpace
<1>5. QED
  BY <1>1, <1>2, <1>4

\* Nor are NoId and 0 after a step.
LEMMA IdsFactsNext == lastId' \in Nat => NoId \notin Ids' /\ 0 \notin Ids'
<1>1. Ids' = (1..lastId') \union EnvIds /\ \A id \in EnvIds : id \notin Nat
  BY Settings DEF Ids, EnvIds
<1>2. QED
  BY <1>1, IdsFacts, Settings

\* No Host has an id that was neither made nor given.
LEMMA MentionedIsId ==
    ASSUME Known, NEW k \in Hosts, NEW id, Mention(k, id), id \notin {0, NoId}
    PROVE  id \in Ids
<1>1. CASE EnvId[k] = id
  BY <1>1, IdsFacts
<1>2. CASE EnvId[k] # id
  BY <1>2 DEF Mention, Known
<1>3. QED
  BY <1>1, <1>2

\* A step that gives a Host no new id, nor empties its id file while it is down
\* unless that is counted.
LEMMA ShrinkKeeps ==
    ASSUME NEW h \in Hosts, Budget(h), IdsOf(h)' \subseteq IdsOf(h),
           tears[h] \in Nat, tears'[h] \in Nat, tears'[h] >= tears[h],
           hosts'[h].pc = "down" /\ idFile'[h] \in {0, NoId} /\ EnvId[h] = NoId
              => (hosts[h].pc = "down" /\ idFile[h] \in {0, NoId}) \/ tears'[h] > tears[h]
    PROVE  Budget(h)'
<1>1. ASSUME EnvId[h] # NoId PROVE IdsOf(h)' = {EnvId[h]}
  <2>1. EnvId[h] \in Ids'
    BY <1>1 DEF Ids
  <2>2. EnvId[h] \in IdsOf(h)'
    BY <2>1 DEF IdsOf, Mention
  <2>3. QED
    BY <1>1, <2>2 DEF Budget
<1>2. ASSUME h \in HasIdFile, EnvId[h] = NoId
      PROVE  /\ IsFiniteSet(IdsOf(h)') /\ Cardinality(IdsOf(h)') <= 1 + tears'[h]
             /\ hosts'[h].pc = "down" /\ idFile'[h] \in {0, NoId}
                   => Cardinality(IdsOf(h)') <= tears'[h]
  <2>1. IsFiniteSet(IdsOf(h)) /\ Cardinality(IdsOf(h)) <= 1 + tears[h]
    BY <1>2 DEF Budget
  <2>2. /\ IsFiniteSet(IdsOf(h)') /\ Cardinality(IdsOf(h)') <= Cardinality(IdsOf(h))
        /\ Cardinality(IdsOf(h)) \in Nat /\ Cardinality(IdsOf(h)') \in Nat
    BY <2>1, FS_Subset, FS_CardinalityType
  <2>3. hosts[h].pc = "down" /\ idFile[h] \in {0, NoId} => Cardinality(IdsOf(h)) <= tears[h]
    BY <1>2 DEF Budget
  <2>4. QED
    BY <1>2, <2>1, <2>2, <2>3
<1>3. QED
  BY <1>1, <1>2 DEF Budget

\* The larger of two numbers.
LEMMA MaxOfTwo ==
    ASSUME NEW a \in Nat, NEW b \in Nat
    PROVE  /\ Max({a, b}) \in {a, b} /\ a <= Max({a, b}) /\ b <= Max({a, b})
<1>1. \E x \in {a, b} : \A y \in {a, b} : x >= y
  OBVIOUS
<1>2. Max({a, b}) \in {a, b} /\ \A y \in {a, b} : Max({a, b}) >= y
  BY <1>1 DEF Max
<1>3. QED
  BY <1>2

-----------------------------------------------------------------------------
(* Types, ids and phases, step by step.                                    *)

LEMMA InitInv == Init => Inv
<1> SUFFICES ASSUME Init PROVE Inv
  OBVIOUS
<1> USE DEF Init
<1>1. NoAgent \in Agents
  BY Settings DEF NoAgent, Agents, Tags
<1>2. DownHost \in HostRecord /\ DownHost.pc = "down" /\ DownHost.id = NoId
      /\ DownHost.reg = "none" /\ DownHost.seq = 0
  BY <1>1 DEF DownHost, HostRecord, HostPcs, IdSpace
<1>3. IdleInit \in [pc : InitPcs, plan : Seq(Entries), urls : 0..Len(HostName), next : Nat,
                    settles : BOOLEAN] /\ IdleInit.pc = "idle"
  BY Settings DEF IdleInit, InitPcs
<1>4. DOMAIN rows = {} /\ file \in FirstFiles
  OBVIOUS
<1>5. Types
  BY <1>2, <1>3, <1>4, ConfigAssumption DEF Types, IdSpace
<1>6. Known
  BY <1>2, <1>4 DEF Known
<1>7. SettledIsComplete
  BY <1>3 DEF SettledIsComplete
<1>8. ASSUME NEW h \in Hosts PROVE Hostwise(h)
  <2>1. Phase(h)
    BY <1>2 DEF Phase
  <2>2. idFile[h] = NoId /\ lastId = 0 /\ NoId \notin Ids
    BY IdsFacts
  <2>3. Ids = EnvIds
    BY DEF Ids, EnvIds
  <2>4. IdsOf(h) = IF EnvId[h] = NoId THEN {} ELSE {EnvId[h]}
    BY <1>2, <1>4, <2>2, <2>3, IdsFacts DEF IdsOf, Mention
  <2>5. Budget(h)
    BY <2>4, FS_EmptySet DEF Budget
  <2>6. QED
    BY <2>1, <2>5 DEF Hostwise
<1>9. QED
  BY <1>5, <1>6, <1>7, <1>8 DEF Inv

\* The steps of init that reach no Host.
InitSteps ==
    \/ \E urls \in 0..Len(HostName), force \in BOOLEAN :
          (\E x \in Flags : InitYes(x, urls, force)) \/ InitWizard(urls, force)
    \/ OpenFile \/ WriteFile \/ PostFails \/ EndInit \/ KillInit

\* What they leave alone.
hostVars == <<hosts, idFile, wire, rows, lastId, lastSend, tears>>

\* init goes on, with the plan it has.
LEMMA InitMoves ==
    ASSUME init \in [pc : InitPcs, plan : Seq(Entries), urls : 0..Len(HostName), next : Nat,
                     settles : BOOLEAN],
           NEW pc \in InitPcs,
           init' = [init EXCEPT !.pc = pc] \/ init' = [init EXCEPT !.pc = pc, !.next = @ + 1]
    PROVE  /\ init' \in [pc : InitPcs, plan : Seq(Entries), urls : 0..Len(HostName), next : Nat,
                         settles : BOOLEAN]
           /\ init'.pc = pc
<1> DEFINE Plans == Seq(Entries)
           Counts == 0..Len(HostName)
<1> HIDE DEF Plans, Counts
<1>1. init \in [pc : InitPcs, plan : Plans, urls : Counts, next : Nat, settles : BOOLEAN]
  BY DEF Plans, Counts
<1>2. CASE init' = [init EXCEPT !.pc = pc]
  <2>1. init' \in [pc : InitPcs, plan : Plans, urls : Counts, next : Nat, settles : BOOLEAN]
    BY <1>1, <1>2
  <2>2. init'.pc = pc
    BY <1>1, <1>2
  <2>3. QED
    BY <2>1, <2>2 DEF Plans, Counts
<1>3. CASE init' = [init EXCEPT !.pc = pc, !.next = @ + 1]
  <2>0. PICK n \in Nat : n = init.next + 1
    BY <1>1
  <2>1. init' \in [pc : InitPcs, plan : Plans, urls : Counts, next : Nat, settles : BOOLEAN]
    <3>1. init' = [init EXCEPT !.pc = pc, !.next = n]
      BY <1>3, <2>0
    <3>2. QED
      BY <1>1, <2>0, <3>1
  <2>2. init'.pc = pc
    BY <1>1, <1>3
  <2>3. QED
    BY <2>1, <2>2 DEF Plans, Counts
<1>4. QED
  BY <1>2, <1>3

\* OpenFile, WriteFile and PostFails: the plan stays, the Hosts are left alone.
LEMMA Reopened ==
    ASSUME Types, NEW pc \in InitPcs \ {"planned"},
           init' = [init EXCEPT !.pc = pc] \/ init' = [init EXCEPT !.pc = pc, !.next = @ + 1],
           file' \in {file, init.plan, <<>>}, doubt' \in {doubt, Hosts},
           UNCHANGED <<hosts, idFile, wire, rows, lastId, lastSend, tears, inits, faults>>
    PROVE  Types' /\ SettledIsComplete' /\ UNCHANGED hostVars /\ faults' >= faults
<1>1. /\ init' \in [pc : InitPcs, plan : Seq(Entries), urls : 0..Len(HostName), next : Nat,
                    settles : BOOLEAN]
      /\ init'.pc = pc
  BY InitMoves DEF Types
<1>2. file' = NoFile \/ file' \in Seq(Entries)
  <2>1. <<>> \in Seq(Entries)
    OBVIOUS
  <2>2. init.plan \in Seq(Entries) /\ (file = NoFile \/ file \in Seq(Entries))
    BY DEF Types
  <2>3. QED
    BY <2>1, <2>2
<1>3. doubt' \subseteq Hosts
  BY DEF Types
<1>4. Types'
  BY <1>1, <1>2, <1>3 DEF Types
<1>5. SettledIsComplete'
  BY <1>1 DEF SettledIsComplete
<1>6. faults' >= faults
  BY ConfigAssumption DEF Types
<1>7. QED
  BY <1>4, <1>5, <1>6 DEF hostVars

\* The steps of init that reach no Host keep the types, and plan what is complete.
LEMMA InitStepsType ==
    ASSUME Types, InitSteps, SettledIsComplete
    PROVE  Types' /\ SettledIsComplete' /\ UNCHANGED hostVars /\ faults' >= faults
<1>1. ASSUME NEW urls \in 0..Len(HostName), NEW force \in BOOLEAN, NEW plan \in Seq(Entries),
             NEW settles \in BOOLEAN, settles => Complete(plan),
             MayStart(force), Plan(plan, urls, settles)
      PROVE  Types' /\ SettledIsComplete' /\ UNCHANGED hostVars /\ faults' >= faults
  <2>1. inits' \in 0..MaxInits
    BY <1>1, ConfigAssumption DEF Types, MayStart, Plan
  <2>2. init' \in [pc : InitPcs, plan : Seq(Entries), urls : 0..Len(HostName), next : Nat,
                   settles : BOOLEAN]
    BY <1>1 DEF Plan, InitPcs
  <2>3. QED
    BY <1>1, <2>1, <2>2, ConfigAssumption DEF Types, Plan, hostVars, SettledIsComplete, Complete, Configured
<1>2. ASSUME NEW urls \in 0..Len(HostName), NEW force \in BOOLEAN, NEW x \in Flags,
             InitYes(x, urls, force)
      PROVE  Types' /\ SettledIsComplete' /\ UNCHANGED hostVars /\ faults' >= faults
  <2>1. FromFlags(x) \in Seq(Entries) /\ (Settles(x) => Complete(FromFlags(x)))
    BY FromFlagsType DEF Types
  <2>2. Settles(x) \in BOOLEAN
    BY DEF Settles
  <2>3. QED
    BY <1>1, <1>2, <2>1, <2>2 DEF InitYes
<1>3. ASSUME NEW urls \in 0..Len(HostName), NEW force \in BOOLEAN, InitWizard(urls, force)
      PROVE  Types' /\ SettledIsComplete' /\ UNCHANGED hostVars /\ faults' >= faults
  BY <1>1, <1>3, WizardType DEF InitWizard, Types
<1>0. "opened" \in InitPcs \ {"planned"} /\ "applying" \in InitPcs \ {"planned"}
  BY DEF InitPcs
<1>4. CASE OpenFile
  <2>1. init' = [init EXCEPT !.pc = "opened"] /\ file' = <<>>
        /\ UNCHANGED <<hosts, idFile, wire, rows, lastId, lastSend, doubt, tears, inits, faults>>
    BY <1>4 DEF OpenFile
  <2>2. QED
    BY <1>0, <2>1, Reopened
<1>5. CASE WriteFile
  <2>1. init' = [init EXCEPT !.pc = "applying"] /\ file' = init.plan /\ doubt' = Hosts
        /\ UNCHANGED <<hosts, idFile, wire, rows, lastId, lastSend, tears, inits, faults>>
    BY <1>5 DEF WriteFile
  <2>2. QED
    BY <1>0, <2>1, Reopened
<1>6. CASE PostFails
  <2>1. init' = [init EXCEPT !.pc = "applying", !.next = @ + 1]
        /\ UNCHANGED <<file, hosts, idFile, wire, rows, lastId, lastSend, doubt, tears, inits, faults>>
    BY <1>6 DEF PostFails, NextHost
  <2>2. QED
    BY <1>0, <2>1, Reopened
<1>7. CASE EndInit \/ KillInit
  <2>1. IdleInit \in [pc : InitPcs, plan : Seq(Entries), urls : 0..Len(HostName), next : Nat,
                      settles : BOOLEAN] /\ IdleInit.pc = "idle"
    BY Settings DEF IdleInit, InitPcs
  <2>2. faults' \in 0..MaxFaults /\ faults' >= faults
    BY <1>7, ConfigAssumption DEF EndInit, KillInit, Types
  <2>3. QED
    BY <1>7, <2>1, <2>2 DEF EndInit, KillInit, Types, hostVars, SettledIsComplete
<1>8. QED
  BY <1>2, <1>3, <1>4, <1>5, <1>6, <1>7 DEF InitSteps

\* ... and so the whole invariant.
LEMMA InitStepsKeep ==
    ASSUME Inv, InitSteps
    PROVE  Inv' /\ OwnIds
<1>1. Types' /\ SettledIsComplete' /\ UNCHANGED hostVars /\ faults' >= faults
  BY InitStepsType DEF Inv
<1>2. UNCHANGED <<hosts, idFile, wire, rows, lastId, lastSend, tears, Ids>>
  BY <1>1 DEF hostVars, Ids
<1>3. Known'
  BY <1>1, <1>2 DEF Inv, Known, Types
<1>4. ASSUME NEW h \in Hosts PROVE Hostwise(h)'
  <2>1. Phase(h)'
    BY <1>2 DEF Inv, Hostwise, Phase
  <2>2. IdsOf(h)' = IdsOf(h)
    BY <1>2 DEF IdsOf, Mention
  <2>3. QED
    BY <1>2, <2>1, <2>2 DEF Inv, Hostwise, Budget
<1>5. IdsStay
  BY <1>2 DEF IdsStay, Mention
<1>6. QED
  BY <1>1, <1>3, <1>4, <1>5 DEF Inv, OwnIds

\* reregister, of a boot or a /configure: under the id the Host has.
LEMMA RegisterKeeps ==
    ASSUME Types, Known, \A k \in Hosts : Hostwise(k), NEW h \in Hosts, hosts[h].pc # "down",
           NEW pc \in {"registering", "up"}, NEW agent \in Agents,
           Reregister(h, pc, agent, hosts[h].id),
           idFile' = IF h \in HasIdFile THEN [idFile EXCEPT ![h] = hosts[h].id] ELSE idFile,
           UNCHANGED <<rows, lastId, tears, faults>>
    PROVE  /\ hosts' \in [Hosts -> HostRecord] /\ idFile' \in [Hosts -> IdSpace]
           /\ wire' \subseteq Registrations /\ lastSend' \in Nat
           /\ Known' /\ (\A k \in Hosts : Hostwise(k)') /\ IdsStay
<1> DEFINE r == Registration(h, agent, hosts[h].id)
<1>1. /\ hosts[h].id \in Ids /\ hosts[h].id \in IdSpace /\ Ids' = Ids /\ lastSend \in Nat
      /\ hosts[h].id \notin {0, NoId}
  BY IdsFacts DEF Known, Types, Ids
<1>2. /\ hosts'[h] = [pc |-> pc, agent |-> agent, id |-> hosts[h].id, reg |-> "sent", seq |-> lastSend + 1]
      /\ \A k \in Hosts \ {h} : hosts'[k] = hosts[k]
      /\ hosts' = [k \in Hosts |-> hosts'[k]]
      /\ lastSend' = lastSend + 1
  BY DEF Reregister, Types
<1>3. wire' = wire \union {r}
  BY DEF Reregister
<1>4. /\ r.host = h /\ r.id = hosts[h].id /\ r.seq = lastSend + 1
      /\ r.name = agent.name /\ r.tags = agent.tags
  BY DEF Registration
<1>5. r \in Registrations
  BY <1>1 DEF Registration, Registrations, Agents
<1> HIDE DEF r
<1>6. hosts'[h] \in HostRecord
  BY <1>1, <1>2 DEF HostRecord, HostPcs
<1>7. hosts' \in [Hosts -> HostRecord]
  <2>1. \A k \in Hosts : hosts'[k] \in HostRecord
    BY <1>2, <1>6 DEF Types
  <2>2. QED
    BY <1>2, <2>1
<1>8. /\ idFile' \in [Hosts -> IdSpace] /\ \A k \in Hosts \ {h} : idFile'[k] = idFile[k]
      /\ idFile'[h] = IF h \in HasIdFile THEN hosts[h].id ELSE idFile[h]
  BY <1>1 DEF Types
<1>9. Known'
  <2>1. ASSUME NEW k \in Hosts
        PROVE  /\ hosts'[k].id \in IF hosts'[k].pc = "down" THEN {NoId} ELSE Ids
               /\ idFile'[k] \in Ids \union {0, NoId}
               /\ hosts'[k].seq <= lastSend' /\ tears'[k] <= faults'
    <3>1. /\ hosts[k].id \in IF hosts[k].pc = "down" THEN {NoId} ELSE Ids
          /\ idFile[k] \in Ids \union {0, NoId}
          /\ hosts[k].seq <= lastSend /\ tears[k] <= faults /\ hosts[k].seq \in Nat
      BY DEF Known, Types, HostRecord
    <3>2. CASE k = h
      BY <1>1, <1>2, <1>8, <3>1, <3>2
    <3>3. CASE k # h
      BY <1>1, <1>2, <1>8, <3>1, <3>3
    <3>4. QED
      BY <3>2, <3>3
  <2>2. \A x \in wire' : x.id \in Ids /\ 1 <= x.seq /\ x.seq <= lastSend'
    <3>1. \A x \in wire : x.id \in Ids /\ 1 <= x.seq /\ x.seq <= lastSend /\ x.seq \in Nat
      BY DEF Known, Types, Registrations
    <3>2. QED
      BY <1>1, <1>2, <1>3, <1>4, <3>1
  <2>3. \A id \in DOMAIN rows :
           /\ id \in Ids /\ 1 <= rows[id].seq /\ rows[id].seq <= rows[id].newest
           /\ rows[id].newest <= lastSend'
    BY <1>1, <1>2 DEF Known, Types, RowRecord
  <2>4. QED
    BY <1>1, <2>1, <2>2, <2>3 DEF Known
<1>10. ASSUME NEW k \in Hosts, NEW id \in Ids, Mention(k, id)' PROVE Mention(k, id)
  <2>1. CASE k = h
    BY <1>1, <1>2, <1>3, <1>4, <1>8, <1>10, <2>1 DEF Mention
  <2>2. CASE k # h
    BY <1>2, <1>3, <1>4, <1>8, <1>10, <2>2 DEF Mention
  <2>3. QED
    BY <2>1, <2>2
<1>11. IdsStay
  BY <1>1, <1>10 DEF IdsStay
<1>12. ASSUME NEW k \in Hosts PROVE Hostwise(k)'
  <2>1. Phase(k)'
    BY <1>2, <1>8 DEF Hostwise, Phase
  <2>3. IdsOf(k)' \subseteq IdsOf(k)
    BY <1>1, <1>10 DEF IdsOf
  <2>4. tears[k] \in Nat /\ tears'[k] = tears[k]
    BY DEF Types
  <2>5. hosts'[k].pc = "down" => k # h /\ hosts[k].pc = "down" /\ idFile'[k] = idFile[k]
    BY <1>2, <1>8
  <2>6. Budget(k) => Budget(k)'
    BY <2>3, <2>4, <2>5, ShrinkKeeps
  <2>7. QED
    BY <2>1, <2>6 DEF Hostwise
<1>13. QED
  BY <1>1, <1>2, <1>3, <1>5, <1>7, <1>8, <1>9, <1>11, <1>12 DEF Types

\* What a step that registers nothing may do to a Host: its registration or its
\* boot goes on, or it goes down.
Fades(h) ==
    \/ /\ hosts'[h].id = hosts[h].id /\ hosts'[h].seq = hosts[h].seq
       /\ hosts'[h].pc = hosts[h].pc \/ (hosts[h].pc = "registering" /\ hosts'[h].pc = "up")
       /\ hosts[h].pc \in {"down", "booting"} => hosts'[h].reg = hosts[h].reg
    \/ /\ hosts'[h].pc = "down" /\ hosts'[h].id = NoId
       /\ hosts'[h].reg = "none" /\ hosts'[h].seq = 0
       /\ h \in HasIdFile /\ hosts[h].pc = "booting" => tears'[h] > tears[h]

\* ... and to the rows: one that is new is of a registration on its way.
RowsTaken ==
    \A id \in DOMAIN rows' :
        \/ id \in DOMAIN rows /\ rows'[id] = rows[id]
        \/ /\ \E r \in wire : r.id = id /\ r.host = rows'[id].host
           /\ 1 <= rows'[id].seq /\ rows'[id].seq <= rows'[id].newest
           /\ rows'[id].newest <= lastSend

\* A step that registers nothing gives no Host another id.
LEMMA FadeKeeps ==
    ASSUME Types, Known, \A k \in Hosts : Hostwise(k),
           \A k \in Hosts : Fades(k), RowsTaken, wire' \subseteq wire,
           UNCHANGED <<idFile, lastId, lastSend>>,
           \A k \in Hosts : tears'[k] \in Nat /\ tears'[k] >= tears[k] /\ tears'[k] <= faults'
    PROVE  Known' /\ (\A k \in Hosts : Hostwise(k)') /\ IdsStay
<1>1. Ids' = Ids /\ lastId \in Nat /\ lastSend \in Nat
  BY DEF Ids, Types
<1>2. Known'
  <2>1. ASSUME NEW k \in Hosts
        PROVE  /\ hosts'[k].id \in IF hosts'[k].pc = "down" THEN {NoId} ELSE Ids
               /\ hosts'[k].seq <= lastSend
    <3>1. /\ hosts[k].id \in IF hosts[k].pc = "down" THEN {NoId} ELSE Ids
          /\ hosts[k].seq <= lastSend
      BY DEF Known
    <3>2. QED
      BY <1>1, <3>1 DEF Fades
  <2>2. \A id \in DOMAIN rows' :
           /\ id \in Ids /\ 1 <= rows'[id].seq /\ rows'[id].seq <= rows'[id].newest
           /\ rows'[id].newest <= lastSend
    BY DEF Known, RowsTaken
  <2>3. \A x \in wire' : x.id \in Ids /\ 1 <= x.seq /\ x.seq <= lastSend
    BY DEF Known
  <2>4. QED
    BY <1>1, <2>1, <2>2, <2>3 DEF Known
<1>3. ASSUME NEW k \in Hosts, NEW id \in Ids, Mention(k, id)' PROVE Mention(k, id)
  BY <1>3 DEF Mention, Fades, RowsTaken
<1>4. IdsStay
  BY <1>1, <1>3 DEF IdsStay
<1>5. ASSUME NEW k \in Hosts PROVE Hostwise(k)'
  <2>1. Phase(k)'
    BY DEF Hostwise, Phase, Fades
  <2>3. IdsOf(k)' \subseteq IdsOf(k)
    BY <1>1, <1>3 DEF IdsOf
  <2>4. ASSUME k \in HasIdFile, hosts'[k].pc = "down", idFile'[k] \in {0, NoId}
        PROVE  (hosts[k].pc = "down" /\ idFile[k] \in {0, NoId}) \/ tears'[k] > tears[k]
    <3>1. CASE hosts[k].pc \in {"down", "booting"}
      BY <2>4, <3>1 DEF Fades
    <3>2. CASE hosts[k].pc \in {"registering", "up"}
      <4>1. idFile[k] = hosts[k].id
        BY <2>4, <3>2 DEF Hostwise, Phase
      <4>2. hosts[k].id \in Ids
        BY <3>2 DEF Known
      <4>3. QED
        BY <1>1, <2>4, <4>1, <4>2, IdsFacts
    <3>3. QED
      BY <3>1, <3>2 DEF Types, HostRecord, HostPcs
  <2>5. tears[k] \in Nat
    BY DEF Types
  <2>6. k \in HasIdFile => Budget(k)'
    BY <2>3, <2>4, <2>5, ShrinkKeeps DEF Hostwise
  <2>7. QED
    BY <2>1, <2>6 DEF Hostwise
<1>6. QED
  BY <1>2, <1>4, <1>5

\* A /configure, and its answer.
LEMMA PostsKeep ==
    ASSUME Inv
    PROVE  (\E h \in Hosts : Post(h)) \/ PostDone => Inv' /\ OwnIds
<1>1. ASSUME NEW h \in Hosts, Post(h) PROVE Inv' /\ OwnIds
  <2> DEFINE agent == Applies(init.plan[h])
  <2>1. agent \in Agents
    BY <1>1, AgentTypes DEF Post, HasTarget, Inv, Types
  <2>2. /\ hosts[h].pc = "up" /\ Reregister(h, "up", agent, hosts[h].id)
        /\ UNCHANGED <<file, idFile, rows, lastId, doubt, tears, inits, faults>>
    BY <1>1 DEF Post
  <2>3. idFile' = IF h \in HasIdFile THEN [idFile EXCEPT ![h] = hosts[h].id] ELSE idFile
    BY <2>2 DEF Inv, Hostwise, Phase, Types
  <2> HIDE DEF agent
  <2>4. /\ hosts' \in [Hosts -> HostRecord] /\ wire' \subseteq Registrations /\ lastSend' \in Nat
        /\ Known' /\ (\A k \in Hosts : Hostwise(k)') /\ IdsStay
    BY <2>1, <2>2, <2>3, RegisterKeeps DEF Inv
  <2>5. init' \in [pc : InitPcs, plan : Seq(Entries), urls : 0..Len(HostName), next : Nat,
                   settles : BOOLEAN] /\ init'.pc = "posted"
    BY <1>1 DEF Post, Inv, Types, InitPcs
  <2>6. Types' /\ SettledIsComplete'
    BY <2>2, <2>4, <2>5 DEF Inv, Types, SettledIsComplete
  <2>7. QED
    BY <2>4, <2>6 DEF Inv, OwnIds
<1>2. ASSUME PostDone PROVE Inv' /\ OwnIds
  <2>1. /\ hosts' = [hosts EXCEPT ![Target].reg = "none"]
        /\ hosts[Target].pc = "up" /\ hosts[Target].reg = "answered"
        /\ UNCHANGED <<file, idFile, wire, rows, lastId, lastSend, tears, inits, faults>>
        /\ doubt' \subseteq doubt
    BY <1>2 DEF PostDone
  <2>2. \A k \in Hosts : hosts'[k] \in HostRecord /\ Fades(k)
    BY <2>1 DEF Inv, Types, HostRecord, Fades
  <2>3. hosts' \in [Hosts -> HostRecord]
    BY <2>1, <2>2 DEF Inv, Types
  <2>4. NextHost
    BY <1>2 DEF PostDone
  <2>5. init' \in [pc : InitPcs, plan : Seq(Entries), urls : 0..Len(HostName), next : Nat,
                   settles : BOOLEAN] /\ init'.pc = "applying"
    BY <2>4, InitMoves DEF Inv, Types, InitPcs, NextHost
  <2>6. Types' /\ SettledIsComplete'
    BY <2>1, <2>3, <2>5 DEF Inv, Types, SettledIsComplete
  <2>7. RowsTaken /\ \A k \in Hosts : tears[k] \in Nat /\ tears'[k] = tears[k] /\ tears'[k] <= faults'
    BY <2>1 DEF RowsTaken, Inv, Types, Known
  <2>8. Known' /\ (\A k \in Hosts : Hostwise(k)') /\ IdsStay
    BY <2>1, <2>2, <2>7, FadeKeeps DEF Inv
  <2>9. QED
    BY <2>6, <2>8 DEF Inv, OwnIds
<1>3. QED
  BY <1>1, <1>2

\* A boot writes the id file and registers.
LEMMA BootRegistersKeeps ==
    ASSUME Inv, NEW h \in Hosts, BootRegisters(h)
    PROVE  Inv' /\ OwnIds
<1>1. /\ hosts[h].pc = "booting"
      /\ Reregister(h, "registering", hosts[h].agent, hosts[h].id)
      /\ idFile' = IF h \in HasIdFile THEN [idFile EXCEPT ![h] = hosts[h].id] ELSE idFile
      /\ UNCHANGED <<file, init, rows, lastId, doubt, tears, inits, faults>>
  BY DEF BootRegisters
<1>2. hosts[h].agent \in Agents
  BY DEF Inv, Types, HostRecord
<1>3. /\ hosts' \in [Hosts -> HostRecord] /\ idFile' \in [Hosts -> IdSpace]
      /\ wire' \subseteq Registrations /\ lastSend' \in Nat
      /\ Known' /\ (\A k \in Hosts : Hostwise(k)') /\ IdsStay
  BY <1>1, <1>2, RegisterKeeps DEF Inv
<1>4. Types' /\ SettledIsComplete'
  BY <1>1, <1>3 DEF Inv, Types, SettledIsComplete, Complete, Configured
<1>5. QED
  BY <1>3, <1>4 DEF Inv, OwnIds

\* The other steps that register nothing, nor change what init does.
LEMMA FadeSteps ==
    ASSUME Inv, hosts' \in [Hosts -> HostRecord], \A k \in Hosts : Fades(k),
           RowsTaken, DOMAIN rows' \subseteq IdSpace, \A id \in DOMAIN rows' : rows'[id] \in RowRecord,
           wire' \subseteq wire, UNCHANGED <<file, init, idFile, lastId, lastSend, doubt, inits>>,
           tears' \in [Hosts -> Nat], faults' \in 0..MaxFaults,
           \A k \in Hosts : tears'[k] >= tears[k] /\ tears'[k] <= faults'
    PROVE  Inv' /\ OwnIds
<1>1. \A k \in Hosts : tears'[k] \in Nat
  OBVIOUS
<1>2. Known' /\ (\A k \in Hosts : Hostwise(k)') /\ IdsStay
  BY <1>1, FadeKeeps DEF Inv
<1>3. Types'
  BY DEF Inv, Types
<1>4. SettledIsComplete'
  BY DEF Inv, SettledIsComplete, Complete, Configured
<1>5. QED
  BY <1>2, <1>3, <1>4 DEF Inv, OwnIds

\* A Host that is down.
LEMMA DownHostType == /\ DownHost \in HostRecord /\ DownHost.pc = "down" /\ DownHost.id = NoId
                      /\ DownHost.reg = "none" /\ DownHost.seq = 0
<1>1. NoAgent \in Agents
  BY Settings DEF NoAgent, Agents, Tags
<1>2. QED
  BY <1>1 DEF DownHost, HostRecord, HostPcs, IdSpace

\* The rows are left alone.
LEMMA RowsStay == ASSUME Types, Known, UNCHANGED rows
                  PROVE  /\ RowsTaken /\ DOMAIN rows' \subseteq IdSpace
                         /\ \A id \in DOMAIN rows' : rows'[id] \in RowRecord
  BY DEF Types, Known, RowsTaken

\* A boot ends or fails, or a Host is killed: in a boot, its id file is left empty.
LEMMA BootOverKeeps ==
    ASSUME Inv, NEW h \in Hosts, BootEnds(h) \/ BootFails(h) \/ KillHost(h)
    PROVE  Inv' /\ OwnIds
<1>1. hosts \in [Hosts -> HostRecord] /\ tears \in [Hosts -> Nat] /\ faults \in 0..MaxFaults
      /\ \A k \in Hosts : tears[k] <= faults
  BY DEF Inv, Types, Known
<1>2. faults' \in {faults, faults + 1} /\ faults' \in 0..MaxFaults /\ faults \in Nat
  BY <1>1, ConfigAssumption DEF BootEnds, BootFails, KillHost
<1>3. UNCHANGED <<file, init, idFile, wire, rows, lastId, lastSend, doubt, inits>>
  BY DEF BootEnds, BootFails, KillHost
<1>4. CASE BootEnds(h)
  <2>1. hosts' = [hosts EXCEPT ![h].pc = "up", ![h].reg = "none"] /\ tears' = tears
        /\ hosts[h].pc = "registering"
    BY <1>4 DEF BootEnds
  <2>2. \A k \in Hosts : hosts'[k] \in HostRecord /\ Fades(k)
    BY <1>1, <2>1 DEF HostRecord, HostPcs, Fades
  <2>3. hosts' \in [Hosts -> HostRecord]
    BY <1>1, <2>1, <2>2
  <2>4. tears' \in [Hosts -> Nat] /\ \A k \in Hosts : tears'[k] >= tears[k] /\ tears'[k] <= faults'
    BY <1>1, <1>2, <2>1
  <2>5. QED
    BY <1>2, <1>3, <2>2, <2>3, <2>4, FadeSteps, RowsStay DEF Inv
<1>5. CASE BootFails(h) \/ KillHost(h)
  <2>1. hosts' = [hosts EXCEPT ![h] = DownHost] /\ faults' = faults + 1
    BY <1>5 DEF BootFails, KillHost
  <2>2. tears' = IF hosts[h].pc = "booting" /\ h \in HasIdFile
                 THEN [tears EXCEPT ![h] = @ + 1] ELSE tears
    BY <1>5 DEF BootFails, KillHost
  <2>3. hosts' \in [Hosts -> HostRecord]
    BY <1>1, <2>1, DownHostType
  <2>4. tears' \in [Hosts -> Nat] /\ \A k \in Hosts : tears'[k] >= tears[k] /\ tears'[k] <= faults'
    BY <1>1, <1>2, <2>1, <2>2
  <2>5. \A k \in Hosts : Fades(k)
    BY <1>1, <2>1, <2>2, DownHostType DEF Fades
  <2>6. QED
    BY <1>2, <1>3, <2>3, <2>4, <2>5, FadeSteps, RowsStay DEF Inv
<1>6. QED
  BY <1>4, <1>5

\* register_node puts a row of the Host under an id of the Host.
LEMMA ManagerKeeps ==
    ASSUME Inv, NEW r \in wire, ManagerTakes(r) \/ LoseRegistration(r)
    PROVE  Inv' /\ OwnIds
<1>1. /\ hosts \in [Hosts -> HostRecord] /\ tears \in [Hosts -> Nat] /\ faults \in 0..MaxFaults
      /\ \A k \in Hosts : tears[k] <= faults
      /\ lastSend \in Nat
  BY DEF Inv, Types, Known
<1>2. /\ wire' = wire \ {r}
      /\ UNCHANGED <<file, init, idFile, lastId, lastSend, doubt, tears, inits, faults>>
  BY DEF ManagerTakes, LoseRegistration
<1>3. \A k \in Hosts : tears'[k] >= tears[k] /\ tears'[k] <= faults'
  BY <1>1, <1>2
<1>4. /\ r \in Registrations /\ r.id \in Ids /\ 1 <= r.seq /\ r.seq <= lastSend
      /\ r.seq \in Nat
  BY DEF Inv, Types, Known, Registrations
<1>5. CASE LoseRegistration(r)
  <2>1. UNCHANGED <<hosts, rows>>
    BY <1>5 DEF LoseRegistration
  <2>2. \A k \in Hosts : Fades(k)
    BY <2>1 DEF Fades
  <2>3. QED
    BY <1>1, <1>2, <1>3, <2>1, <2>2, FadeSteps, RowsStay DEF Inv
<1>6. CASE ManagerTakes(r)
  <2> DEFINE before == IF r.id \in DOMAIN rows THEN rows[r.id].newest ELSE 0
             row == [host |-> r.host, name |-> r.name, tags |-> r.tags, seq |-> r.seq,
                     newest |-> Max({before, r.seq})]
  <2>1. rows' = [id \in DOMAIN rows \union {r.id} |-> IF id = r.id THEN row ELSE rows[id]]
    BY <1>6 DEF ManagerTakes
  <2>2. before \in Nat /\ before <= lastSend
    BY <1>1 DEF Inv, Types, Known, RowRecord
  <2> HIDE DEF before
  <2>3. /\ Max({before, r.seq}) \in Nat /\ r.seq <= Max({before, r.seq})
        /\ Max({before, r.seq}) <= lastSend
    BY <1>1, <1>4, <2>2, MaxOfTwo
  <2>4. row \in RowRecord /\ row.host = r.host /\ row.seq = r.seq /\ row.newest = Max({before, r.seq})
    BY <1>4, <2>3 DEF RowRecord, Registrations
  <2> HIDE DEF row
  <2>5. DOMAIN rows' = DOMAIN rows \union {r.id} /\ rows'[r.id] = row
        /\ \A id \in DOMAIN rows \ {r.id} : rows'[id] = rows[id]
    BY <2>1
  <2>6. /\ RowsTaken /\ DOMAIN rows' \subseteq IdSpace
        /\ \A id \in DOMAIN rows' : rows'[id] \in RowRecord
    <3>1. r.id \in IdSpace
      BY <1>4 DEF Registrations
    <3>2. RowsTaken
      BY <1>4, <2>3, <2>4, <2>5 DEF RowsTaken
    <3>3. QED
      BY <2>4, <2>5, <3>1, <3>2 DEF Inv, Types
  <2>7. hosts' = [hosts EXCEPT ![r.host].reg =
                     IF hosts[r.host].seq = r.seq /\ @ = "sent" THEN "answered" ELSE @]
    BY <1>6 DEF ManagerTakes
  <2>8. ASSUME NEW k \in Hosts PROVE hosts'[k] \in HostRecord /\ Fades(k)
    <3>1. hosts[k] \in HostRecord /\ Phase(k)
      BY <1>1 DEF Inv, Hostwise
    <3>2. PICK reg \in {"none", "sent", "answered"} :
             /\ hosts'[k] = [hosts[k] EXCEPT !.reg = reg]
             /\ hosts[k].reg = "none" => reg = "none"
      <4>1. CASE k = r.host
        BY <1>1, <2>7, <3>1, <4>1 DEF HostRecord
      <4>2. CASE k # r.host
        BY <1>1, <2>7, <3>1, <4>2 DEF HostRecord
      <4>3. QED
        BY <4>1, <4>2
    <3>3. QED
      BY <3>1, <3>2 DEF HostRecord, Fades, Phase
  <2>9. hosts' \in [Hosts -> HostRecord]
    BY <1>1, <2>7, <2>8
  <2>10. QED
    BY <1>1, <1>2, <1>3, <2>6, <2>8, <2>9, FadeSteps
<1>7. QED
  BY <1>5, <1>6

\* A boot resolves its id: the one the Host has, or one nobody has had, and then
\* only if it finds none.
LEMMA BootReadsKeeps ==
    ASSUME Inv, NEW h \in Hosts, BootReads(h)
    PROVE  Inv' /\ OwnIds
<1> DEFINE id == ResolvedId(h)
           new == EnvId[h] = NoId /\ idFile[h] \in {0, NoId}
<1>1. /\ hosts \in [Hosts -> HostRecord] /\ tears \in [Hosts -> Nat] /\ lastId \in Nat
      /\ idFile \in [Hosts -> IdSpace] /\ lastSend \in Nat
      /\ hosts[h].pc = "down" /\ EnvId[h] \notin Nat /\ NoId \notin Nat
      /\ idFile[h] \in Ids \union {0, NoId}
  BY Settings DEF BootReads, Inv, Types, Known
<1>2. UNCHANGED <<file, init, wire, rows, lastSend, tears, inits, faults>>
  BY DEF BootReads
<1>3. PICK agent \in Agents : hosts' = [hosts EXCEPT ![h] = [DownHost EXCEPT !.pc = "booting", !.id = id,
                                                                 !.agent = agent]]
  <2>1. CASE file = NoFile
    BY <2>1, AgentTypes DEF BootReads
  <2>2. CASE file # NoFile
    <3>1. PICK i \in EntryOf(h) :
             hosts' = [hosts EXCEPT ![h] = [DownHost EXCEPT !.pc = "booting", !.id = ResolvedId(h),
                                                            !.agent = Boots(file[i])]]
      BY <2>2 DEF BootReads
    <3>2. file[i] \in Entries
      BY <2>2 DEF EntryOf, Inv, Types
    <3>3. QED
      BY <3>1, <3>2, AgentTypes
  <2>3. QED
    BY <2>1, <2>2
<1>4. /\ new => id = lastId + 1
      /\ ~new => id \in Ids /\ id # lastId + 1 /\ id \in {EnvId[h], idFile[h]}
      /\ EnvId[h] # NoId => id = EnvId[h]
  BY <1>1, IdsFacts DEF ResolvedId
<1>5. lastId' = IF new THEN lastId + 1 ELSE lastId
  BY <1>4 DEF BootReads
<1>6. Ids' = IF new THEN Ids \union {id} ELSE Ids
  <2>1. Ids = 1..lastId \union EnvIds /\ Ids' = 1..lastId' \union EnvIds
    BY DEF Ids, EnvIds
  <2>2. 1..(lastId + 1) = 1..lastId \union {lastId + 1}
    BY <1>1
  <2>3. QED
    BY <1>4, <1>5, <2>1, <2>2
<1>7. /\ idFile' = IF h \in HasIdFile THEN [idFile EXCEPT ![h] = 0] ELSE idFile
      /\ doubt' = doubt \ {h}
  BY DEF BootReads
<1> HIDE DEF id, new
<1>8. /\ hosts'[h].pc = "booting" /\ hosts'[h].id = id /\ hosts'[h].agent = agent
      /\ hosts'[h].reg = "none" /\ hosts'[h].seq = 0
      /\ \A k \in Hosts \ {h} : hosts'[k] = hosts[k]
  BY <1>1, <1>3 DEF DownHost
<1>9. /\ idFile'[h] = IF h \in HasIdFile THEN 0 ELSE idFile[h]
      /\ \A k \in Hosts \ {h} : idFile'[k] = idFile[k]
  BY <1>1, <1>7
<1>10. Ids \subseteq Ids' /\ id \in Ids' /\ 0 \notin Ids /\ NoId \notin Ids
  BY <1>1, <1>4, <1>6, IdsFacts
<1>11. lastId' \in Nat /\ Ids' \subseteq IdSpace
  <2>1. lastId' \in Nat
    BY <1>1, <1>5
  <2>2. Ids \subseteq IdSpace /\ (new => id \in IdSpace)
    BY <1>1, <1>4, IdsFacts DEF IdSpace
  <2>3. QED
    BY <1>6, <2>1, <2>2
<1>12. hosts' \in [Hosts -> HostRecord]
  <2>1. [DownHost EXCEPT !.pc = "booting", !.id = id, !.agent = agent] \in HostRecord
    BY <1>10, <1>11 DEF DownHost, HostRecord, HostPcs
  <2>2. QED
    BY <1>1, <1>3, <2>1 DEF id
<1>13. idFile' \in [Hosts -> IdSpace]
  BY <1>1, <1>7 DEF IdSpace
<1>14. Types' /\ SettledIsComplete'
  BY <1>2, <1>7, <1>11, <1>12, <1>13 DEF Inv, Types, SettledIsComplete, Complete, Configured
<1>15. Known'
  <2>1. ASSUME NEW k \in Hosts
        PROVE  /\ hosts'[k].id \in IF hosts'[k].pc = "down" THEN {NoId} ELSE Ids'
               /\ idFile'[k] \in Ids' \union {0, NoId}
               /\ hosts'[k].seq <= lastSend' /\ tears'[k] <= faults'
    <3>1. /\ hosts[k].id \in IF hosts[k].pc = "down" THEN {NoId} ELSE Ids
          /\ idFile[k] \in Ids \union {0, NoId}
          /\ hosts[k].seq <= lastSend /\ tears[k] <= faults
      BY DEF Inv, Known
    <3>2. CASE k = h
      BY <1>1, <1>2, <1>8, <1>9, <1>10, <3>1, <3>2
    <3>3. CASE k # h
      BY <1>2, <1>8, <1>9, <1>10, <3>1, <3>3
    <3>4. QED
      BY <3>2, <3>3
  <2>2. /\ \A r \in wire : r.id \in Ids' /\ 1 <= r.seq /\ r.seq <= lastSend
        /\ \A x \in DOMAIN rows :
               /\ x \in Ids'
               /\ 1 <= rows[x].seq /\ rows[x].seq <= rows[x].newest /\ rows[x].newest <= lastSend
    BY <1>10 DEF Inv, Known
  <2>3. QED
    BY <1>2, <2>1, <2>2 DEF Known
<1>16. ASSUME NEW k \in Hosts, NEW x \in Ids', Mention(k, x)', k # h \/ ~new \/ x # id
       PROVE  x \in Ids /\ Mention(k, x)
  <2>1. x \notin {0, NoId}
    BY <1>11, IdsFactsNext
  <2>2. CASE k = h
    BY <1>2, <1>4, <1>6, <1>8, <1>9, <1>16, <2>1, <2>2 DEF Mention
  <2>3. CASE k # h
    <3>1. Mention(k, x)
      BY <1>2, <1>8, <1>9, <1>16, <2>3 DEF Mention
    <3>2. x \in Ids
      BY <2>1, <3>1, MentionedIsId DEF Inv
    <3>3. QED
      BY <3>1, <3>2
  <2>4. QED
    BY <2>2, <2>3
<1>17. OwnIds
  <2>1. new => id \notin Ids
    BY <1>1, <1>4, IdsFacts
  <2>2. ASSUME NEW k \in Hosts, NEW x \in Ids', Mention(k, x)'
        PROVE  (x \in Ids /\ Mention(k, x)) \/ (k = h /\ x \notin Ids)
    <3>1. CASE k # h \/ ~new \/ x # id
      BY <1>16, <2>2, <3>1
    <3>2. CASE ~(k # h \/ ~new \/ x # id)
      BY <2>1, <3>2
    <3>3. QED
      BY <3>1, <3>2
  <2>3. IdIsMade(h)
    BY <2>2 DEF IdIsMade
  <2>4. QED
    BY <2>3 DEF OwnIds
<1>18. ASSUME NEW k \in Hosts PROVE Hostwise(k)'
  <2>1. Phase(k)'
    BY <1>8, <1>9 DEF Inv, Hostwise, Phase
  <2>3. ASSUME k # h \/ ~new PROVE IdsOf(k)' \subseteq IdsOf(k)
    BY <1>16, <2>3 DEF IdsOf
  <2>4. tears[k] \in Nat /\ tears'[k] = tears[k]
    BY <1>1, <1>2
  <2>5. ASSUME k \in HasIdFile, k # h \/ ~new PROVE Budget(k)'
    <3>1. hosts'[k].pc = "down" => k # h /\ hosts[k].pc = "down" /\ idFile'[k] = idFile[k]
      BY <1>8, <1>9
    <3>2. QED
      BY <2>3, <2>4, <2>5, <3>1, ShrinkKeeps DEF Inv, Hostwise
  <2>6. ASSUME k \in HasIdFile, k = h, new PROVE Budget(k)'
    <3>1. IdsOf(h)' \subseteq IdsOf(h) \union {id}
      BY <1>2, <1>6, <1>8, <1>9, <1>10, <2>6 DEF IdsOf, Mention
    <3>2. IsFiniteSet(IdsOf(h)) /\ Cardinality(IdsOf(h)) <= tears[h]
      BY <1>1, <2>6 DEF Inv, Hostwise, Budget, new
    <3>3. /\ IsFiniteSet(IdsOf(h) \union {id}) /\ Cardinality(IdsOf(h) \union {id}) \in Nat
          /\ Cardinality(IdsOf(h) \union {id}) <= tears[h] + 1
      <4> DEFINE S == IdsOf(h)
      <4> HIDE DEF S
      <4>1. /\ IsFiniteSet(S \union {id})
            /\ Cardinality(S \union {id}) = IF id \in S THEN Cardinality(S) ELSE Cardinality(S) + 1
        BY <3>2, FS_AddElement DEF S
      <4>2. Cardinality(S) \in Nat /\ Cardinality(S) <= tears[h] /\ tears[h] \in Nat
        BY <2>4, <2>6, <3>2, FS_CardinalityType DEF S
      <4>3. QED
        BY <4>1, <4>2 DEF S
    <3>4. /\ IsFiniteSet(IdsOf(h)') /\ Cardinality(IdsOf(h)') \in Nat
          /\ Cardinality(IdsOf(h)') <= Cardinality(IdsOf(h) \union {id})
      BY <3>1, <3>3, FS_Subset, FS_CardinalityType
    <3>5. QED
      BY <1>8, <2>4, <2>6, <3>3, <3>4 DEF Budget, new
  <2>7. QED
    BY <2>1, <2>5, <2>6 DEF Hostwise
<1>19. QED
  BY <1>14, <1>15, <1>17, <1>18 DEF Inv

\* Every step keeps the invariant, and an id goes to one Host.
LEMMA NextInv == Inv /\ [Next]_vars => Inv' /\ OwnIds
<1> SUFFICES ASSUME Inv, [Next]_vars PROVE Inv' /\ OwnIds
  OBVIOUS
<1>1. CASE InitCommand
  <2>1. InitSteps \/ (\E h \in Hosts : Post(h)) \/ PostDone
    BY <1>1 DEF InitCommand, InitSteps
  <2>2. QED
    BY <2>1, InitStepsKeep, PostsKeep
<1>2. ASSUME NEW h \in Hosts, Host(h) PROVE Inv' /\ OwnIds
  BY <1>2, BootReadsKeeps, BootRegistersKeeps, BootOverKeeps DEF Host
<1>3. ASSUME NEW r \in wire, ManagerTakes(r) \/ LoseRegistration(r) PROVE Inv' /\ OwnIds
  BY <1>3, ManagerKeeps
<1>4. CASE UNCHANGED vars
  <2>1. UNCHANGED <<file, init, hosts, idFile, wire, rows, lastId, lastSend, doubt, tears,
                    inits, faults, Ids>>
    BY <1>4 DEF vars, Ids
  <2>2. Types' /\ Known' /\ SettledIsComplete'
    BY <2>1 DEF Inv, Types, Known, SettledIsComplete, Complete, Configured
  <2>3. ASSUME NEW h \in Hosts PROVE Hostwise(h)'
    <3>1. IdsOf(h)' = IdsOf(h)
      BY <2>1 DEF IdsOf, Mention
    <3>2. QED
      BY <2>1, <3>1 DEF Inv, Hostwise, Phase, Budget
  <2>4. IdsStay
    BY <2>1 DEF IdsStay, Mention
  <2>5. QED
    BY <2>2, <2>3, <2>4 DEF Inv, OwnIds
<1>5. QED
  BY <1>1, <1>2, <1>3, <1>4 DEF Next

\* The invariant of ids, types and phases, for all Hosts, files, flags and kills.
THEOREM Invariance == Spec => []Inv
<1>1. Init => Inv
  BY InitInv
<1>2. Inv /\ [Next]_vars => Inv'
  BY NextInv
<1>3. QED
  BY <1>1, <1>2, PTL DEF Spec

\* Every registration and row is of an id that was made or given, and of a
\* number that was sent; tears and counters stay within their bounds.
THEOREM TypeCorrect == Spec => []TypeOK
<1>1. Inv => TypeOK
  <2> SUFFICES ASSUME Inv PROVE TypeOK
    OBVIOUS
  <2> USE DEF Inv
  <2>1. /\ file = NoFile \/ file \in Seq(Entries)
        /\ init.plan \in Seq(Entries) /\ init.urls \in 0..Len(HostName)
        /\ init.pc \in {"idle", "planned", "opened", "applying", "posted"}
        /\ doubt \subseteq Hosts /\ inits \in 0..MaxInits /\ faults \in 0..MaxFaults
    BY DEF Types, InitPcs
  <2>2. ASSUME NEW h \in Hosts
        PROVE  /\ hosts[h].pc \in {"down", "booting", "registering", "up"}
               /\ hosts[h].agent \in Agents
               /\ hosts[h].id \in IF hosts[h].pc = "down" THEN {NoId} ELSE Ids
               /\ hosts[h].reg \in {"none", "sent", "answered"} /\ hosts[h].seq \in 0..lastSend
               /\ idFile[h] \in Ids \union {0, NoId}
    BY DEF Types, Known, HostRecord, HostPcs
  <2>3. wire \subseteq [host : Hosts, id : Ids, name : Names, tags : Tags, seq : 1..lastSend]
    <3>1. ASSUME NEW r \in wire
          PROVE  r \in [host : Hosts, id : Ids, name : Names, tags : Tags, seq : 1..lastSend]
      <4>1. r \in Registrations /\ r.id \in Ids /\ r.seq \in 1..lastSend
        BY DEF Types, Known, Registrations
      <4>2. QED
        BY <4>1 DEF Registrations
    <3>2. QED
      BY <3>1
  <2>4. DOMAIN rows \subseteq Ids
    BY DEF Known
  <2>5. ASSUME NEW id \in DOMAIN rows
        PROVE  rows[id] \in [host : Hosts, name : Names, tags : Tags, seq : 1..lastSend,
                             newest : rows[id].seq..lastSend]
    <3>1. /\ rows[id] \in RowRecord /\ rows[id].seq \in 1..lastSend
          /\ rows[id].newest \in rows[id].seq..lastSend
      BY DEF Types, Known, RowRecord
    <3>2. QED
      BY <3>1 DEF RowRecord
  <2>6. tears \in [Hosts -> 0..faults]
    BY DEF Types, Known
  <2>7. QED
    BY <2>1, <2>2, <2>3, <2>4, <2>5, <2>6 DEF TypeOK
<1>2. QED
  BY <1>1, Invariance, PTL

\* What init plans of flags that leave nothing open is complete, for all flags,
\* answers and files.
THEOREM SettledIsCompleteHolds == Spec => []SettledIsComplete
<1>1. Inv => SettledIsComplete
  BY DEF Inv
<1>2. QED
  BY <1>1, Invariance, PTL

\* A Host with an id file has one row, and one more for each kill between
\* emptying the file and writing it.
THEOREM OneRowPerHostHolds == Spec => []OneRowPerHost
<1>1. Inv => OneRowPerHost
  <2> SUFFICES ASSUME Inv, NEW h \in HasIdFile
               PROVE  Cardinality({id \in DOMAIN rows : rows[id].host = h}) <= 1 + tears[h]
    BY DEF OneRowPerHost
  <2> DEFINE mine == {id \in DOMAIN rows : rows[id].host = h}
  <2>1. h \in Hosts /\ Budget(h) /\ tears[h] \in Nat
    BY Settings DEF Inv, Hostwise, Types
  <2>2. mine \subseteq IdsOf(h)
    BY DEF Inv, Known, IdsOf, Mention
  <2>3. IsFiniteSet(IdsOf(h)) /\ Cardinality(IdsOf(h)) \in Nat /\ Cardinality(IdsOf(h)) <= 1 + tears[h]
    <3>1. CASE EnvId[h] # NoId
      <4>1. IdsOf(h) = {EnvId[h]}
        BY <2>1, <3>1 DEF Budget
      <4>2. IsFiniteSet({EnvId[h]}) /\ Cardinality({EnvId[h]}) = 1
        BY FS_Singleton
      <4>3. QED
        BY <2>1, <4>1, <4>2
    <3>2. CASE EnvId[h] = NoId
      BY <2>1, <3>2, FS_CardinalityType DEF Budget
    <3>3. QED
      BY <3>1, <3>2
  <2>4. IsFiniteSet(mine) /\ Cardinality(mine) \in Nat /\ Cardinality(mine) <= Cardinality(IdsOf(h))
    BY <2>2, <2>3, FS_Subset, FS_CardinalityType
  <2>5. QED
    BY <2>1, <2>3, <2>4
<1>2. QED
  BY <1>1, Invariance, PTL

-----------------------------------------------------------------------------
(* What a Host runs.                                                       *)

\* /configure and a boot make of an entry agents of the same name and tags, and
\* the same agent where nothing else gives it an LLM.
LEMMA SameAgent ==
    ASSUME NEW e \in Entries, e.mode = "opencode" => e.tags = "discovered"
    PROVE  Says(Applies(e), Boots(e)) /\ (Plain => Boots(e) = Applies(e))
<1>1. e.mode \in {"auto", "echo", "agent", "opencode"}
  BY EntryFields DEF Modes
<1>2. ASSUME Plain PROVE Boots(e) = Applies(e)
  <2>1. Worker = [kind |-> "echo", url |-> NoUrl] /\ EnvUrl = NoUrl
    BY <1>2 DEF Plain, Worker
  <2>2. QED
    BY <1>1, <2>1 DEF Boots, Applies
<1>3. \A n, t, x, u : Agent(n, t, x, u).name = n /\ Agent(n, t, x, u).tags = t
  BY DEF Agent
<1>4. Boots(e).name = e.name /\ Boots(e).tags = IF e.mode = "opencode" THEN "discovered" ELSE e.tags
  BY <1>1, <1>3 DEF Boots
<1>5. Applies(e).name = e.name /\ Applies(e).tags = e.tags
  BY <1>1, <1>3 DEF Applies
<1>6. QED
  BY <1>2, <1>4, <1>5 DEF Says

\* The entry of a Host does not change with the rest of the state.
LEMMA SameEntries ==
    /\ \A h : UNCHANGED file => Boots(file[h])' = Boots(file[h]) /\ EntryOf(h)' = EntryOf(h)
    /\ \A h : UNCHANGED init.plan => Applies(init.plan[h])' = Applies(init.plan[h])
  BY DEF Boots, Applies, Agent, LlmLoop, EntryOf

\* What a step of init leaves the file, its plan and the Hosts in doubt as.
InitGoesOn ==
    /\ file' # NoFile => GoodFile(file')
    /\ GoodFile(init'.plan)
    /\ InitOK'
    /\ \/ doubt' = doubt /\ (file' = file \/ file' = <<>>)
       \/ doubt' = Hosts

LEMMA InitStepsGoOn ==
    ASSUME Inv, RunsInv, InitSteps
    PROVE  InitGoesOn
<1>1. /\ GoodFile(<<>>) /\ (file = NoFile \/ file \in Seq(Entries))
      /\ init.pc \in {"applying", "posted"} => file = init.plan
      /\ file # NoFile => GoodFile(file)
      /\ GoodFile(init.plan)
      /\ init \in [pc : InitPcs, plan : Seq(Entries), urls : 0..Len(HostName), next : Nat,
                   settles : BOOLEAN]
  BY DEF GoodFile, Inv, Types, RunsInv, InitOK
<1>2. ASSUME NEW urls, NEW plan, GoodFile(plan), NEW settles, Plan(plan, urls, settles)
      PROVE  InitGoesOn
  BY <1>1, <1>2 DEF Plan, InitOK, InitGoesOn
<1>3. ASSUME NEW urls, NEW force, NEW x \in Flags, InitYes(x, urls, force)
      PROVE  InitGoesOn
  BY <1>1, <1>2, <1>3, FromFlagsType DEF InitYes
<1>4. ASSUME NEW urls, NEW force, InitWizard(urls, force)
      PROVE  InitGoesOn
  BY <1>1, <1>2, <1>4, WizardType DEF InitWizard
<1>5. CASE OpenFile
  <2>1. init'.pc = "opened" /\ init'.plan = init.plan /\ file' = <<>> /\ doubt' = doubt
    BY <1>1, <1>5 DEF OpenFile
  <2>2. QED
    BY <1>1, <2>1 DEF InitGoesOn, InitOK
<1>6. CASE WriteFile
  <2>1. init'.pc = "applying" /\ init'.plan = init.plan /\ file' = init.plan /\ doubt' = Hosts
    BY <1>1, <1>6 DEF WriteFile
  <2>2. QED
    BY <1>1, <2>1 DEF InitGoesOn, InitOK
<1>7. CASE PostFails
  <2>1. init'.pc = "applying" /\ init'.plan = init.plan /\ file' = file /\ doubt' = doubt
        /\ init.pc \in {"applying", "posted"}
    BY <1>1, <1>7 DEF PostFails, NextHost, HasTarget
  <2>2. QED
    BY <1>1, <2>1 DEF InitGoesOn, InitOK
<1>8. CASE EndInit \/ KillInit
  <2>1. init'.pc = "idle" /\ init'.plan = <<>> /\ file' = file /\ doubt' = doubt
    BY <1>8 DEF EndInit, KillInit, IdleInit
  <2>2. QED
    BY <1>1, <2>1 DEF InitGoesOn, InitOK
<1>9. QED
  BY <1>3, <1>4, <1>5, <1>6, <1>7, <1>8 DEF InitSteps

\* init rewrites the file: what it holds is doubted of every Host.
LEMMA InitStepsRun ==
    ASSUME Inv, RunsInv, InitSteps
    PROVE  RunsInv'
<1>1. UNCHANGED hosts
  BY InitStepsType DEF Inv, hostVars
<1>2. InitGoesOn
  BY InitStepsGoOn
<1>3. ASSUME NEW h \in Hosts PROVE Current(h)'
  <2>1. CASE doubt' = doubt /\ file' = file
    BY <1>1, <2>1, SameEntries DEF RunsInv, Current, Says
  <2>2. CASE file' = <<>> \/ doubt' = Hosts
    BY <2>2 DEF Current
  <2>3. QED
    BY <1>2, <2>1, <2>2 DEF InitGoesOn
<1>4. QED
  BY <1>2, <1>3 DEF RunsInv, InitGoesOn

\* The entry init posts to a Host gives what the Host would boot with.
LEMMA PostedEntry ==
    ASSUME Inv, RunsInv, NEW h \in Hosts, h \in DOMAIN init.plan,
           init.pc \in {"applying", "posted"}
    PROVE  /\ file = init.plan /\ file # NoFile
           /\ Says(Applies(init.plan[h]), Boots(file[h]))
           /\ Plain => Applies(init.plan[h]) = Boots(file[h])
<1>1. /\ init.plan \in Seq(Entries) /\ file = init.plan /\ GoodFile(init.plan) /\ init.plan # NoFile
  BY Settings DEF Inv, Types, RunsInv, InitOK
<1>2. init.plan[h] \in Entries /\ GoodEntry(h, init.plan[h])
  BY <1>1 DEF GoodFile
<1>3. QED
  BY <1>1, <1>2, SameAgent DEF GoodEntry

\* A /configure gives the Host the agent of its entry.
LEMMA PostRuns ==
    ASSUME Inv, RunsInv, NEW h \in Hosts, Post(h)
    PROVE  RunsInv'
<1>1. /\ init.pc = "applying" /\ h = Target /\ h \in DOMAIN init.plan /\ hosts[h].pc = "up"
      /\ Reregister(h, "up", Applies(init.plan[h]), hosts[h].id)
      /\ UNCHANGED <<file, doubt>> /\ init' = [init EXCEPT !.pc = "posted"]
  BY DEF Post, HasTarget
<1>2. init'.pc = "posted" /\ init'.plan = init.plan /\ init'.next = init.next
  BY <1>1 DEF Inv, Types
<1>3. /\ file = init.plan /\ Says(Applies(init.plan[h]), Boots(file[h]))
      /\ Plain => Applies(init.plan[h]) = Boots(file[h])
  BY <1>1, PostedEntry
<1>4. /\ hosts'[h].agent = Applies(init.plan[h])
      /\ \A k \in Hosts \ {h} : hosts'[k] = hosts[k]
  BY <1>1 DEF Reregister, Inv, Types
<1>5. ASSUME NEW k \in Hosts PROVE Current(k)'
  <2>1. CASE k = h
    BY <1>1, <1>3, <1>4, <2>1, SameEntries DEF Current, Says
  <2>2. CASE k # h
    BY <1>1, <1>4, <2>2, SameEntries DEF RunsInv, Current, Says
  <2>3. QED
    BY <2>1, <2>2
<1>6. InitOK'
  <2>1. Target' = h
    BY <1>1, <1>2 DEF Target
  <2>2. Applies(init.plan[h])' = Applies(init.plan[h])
    BY <1>2, SameEntries
  <2>3. QED
    BY <1>1, <1>2, <1>3, <1>4, <2>1, <2>2 DEF InitOK
<1>7. QED
  BY <1>1, <1>2, <1>5, <1>6 DEF RunsInv

\* A Host init reports as applied runs its entry.
LEMMA PostDoneRuns ==
    ASSUME Inv, RunsInv, PostDone
    PROVE  RunsInv'
<1>1. PICK h \in Hosts : h = Target
  BY DEF PostDone, RunsInv, InitOK
<1>2. /\ init.pc = "posted" /\ hosts[h].pc = "up" /\ hosts[h].reg = "answered"
      /\ hosts' = [hosts EXCEPT ![h].reg = "none"] /\ doubt' = doubt \ {h}
      /\ init' = [init EXCEPT !.pc = "applying", !.next = @ + 1]
      /\ UNCHANGED file
  BY <1>1 DEF PostDone, NextHost
<1>3. init'.pc = "applying" /\ init'.plan = init.plan
  BY <1>2 DEF Inv, Types
<1>4. h \in DOMAIN init.plan /\ hosts[h].agent = Applies(init.plan[h])
  BY <1>1, <1>2 DEF RunsInv, InitOK
<1>5. /\ file = init.plan /\ Says(Applies(init.plan[h]), Boots(file[h]))
      /\ Plain => Applies(init.plan[h]) = Boots(file[h])
  BY <1>2, <1>4, PostedEntry
<1>6. hosts'[h].agent = hosts[h].agent /\ \A k \in Hosts \ {h} : hosts'[k] = hosts[k]
  BY <1>2 DEF Inv, Types, HostRecord
<1>7. ASSUME NEW k \in Hosts PROVE Current(k)'
  <2>1. CASE k = h
    BY <1>2, <1>4, <1>5, <1>6, <2>1, SameEntries DEF Current, Says
  <2>2. CASE k # h
    BY <1>2, <1>6, <2>2, SameEntries DEF RunsInv, Current, Says
  <2>3. QED
    BY <2>1, <2>2
<1>8. QED
  BY <1>2, <1>3, <1>5, <1>7 DEF RunsInv, InitOK

\* What a boot reads: at the entry of its name, if that is the only one.
LEMMA BootReadsAgent ==
    ASSUME Inv, NEW h \in Hosts, BootReads(h)
    PROVE  /\ hosts'[h].pc = "booting" /\ \A k \in Hosts \ {h} : hosts'[k] = hosts[k]
           /\ file # NoFile /\ EntryOf(h) \subseteq {h} => hosts'[h].agent = Boots(file[h])
<1>1. hosts \in [Hosts -> HostRecord]
  BY DEF Inv, Types
<1>2. CASE file = NoFile
  BY <1>1, <1>2 DEF BootReads, DownHost
<1>3. CASE file # NoFile
  <2>1. PICK i \in EntryOf(h) :
           hosts' = [hosts EXCEPT ![h] = [DownHost EXCEPT !.pc = "booting", !.id = ResolvedId(h),
                                                          !.agent = Boots(file[i])]]
    BY <1>3 DEF BootReads
  <2>2. /\ hosts'[h].pc = "booting" /\ hosts'[h].agent = Boots(file[i])
        /\ \A k \in Hosts \ {h} : hosts'[k] = hosts[k]
    BY <1>1, <2>1 DEF DownHost
  <2>3. QED
    BY <2>2
<1>4. QED
  BY <1>2, <1>3

\* A Host that boots runs its entry.
LEMMA BootReadsRuns ==
    ASSUME Inv, RunsInv, NEW h \in Hosts, BootReads(h)
    PROVE  RunsInv'
<1>1. doubt' = doubt \ {h} /\ UNCHANGED <<file, init>>
  BY DEF BootReads
<1>2. /\ hosts'[h].pc = "booting" /\ \A k \in Hosts \ {h} : hosts'[k] = hosts[k]
      /\ file # NoFile /\ EntryOf(h) \subseteq {h} => hosts'[h].agent = Boots(file[h])
  BY BootReadsAgent
<1>3. ASSUME NEW k \in Hosts PROVE Current(k)'
  <2>1. CASE k = h
    BY <1>1, <1>2, <2>1, SameEntries DEF Current, Says
  <2>2. CASE k # h
    BY <1>1, <1>2, <2>2, SameEntries DEF RunsInv, Current, Says
  <2>3. QED
    BY <2>1, <2>2
<1>4. InitOK'
  <2>1. Target' = Target
    BY <1>1 DEF Target
  <2>2. QED
    BY <1>1, <1>2, <2>1, SameEntries DEF RunsInv, InitOK
<1>5. QED
  BY <1>1, <1>3, <1>4 DEF RunsInv

\* The steps that give no Host another agent.
LEMMA RunsStay ==
    ASSUME RunsInv, UNCHANGED <<file, init, doubt>>,
           \A k \in Hosts : hosts'[k].pc # "down" =>
              hosts[k].pc # "down" /\ hosts'[k].agent = hosts[k].agent,
           \A k \in Hosts : hosts'[k].pc = "up" /\ hosts'[k].reg # "none" =>
              hosts[k].pc = "up" /\ hosts[k].reg # "none"
    PROVE  RunsInv'
<1>1. ASSUME NEW k \in Hosts PROVE Current(k)'
  BY SameEntries DEF RunsInv, Current, Says
<1>2. InitOK'
  <2>1. Target' = Target
    BY DEF Target
  <2>2. QED
    BY <2>1, SameEntries DEF RunsInv, InitOK
<1>3. QED
  BY <1>1, <1>2 DEF RunsInv

\* The answer of the manager changes no agent.
LEMMA Answered ==
    ASSUME Inv, NEW r \in wire, ManagerTakes(r), NEW k \in Hosts
    PROVE  /\ hosts'[k].pc = hosts[k].pc /\ hosts'[k].id = hosts[k].id
           /\ hosts'[k].seq = hosts[k].seq /\ hosts'[k].agent = hosts[k].agent
           /\ \/ hosts'[k].reg = hosts[k].reg
              \/ /\ k = r.host /\ hosts[k].seq = r.seq
                 /\ hosts[k].reg = "sent" /\ hosts'[k].reg = "answered"
<1>1. hosts' = [hosts EXCEPT ![r.host].reg =
                   IF hosts[r.host].seq = r.seq /\ @ = "sent" THEN "answered" ELSE @]
  BY DEF ManagerTakes
<1>2. hosts \in [Hosts -> HostRecord]
  BY DEF Inv, Types
<1>3. CASE k = r.host
  BY <1>1, <1>2, <1>3 DEF HostRecord
<1>4. CASE k # r.host
  BY <1>1, <1>2, <1>4
<1>5. QED
  BY <1>3, <1>4

\* What the end of a boot, or of a Host, changes.
LEMMA BootOver ==
    ASSUME Inv, NEW h \in Hosts, BootEnds(h) \/ BootFails(h) \/ KillHost(h)
    PROVE  /\ UNCHANGED <<file, init, wire, rows, doubt>>
           /\ \/ /\ hosts[h].pc = "registering" /\ hosts[h].reg = "answered"
                 /\ hosts'[h].pc = "up" /\ hosts'[h].reg = "none" /\ hosts'[h].id = hosts[h].id
                 /\ hosts'[h].seq = hosts[h].seq /\ hosts'[h].agent = hosts[h].agent
              \/ hosts'[h].pc = "down"
           /\ \A k \in Hosts \ {h} : hosts'[k] = hosts[k]
<1>1. UNCHANGED <<file, init, wire, rows, doubt>> /\ hosts \in [Hosts -> HostRecord]
  BY DEF BootEnds, BootFails, KillHost, Inv, Types
<1>2. \/ /\ hosts[h].pc = "registering" /\ hosts[h].reg = "answered"
         /\ hosts' = [hosts EXCEPT ![h].pc = "up", ![h].reg = "none"]
      \/ hosts' = [hosts EXCEPT ![h] = DownHost]
  BY DEF BootEnds, BootFails, KillHost
<1>3. QED
  BY <1>1, <1>2, DownHostType DEF HostRecord

LEMMA RunsNext == ASSUME Inv, RunsInv, [Next]_vars
                  PROVE  RunsInv'
<1>1. CASE InitCommand
  <2>1. InitSteps \/ (\E h \in Hosts : Post(h)) \/ PostDone
    BY <1>1 DEF InitCommand, InitSteps
  <2>2. QED
    BY <2>1, InitStepsRun, PostRuns, PostDoneRuns
<1>2. ASSUME NEW h \in Hosts, Host(h) PROVE RunsInv'
  <2>1. CASE BootReads(h)
    BY <2>1, BootReadsRuns
  <2>2. CASE BootRegisters(h)
    <3>1. /\ hosts[h].pc = "booting" /\ UNCHANGED <<file, init, doubt>>
          /\ Reregister(h, "registering", hosts[h].agent, hosts[h].id)
      BY <2>2 DEF BootRegisters
    <3>2. /\ hosts'[h].pc = "registering" /\ hosts'[h].agent = hosts[h].agent
          /\ \A k \in Hosts \ {h} : hosts'[k] = hosts[k]
      BY <3>1 DEF Reregister, Inv, Types
    <3>3. QED
      BY <3>1, <3>2, RunsStay
  <2>3. CASE BootEnds(h) \/ BootFails(h) \/ KillHost(h)
    <3>1. /\ UNCHANGED <<file, init, doubt>>
          /\ \A k \in Hosts : hosts'[k].pc # "down" =>
                hosts[k].pc # "down" /\ hosts'[k].agent = hosts[k].agent
          /\ \A k \in Hosts : hosts'[k].pc = "up" /\ hosts'[k].reg # "none" =>
                hosts[k].pc = "up" /\ hosts[k].reg # "none"
      BY <2>3, BootOver
    <3>2. QED
      BY <3>1, RunsStay
  <2>4. QED
    BY <1>2, <2>1, <2>2, <2>3 DEF Host
<1>3. ASSUME NEW r \in wire, ManagerTakes(r) PROVE RunsInv'
  <2>1. UNCHANGED <<file, init, doubt>>
    BY <1>3 DEF ManagerTakes
  <2>2. /\ \A k \in Hosts : hosts'[k].pc # "down" =>
               hosts[k].pc # "down" /\ hosts'[k].agent = hosts[k].agent
        /\ \A k \in Hosts : hosts'[k].pc = "up" /\ hosts'[k].reg # "none" =>
               hosts[k].pc = "up" /\ hosts[k].reg # "none"
    BY <1>3, Answered
  <2>3. QED
    BY <2>1, <2>2, RunsStay
<1>4. CASE UNCHANGED vars \/ \E r \in wire : LoseRegistration(r)
  <2>1. UNCHANGED <<file, init, hosts, doubt>>
    BY <1>4 DEF vars, LoseRegistration
  <2>2. QED
    BY <2>1, RunsStay
<1>5. QED
  BY <1>1, <1>2, <1>3, <1>4 DEF Next

LEMMA RunsInit == ASSUME Catalogued, Init
                  PROVE  RunsInv
<1> USE DEF Init
<1>1. DownHost.pc = "down" /\ IdleInit.pc = "idle" /\ IdleInit.plan = <<>>
  BY DEF DownHost, IdleInit
<1>2. file # NoFile => GoodFile(file)
  BY DEF Catalogued, Named, GoodFile, GoodEntry
<1>3. GoodFile(init.plan)
  BY <1>1 DEF GoodFile
<1>4. InitOK /\ \A h \in Hosts : Current(h)
  BY <1>1 DEF InitOK, Current
<1>5. QED
  BY <1>2, <1>3, <1>4 DEF RunsInv

\* A Host that was not left in doubt runs what its entry gives.
THEOREM RunsInvariance == Catalogued => (Spec => [](Inv /\ RunsInv))
<1> SUFFICES ASSUME Catalogued PROVE Spec => [](Inv /\ RunsInv)
  OBVIOUS
<1>1. Init => Inv /\ RunsInv
  BY InitInv, RunsInit
<1>2. Inv /\ RunsInv /\ [Next]_vars => Inv' /\ RunsInv'
  BY NextInv, RunsNext
<1>3. QED
  BY <1>1, <1>2, PTL DEF Spec

\* No Host runs something else than a restart would give it without a warning
\* (apply_config_to_hosts), where nothing but the file gives an agent its LLM.
THEOREM BehindIsWarnedHolds == Catalogued /\ Plain => (Spec => []BehindIsWarned)
<1> SUFFICES ASSUME Catalogued, Plain PROVE Spec => []BehindIsWarned
  OBVIOUS
<1>1. Inv /\ RunsInv => BehindIsWarned
  BY DEF BehindIsWarned, RunsInv, Current
<1>2. Spec => [](Inv /\ RunsInv)
  BY RunsInvariance
<1>3. QED
  BY <1>1, <1>2, PTL

-----------------------------------------------------------------------------
(* What the row of a Host says.                                            *)

\* An id that goes to one Host stays of one Host.
LEMMA OwnedKeeps == ASSUME Owned, OwnIds
                    PROVE  Owned'
<1> SUFFICES ASSUME NEW h \in Hosts, NEW k \in Hosts, NEW id \in Ids',
                    Mention(h, id)', Mention(k, id)'
             PROVE  h = k
  BY DEF Owned
<1>1. CASE IdsStay
  BY <1>1 DEF IdsStay, Owned
<1>2. ASSUME NEW x \in Hosts, IdIsMade(x) PROVE h = k
  BY <1>2 DEF IdIsMade, Owned
<1>3. QED
  BY <1>1, <1>2 DEF OwnIds

\* What a step that registers an agent does to what the others rely on.
LEMMA RegisterFollows ==
    ASSUME Inv, Owned, NEW h \in Hosts, hosts[h].pc # "down", NEW pc, NEW agent,
           Reregister(h, pc, agent, hosts[h].id), UNCHANGED <<rows, doubt>>,
           \A k \in Hosts : Latest(k) /\ Followed(k),
           h \notin doubt /\ pc = "up" => hosts[h].pc = "up" /\ Says(hosts[h].agent, agent)
    PROVE  \A k \in Hosts : Latest(k)' /\ Followed(k)'
<1> DEFINE r == Registration(h, agent, hosts[h].id)
<1>1. /\ hosts'[h] = [pc |-> pc, agent |-> agent, id |-> hosts[h].id, reg |-> "sent", seq |-> lastSend + 1]
      /\ \A k \in Hosts \ {h} : hosts'[k] = hosts[k]
  BY DEF Reregister, Inv, Types
<1>2. wire' = wire \union {r} /\ lastSend \in Nat
  BY DEF Reregister, Inv, Types
<1>3. /\ r.host = h /\ r.id = hosts[h].id /\ r.seq = lastSend + 1
      /\ r.name = agent.name /\ r.tags = agent.tags
  BY DEF Registration
<1> HIDE DEF r
<1>4. \A x \in wire : x.seq \in Nat /\ x.seq <= lastSend
  BY DEF Inv, Types, Known, Registrations
<1>5. \A id \in DOMAIN rows : /\ rows[id].seq \in Nat /\ rows[id].newest \in Nat
                              /\ rows[id].seq <= rows[id].newest /\ rows[id].newest <= lastSend
  BY DEF Inv, Types, Known, RowRecord
<1>6. ASSUME NEW k \in Hosts, k = h PROVE Latest(k)' /\ Followed(k)'
  <2>1. Latest(h)'
    <3>1. \A x \in wire' : x.seq <= lastSend + 1 /\ (x.seq = lastSend + 1 => x = r)
      BY <1>2, <1>3, <1>4
    <3>2. hosts[h].id \in DOMAIN rows =>
             rows[hosts[h].id].newest <= lastSend + 1 /\ rows[hosts[h].id].seq # lastSend + 1
      BY <1>2, <1>5
    <3>3. QED
      BY <1>1, <1>3, <3>1, <3>2 DEF Latest, Says
  <2>2. Followed(h)'
    <3>1. SUFFICES ASSUME pc = "up", h \notin doubt PROVE Followed(h)'
      BY <1>1 DEF Followed
    <3>2. Says(hosts[h].agent, agent) /\ hosts[h].pc = "up" /\ Followed(h)
      BY <3>1
    <3>3. QED
      BY <1>1, <1>2, <1>3, <3>1, <3>2 DEF Followed, Says
  <2>3. QED
    BY <1>6, <2>1, <2>2
<1>7. ASSUME NEW k \in Hosts, k # h PROVE Latest(k)' /\ Followed(k)'
  <2>1. hosts'[k] = hosts[k] /\ Latest(k) /\ Followed(k)
    BY <1>1, <1>7
  <2>2. hosts[k].pc # "down" => hosts[h].id # hosts[k].id
    <3>1. hosts[h].id \in Ids
      BY DEF Inv, Known
    <3>2. QED
      BY <1>7, <3>1 DEF Owned, Mention
  <2>3. Latest(k)'
    BY <1>2, <1>3, <1>7, <2>1, <2>2 DEF Latest, Says
  <2>4. Followed(k)'
    BY <1>2, <1>3, <1>7, <2>1, <2>2 DEF Followed, Says
  <2>5. QED
    BY <2>3, <2>4
<1>8. QED
  BY <1>6, <1>7

\* The row and the wire say of a Host that is settled what its agent is.
LEMMA Settled ==
    ASSUME Inv, NEW h \in Hosts, Latest(h), hosts[h].pc \in {"registering", "up"},
           hosts[h].reg = "answered",
           hosts'[h].id = hosts[h].id, hosts'[h].agent = hosts[h].agent, UNCHANGED <<wire, rows>>
    PROVE  Followed(h)'
<1>1. /\ hosts[h].id \in DOMAIN rows /\ rows[hosts[h].id].newest = hosts[h].seq
      /\ rows[hosts[h].id].seq = hosts[h].seq => Says(rows[hosts[h].id], hosts[h].agent)
      /\ \A r \in wire : r.id = hosts[h].id =>
            r.seq <= hosts[h].seq /\ (r.seq = hosts[h].seq => Says(r, hosts[h].agent))
  BY DEF Latest
<1>2. /\ hosts[h].seq \in Nat /\ \A r \in wire : r.seq \in Nat
  BY DEF Inv, Types, HostRecord, Registrations
<1>3. QED
  BY <1>1, <1>2 DEF Followed, Says

\* A Host the step leaves alone.
LEMMA LeftAlone ==
    ASSUME NEW h \in Hosts, Latest(h), Followed(h), hosts'[h] = hosts[h],
           UNCHANGED rows, wire' \subseteq wire, h \notin doubt' => h \notin doubt
    PROVE  Latest(h)' /\ Followed(h)'
<1>1. Latest(h)'
  BY DEF Latest, Says
<1>2. Followed(h)'
  BY DEF Followed, Says
<1>3. QED
  BY <1>1, <1>2

\* What every step keeps of the rows.
Rows == \A h \in Hosts : Latest(h) /\ Followed(h)

\* init: a Host it reports as applied was answered by the manager, so that its
\* row is of its last registration.
LEMMA InitCommandFollows ==
    ASSUME Named, Inv, RunsInv, CatalogInv, InitCommand
    PROVE  Rows'
<1>1. \A h \in Hosts : Latest(h) /\ Followed(h)
  BY DEF CatalogInv
<1>2. CASE InitSteps
  <2>1. UNCHANGED <<hosts, wire, rows>>
    BY <1>2, InitStepsType DEF Inv, hostVars
  <2>2. \A h \in Hosts : h \notin doubt' => h \notin doubt
    BY <1>2, InitStepsGoOn DEF InitGoesOn
  <2>3. QED
    BY <1>1, <2>1, <2>2, LeftAlone DEF Rows
<1>3. ASSUME NEW h \in Hosts, Post(h) PROVE Rows'
  <2>1. /\ init.pc = "applying" /\ h \in DOMAIN init.plan /\ hosts[h].pc = "up"
        /\ Reregister(h, "up", Applies(init.plan[h]), hosts[h].id)
        /\ UNCHANGED <<rows, doubt>>
    BY <1>3 DEF Post, HasTarget
  <2>2. ASSUME h \notin doubt PROVE Says(hosts[h].agent, Applies(init.plan[h]))
    <3>1. /\ file = init.plan /\ file # NoFile
          /\ Says(Applies(init.plan[h]), Boots(file[h]))
      BY <2>1, PostedEntry
    <3>2. EntryOf(h) \subseteq {h}
      BY <3>1 DEF EntryOf, RunsInv, GoodFile, GoodEntry
    <3>3. QED
      BY <2>1, <2>2, <3>1, <3>2 DEF RunsInv, Current, Says
  <2>3. QED
    BY <1>1, <2>1, <2>2, RegisterFollows DEF CatalogInv, Rows
<1>4. CASE PostDone
  <2>1. PICK h \in Hosts : h = Target
    BY <1>4 DEF PostDone, RunsInv, InitOK
  <2>2. /\ hosts[h].pc = "up" /\ hosts[h].reg = "answered"
        /\ hosts' = [hosts EXCEPT ![h].reg = "none"] /\ doubt' = doubt \ {h}
        /\ UNCHANGED <<wire, rows>>
    BY <1>4, <2>1 DEF PostDone
  <2>3. /\ hosts'[h].pc = "up" /\ hosts'[h].reg = "none" /\ hosts'[h].id = hosts[h].id
        /\ hosts'[h].seq = hosts[h].seq /\ hosts'[h].agent = hosts[h].agent
        /\ \A k \in Hosts \ {h} : hosts'[k] = hosts[k]
    BY <2>2 DEF Inv, Types, HostRecord
  <2>4. Latest(h)'
    BY <1>1, <2>2, <2>3 DEF Latest, Says
  <2>5. Followed(h)'
    BY <1>1, <2>2, <2>3, Settled
  <2>6. \A k \in Hosts \ {h} : Latest(k)' /\ Followed(k)'
    BY <1>1, <2>2, <2>3, LeftAlone
  <2>7. QED
    BY <2>4, <2>5, <2>6 DEF Rows
<1>5. QED
  BY <1>2, <1>3, <1>4 DEF InitCommand, InitSteps

\* A boot: it ends when the manager has answered.
LEMMA HostFollows ==
    ASSUME Inv, CatalogInv, NEW h \in Hosts, Host(h)
    PROVE  Rows'
<1>1. \A k \in Hosts : Latest(k) /\ Followed(k)
  BY DEF CatalogInv
<1>2. CASE BootReads(h)
  <2>1. doubt' = doubt \ {h} /\ UNCHANGED <<wire, rows>>
    BY <1>2 DEF BootReads
  <2>2. hosts'[h].pc = "booting" /\ \A k \in Hosts \ {h} : hosts'[k] = hosts[k]
    BY <1>2, BootReadsAgent
  <2>3. Latest(h)' /\ Followed(h)'
    BY <2>2 DEF Latest, Followed
  <2>4. \A k \in Hosts \ {h} : Latest(k)' /\ Followed(k)'
    BY <1>1, <2>1, <2>2, LeftAlone
  <2>5. QED
    BY <2>3, <2>4 DEF Rows
<1>3. CASE BootRegisters(h)
  <2>1. /\ hosts[h].pc = "booting"
        /\ Reregister(h, "registering", hosts[h].agent, hosts[h].id)
        /\ UNCHANGED <<rows, doubt>>
    BY <1>3 DEF BootRegisters
  <2>2. QED
    BY <1>1, <2>1, RegisterFollows DEF CatalogInv, Rows
<1>4. CASE BootEnds(h) \/ BootFails(h) \/ KillHost(h)
  <2>1. /\ UNCHANGED <<wire, rows, doubt>>
        /\ \/ /\ hosts[h].pc = "registering" /\ hosts[h].reg = "answered"
              /\ hosts'[h].pc = "up" /\ hosts'[h].reg = "none" /\ hosts'[h].id = hosts[h].id
              /\ hosts'[h].seq = hosts[h].seq /\ hosts'[h].agent = hosts[h].agent
           \/ hosts'[h].pc = "down"
        /\ \A k \in Hosts \ {h} : hosts'[k] = hosts[k]
    BY <1>4, BootOver
  <2>3. Latest(h)' /\ Followed(h)'
    <3>1. CASE hosts'[h].pc = "down"
      BY <3>1 DEF Latest, Followed
    <3>2. CASE hosts'[h].pc # "down"
      <4>1. Latest(h)'
        BY <1>1, <2>1, <3>2 DEF Latest, Says
      <4>2. Followed(h)'
        BY <1>1, <2>1, <3>2, Settled
      <4>3. QED
        BY <4>1, <4>2
    <3>3. QED
      BY <3>1, <3>2
  <2>4. \A k \in Hosts \ {h} : Latest(k)' /\ Followed(k)'
    BY <1>1, <2>1, LeftAlone
  <2>5. QED
    BY <2>3, <2>4 DEF Rows
<1>5. QED
  BY <1>2, <1>3, <1>4 DEF Host

\* What the manager makes of a registration for the id of a Host.
LEMMA ManagerFollows ==
    ASSUME Inv, CatalogInv, NEW r \in wire, ManagerTakes(r) \/ LoseRegistration(r)
    PROVE  Rows'
<1>1. /\ wire' = wire \ {r} /\ UNCHANGED doubt
      /\ r.seq \in Nat /\ \A x \in wire : x.seq \in Nat
      /\ \A id \in DOMAIN rows : rows[id].seq \in Nat /\ rows[id].newest \in Nat
  BY DEF ManagerTakes, LoseRegistration, Inv, Types, Registrations, RowRecord
<1>2. CASE LoseRegistration(r)
  <2>1. UNCHANGED <<hosts, rows>>
    BY <1>2 DEF LoseRegistration
  <2>2. QED
    BY <1>1, <2>1, LeftAlone DEF CatalogInv, Rows
<1>3. CASE ManagerTakes(r)
  <2> DEFINE before == IF r.id \in DOMAIN rows THEN rows[r.id].newest ELSE 0
             row == [host |-> r.host, name |-> r.name, tags |-> r.tags, seq |-> r.seq,
                     newest |-> Max({before, r.seq})]
  <2>1. rows' = [id \in DOMAIN rows \union {r.id} |-> IF id = r.id THEN row ELSE rows[id]]
    BY <1>3 DEF ManagerTakes
  <2>2. before \in Nat
    BY <1>1
  <2>3. /\ DOMAIN rows' = DOMAIN rows \union {r.id}
        /\ \A id \in DOMAIN rows \ {r.id} : rows'[id] = rows[id]
        /\ rows'[r.id].name = r.name /\ rows'[r.id].tags = r.tags
        /\ rows'[r.id].seq = r.seq /\ rows'[r.id].newest = Max({before, r.seq})
    BY <2>1
  <2>4. Max({before, r.seq}) \in {before, r.seq}
        /\ before <= Max({before, r.seq}) /\ r.seq <= Max({before, r.seq})
    <3> HIDE DEF before
    <3>1. QED
      BY <1>1, <2>2, MaxOfTwo
  <2> DEFINE newest == Max({before, r.seq})
  <2>5. /\ newest \in Nat /\ r.seq <= newest /\ newest \in {before, r.seq}
        /\ r.id \in DOMAIN rows => before = rows[r.id].newest /\ rows[r.id].newest <= newest
        /\ r.id \notin DOMAIN rows => newest = r.seq
        /\ rows'[r.id].newest = newest
    BY <1>1, <2>2, <2>3, <2>4
  <2> HIDE DEF before, newest
  <2>6. ASSUME NEW k \in Hosts
        PROVE  /\ hosts'[k].pc = hosts[k].pc /\ hosts'[k].id = hosts[k].id
               /\ hosts'[k].seq = hosts[k].seq /\ hosts'[k].agent = hosts[k].agent
               /\ \/ hosts'[k].reg = hosts[k].reg
                  \/ /\ k = r.host /\ hosts[k].seq = r.seq
                     /\ hosts[k].reg = "sent" /\ hosts'[k].reg = "answered"
    BY <1>3, Answered
  <2>7. ASSUME NEW k \in Hosts PROVE Latest(k)' /\ Followed(k)'
    <3>1. Latest(k) /\ Followed(k) /\ hosts[k].seq \in Nat
      BY DEF CatalogInv, Inv, Types, HostRecord
    <3>3. CASE r.id # hosts[k].id
      <4>1. (hosts[k].id \in DOMAIN rows' <=> hosts[k].id \in DOMAIN rows)
            /\ (hosts[k].id \in DOMAIN rows => rows'[hosts[k].id] = rows[hosts[k].id])
        BY <2>3, <3>3
      <4>2. ASSUME hosts[k].pc \in {"registering", "up"} PROVE hosts'[k].reg = hosts[k].reg
        BY <2>6, <3>1, <3>3, <4>2 DEF Latest
      <4>3. Latest(k)'
        BY <1>1, <2>6, <3>1, <4>1, <4>2 DEF Latest, Says
      <4>4. Followed(k)'
        BY <1>1, <2>6, <3>1, <4>1 DEF Followed, Says
      <4>5. QED
        BY <4>3, <4>4
    <3>4. CASE r.id = hosts[k].id
      <4>1. Latest(k)'
        <5> SUFFICES ASSUME hosts[k].pc \in {"registering", "up"} PROVE Latest(k)'
          BY <2>6 DEF Latest
        <5>1. /\ \A x \in wire : x.id = hosts[k].id =>
                     x.seq <= hosts[k].seq /\ (x.seq = hosts[k].seq => Says(x, hosts[k].agent))
              /\ \A x \in wire : x.host = k /\ x.seq = hosts[k].seq => x.id = hosts[k].id
              /\ r.id \in DOMAIN rows => rows[r.id].newest <= hosts[k].seq
              /\ hosts[k].reg = "answered" => r.id \in DOMAIN rows /\ rows[r.id].newest = hosts[k].seq
          BY <3>1, <3>4 DEF Latest
        <5>2. newest <= hosts[k].seq
          BY <2>5, <3>1, <3>4, <5>1
        <5>3. hosts'[k].reg = "answered" => newest = hosts[k].seq
          BY <1>1, <2>5, <2>6, <3>1, <5>1, <5>2
        <5>4. r.seq = hosts[k].seq => r.name = hosts[k].agent.name /\ r.tags = hosts[k].agent.tags
          BY <3>4, <5>1 DEF Says
        <5>5. QED
          BY <1>1, <2>3, <2>5, <2>6, <3>4, <5>1, <5>2, <5>3, <5>4 DEF Latest, Says
      <4>2. Followed(k)'
        <5> SUFFICES ASSUME hosts[k].pc = "up", k \notin doubt PROVE Followed(k)'
          BY <1>1, <2>6 DEF Followed
        <5>1. /\ r.id \in DOMAIN rows
              /\ \A x \in wire : x.id = r.id /\ x.seq >= rows[r.id].newest => Says(x, hosts[k].agent)
          BY <3>1, <3>4 DEF Followed
        <5>2. \A x \in wire' : x.id = r.id /\ x.seq >= newest => Says(x, hosts[k].agent)
          BY <1>1, <2>5, <5>1
        <5>3. r.seq = newest => r.name = hosts[k].agent.name /\ r.tags = hosts[k].agent.tags
          BY <1>1, <2>5, <5>1 DEF Says
        <5>4. QED
          BY <1>1, <2>3, <2>5, <2>6, <3>4, <5>1, <5>2, <5>3 DEF Followed, Says
      <4>3. QED
        BY <4>1, <4>2
    <3>5. QED
      BY <3>3, <3>4
  <2>8. QED
    BY <2>7 DEF Rows
<1>4. QED
  BY <1>2, <1>3

LEMMA CatalogInit == ASSUME Named, Init
                     PROVE  CatalogInv
<1> USE DEF Init
<1>1. DownHost.pc = "down"
  BY DEF DownHost
<1>2. \A h \in Hosts, id \in Ids : Mention(h, id) => EnvId[h] = id /\ EnvId[h] # NoId
  BY <1>1, IdsFacts DEF Mention
<1>3. Owned
  BY <1>2 DEF Owned, Named
<1>4. ASSUME NEW h \in Hosts PROVE Latest(h) /\ Followed(h)
  BY <1>1 DEF Latest, Followed
<1>5. QED
  BY <1>3, <1>4 DEF CatalogInv

LEMMA CatalogNext == ASSUME Named, Inv, RunsInv, CatalogInv, [Next]_vars
                     PROVE  CatalogInv'
<1>1. Owned'
  BY NextInv, OwnedKeeps DEF CatalogInv
<1>2. ASSUME Next PROVE Rows'
  BY <1>2, InitCommandFollows, HostFollows, ManagerFollows DEF Next
<1>3. ASSUME UNCHANGED vars PROVE Rows'
  <2>1. UNCHANGED <<hosts, wire, rows, doubt>>
    BY <1>3 DEF vars
  <2>2. QED
    BY <2>1, LeftAlone DEF CatalogInv, Rows
<1>4. Rows'
  BY <1>2, <1>3
<1>5. QED
  BY <1>1, <1>4 DEF CatalogInv, Rows

\* The row of a Host that was not left in doubt follows it, whatever order the
\* registrations on their way are taken in.
THEOREM CatalogInvariance == Catalogued /\ Named => (Spec => [](Inv /\ RunsInv /\ CatalogInv))
<1> SUFFICES ASSUME Catalogued, Named PROVE Spec => [](Inv /\ RunsInv /\ CatalogInv)
  OBVIOUS
<1>1. Init => Inv /\ RunsInv /\ CatalogInv
  BY InitInv, RunsInit, CatalogInit
<1>2. Inv /\ RunsInv /\ CatalogInv /\ [Next]_vars => Inv' /\ RunsInv' /\ CatalogInv'
  BY NextInv, RunsNext, CatalogNext
<1>3. QED
  BY <1>1, <1>2, PTL DEF Spec

\* The row of such a Host says what its agent is (reregister against
\* register_node), unless a registration sent earlier was taken later.
THEOREM CatalogFollowsHolds == Catalogued /\ Named => (Spec => []CatalogFollows)
<1> SUFFICES ASSUME Catalogued, Named PROVE Spec => []CatalogFollows
  OBVIOUS
<1>1. Inv /\ CatalogInv => CatalogFollows
  <2> SUFFICES ASSUME Inv, CatalogInv, NEW h \in Hosts \ doubt, hosts[h].pc = "up"
               PROVE  /\ hosts[h].id \in DOMAIN rows
                      /\ LET row == rows[hosts[h].id]
                         IN  \/ row.seq < row.newest
                             \/ row.name = hosts[h].agent.name /\ row.tags = hosts[h].agent.tags
    BY DEF CatalogFollows
  <2>1. hosts[h].id \in DOMAIN rows
    BY DEF CatalogInv, Followed
  <2> DEFINE row == rows[hosts[h].id]
  <2>2. row.seq = row.newest => Says(row, hosts[h].agent)
    BY DEF CatalogInv, Followed
  <2>3. row.seq \in Nat /\ row.newest \in Nat /\ row.seq <= row.newest
    BY <2>1 DEF Inv, Types, Known, RowRecord
  <2>4. QED
    BY <2>1, <2>2, <2>3 DEF Says
<1>2. Spec => [](Inv /\ RunsInv /\ CatalogInv)
  BY CatalogInvariance
<1>3. QED
  BY <1>1, <1>2, PTL
=============================================================================
