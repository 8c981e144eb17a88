------------------------- MODULE RegistryEditProofs -------------------------
(***************************************************************************)
(* Proofs about RegistryEdit: the registry's files can be loaded at every  *)
(* moment, for any number of agents, pipelines and requests, and whichever *)
(* of their writes fail.                                                   *)
(***************************************************************************)
EXTENDS RegistryEdit, TLAPS

\* What WriteFile leaves: the new content in its file, and every other file.
LEMMA Saved ==
  ASSUME TypeOK, NEW f \in Files, NEW c \in Contents, NEW q \in Requests, Save(f, c, q)
  PROVE  /\ disk' \in [Files -> Stored]
         /\ disk'[f] # Absent /\ disk'[f].text = c /\ disk'[f].by = q
         /\ \A g \in Files : g # f => disk'[g] = disk[g]
         /\ \A g \in Files : disk[g] # Absent => disk'[g] # Absent
  <1> DEFINE w == [text |-> c, by |-> q]
  <1>1. w \in Written /\ w # Absent /\ w.text = c /\ w.by = q
    BY RegistryAssumption DEF Written
  <1>2. disk \in [Files -> Stored] /\ disk' = [disk EXCEPT ![f] = w]
    BY Zenon DEF TypeOK, Save
  <1> HIDE DEF w
  <1>3. disk'[f] = w /\ \A g \in Files : g # f => disk'[g] = disk[g]
    BY <1>2, Zenon
  <1>4. disk' \in [Files -> Stored]
    BY <1>1, <1>2 DEF Stored
  <1> QED BY <1>1, <1>3, <1>4, Zenon

\* What a file holds has a text, and a blueprint names files.
LEMMA TextType ==
  ASSUME TypeOK, NEW f \in Files, disk[f] # Absent
  PROVE  /\ disk[f].text \in Contents
         /\ PromptPath[disk[f].text] \in Files
         /\ SchemaPath[disk[f].text] \in Files \cup {NoFile}
         /\ Uses[disk[f].text] \subseteq Agents
  <1>1. disk[f] \in Written
    BY DEF TypeOK, Stored
  <1>2. disk[f].text \in Contents
    BY <1>1 DEF Written
  <1> QED BY <1>2, RegistryAssumption

\* What a request writes, and where.
LEMMA RequestType ==
  ASSUME NEW q \in Requests
  PROVE  /\ Target[q] \in Names /\ Target[q] \in Files
         /\ Body[q] \in Contents
         /\ PromptPath[Body[q]] \in Files
         /\ SchemaPath[Body[q]] \in Files \cup {NoFile}
         /\ Uses[Body[q]] \subseteq Agents
         /\ Prompt[q] # NoPrompt => Prompt[q] \in Contents /\ Target[q] \in Agents
  <1>1. Target[q] \in Names /\ Body[q] \in Contents /\ Prompt[q] \in Contents \cup {NoPrompt}
    BY RegistryAssumption
  <1>2. Prompt[q] # NoPrompt => Target[q] \in Agents
    BY <1>1, RegistryAssumption, Zenon DEF Names
  <1>3. PromptPath[Body[q]] \in Files /\ SchemaPath[Body[q]] \in Files \cup {NoFile}
    BY <1>1, RegistryAssumption
  <1>4. Uses[Body[q]] \subseteq Agents
    BY <1>1, RegistryAssumption
  <1> QED BY <1>1, <1>2, <1>3, <1>4, Zenon DEF Files

\* Files that fit together load, when none was overwritten.
LEMMA FitLoads == TypeOK /\ FilesFit => DiskLoads
  <1> SUFFICES ASSUME TypeOK, FilesFit, overwritten = {} PROVE Loadable
    BY Zenon DEF DiskLoads
  <1>1. ASSUME NEW a \in Agents PROVE LoadsBlueprint(a)
    BY Zenon DEF FilesFit, SchemaFits, LoadsBlueprint, Names
  <1>2. ASSUME NEW p \in Pipelines PROVE LoadsPipeline(p)
    BY Zenon DEF FilesFit, LoadsPipeline, Names
  <1> QED BY <1>1, <1>2, Zenon DEF Loadable

\* The part of RegInv that is shown by induction; DiskLoads follows from it.
RegCore == TypeOK /\ AgentsStay /\ FilesFit /\ ReadyToWrite /\ JobsFound

\* It is the whole of RegInv.
LEMMA CoreIsInv == RegCore => RegInv
  BY FitLoads, Zenon DEF RegCore, RegInv

\* A registry that loads is where the process starts from.
LEMMA InitInv == Init => RegCore
  <1> SUFFICES ASSUME Init PROVE RegCore
    BY Zenon
  <1>1. Empty \in Snapshots
    BY Zenon DEF Empty, Snapshots, Stored
  <1>2. disk \in [Files -> Stored]
    <2>1. PICK o \in Originals :
              disk = [f \in Files |-> IF o[f] = Absent THEN Absent
                                      ELSE [text |-> o[f], by |-> NoRequest]]
      BY Zenon DEF Init
    <2>2. \A f \in Files : o[f] \in Contents \cup {Absent}
      BY RegistryAssumption
    <2>3. \A f \in Files : o[f] # Absent => [text |-> o[f], by |-> NoRequest] \in Written
      BY <2>2 DEF Written
    <2> QED BY <2>1, <2>3, Zenon DEF Stored
  <1>3. TypeOK
    <2>1. \A q \in Requests : pc[q] \in {"prompt", "definition", "reload"} <=> lock = q
      BY RegistryAssumption, Zenon DEF Init
    <2>2. started \in [Jobs -> Snapshots] /\ ran \in [Jobs -> SUBSET (Agents \X Stored)]
      BY <1>1, Zenon DEF Init
    <2>3. pc \in [Requests -> {"new", "checked", "prompt", "definition", "reload", "done"}]
      BY Zenon DEF Init
    <2>4. response \in [Requests -> {0, 200, 400, 404, 409, 500}]
      BY Zenon DEF Init
    <2>5. jpc \in [Jobs -> {"new", "running", "done"}]
      BY Zenon DEF Init
    <2>6. crashes \in 0..MaxCrashes
      BY RegistryAssumption DEF Init
    <2> QED BY <1>1, <1>2, <2>1, <2>2, <2>3, <2>4, <2>5, <2>6, Zenon DEF Init, TypeOK
  <1>4. AgentsStay
    BY Zenon DEF Init, AgentsStay, Empty, Names
  <1>5. FilesFit
    BY Zenon DEF Init, FilesFit, SchemaFits, Loadable, LoadsBlueprint, LoadsPipeline, Names
  <1>6. ReadyToWrite
    BY DEF Init, ReadyToWrite
  <1>7. JobsFound
    BY Zenon DEF Init, JobsFound
  <1> QED BY <1>3, <1>4, <1>5, <1>6, <1>7, Zenon DEF RegCore

\* What Load returns is a snapshot of the files.
LEMMA LoadedType == TypeOK => Loaded \in Snapshots
  <1> SUFFICES ASSUME TypeOK PROVE Loaded \in Snapshots
    BY Zenon
  <1>0. \A f \in Files : disk[f] \in Stored
    BY DEF TypeOK
  <1>1. ASSUME NEW a \in Agents, disk[a] # Absent
        PROVE  disk[PromptPath[disk[a].text]] \in Stored
    BY <1>0, <1>1, TextType, Zenon DEF Files, Names
  <1>2. \A x \in Names : disk[x] \in Stored
    BY <1>0, Zenon DEF Files
  <1>3. Absent \in Stored
    BY Zenon DEF Stored
  <1> QED BY <1>1, <1>2, <1>3, Zenon DEF Loaded, Snapshots

\* A request keeps the types.
LEMMA TypeHandler ==
  ASSUME RegInv, NEW q \in Requests, Handler(q)
  PROVE  TypeOK'
  <1>0. TypeOK /\ ReadyToWrite
    BY Zenon DEF RegInv
  <1> USE RegistryAssumption, <1>0 DEF TypeOK, Respond, process, handlers, history, jobs
  <1>1. CASE Refuse(q)
    BY <1>1 DEF Refuse
  <1>2. CASE Check(q)
    BY <1>2 DEF Check
  <1>3. CASE Invalid(q)
    BY <1>3 DEF Invalid
  <1>4. CASE Begin(q)
    BY <1>4 DEF Begin
  <1>5. CASE WritePrompt(q)
    <2>1. disk' \in [Files -> Stored]
      BY <1>5, RequestType, Saved, Zenon DEF WritePrompt, ReadyToWrite
    <2>2. overwritten' \subseteq Files
      BY <1>5, RequestType DEF WritePrompt
    <2> QED BY <1>5, <2>1, <2>2 DEF WritePrompt
  <1>6. CASE WriteDefinition(q)
    <2>1. disk' \in [Files -> Stored]
      BY <1>6, RequestType, Saved, Zenon DEF WriteDefinition
    <2>2. overwritten' \subseteq Files
      BY <1>6, RequestType DEF WriteDefinition
    <2> QED BY <1>6, <2>1, <2>2 DEF WriteDefinition
  <1>7. CASE WriteFails(q)
    BY <1>7 DEF WriteFails, Tears
  <1>8. CASE Reload(q)
    BY <1>8, LoadedType DEF Reload
  <1>9. CASE ReloadFails(q)
    BY <1>9 DEF ReloadFails
  <1> QED BY <1>1, <1>2, <1>3, <1>4, <1>5, <1>6, <1>7, <1>8, <1>9, Zenon DEF Handler

\* The process and the jobs keep the types.
LEMMA TypeOthers ==
  ASSUME RegInv, Start \/ Crash \/ \E j \in Jobs : RunPipeline(j) \/ RunAgent(j) \/ EndJob(j)
  PROVE  TypeOK'
  <1>0. TypeOK /\ JobsFound
    BY Zenon DEF RegInv
  <1> USE RegistryAssumption, <1>0 DEF TypeOK, process, handlers, history, jobs
  <1>1. CASE Start
    BY <1>1, LoadedType, Zenon DEF Start
  <1>2. CASE Crash
    <2>1. Empty \in Snapshots
      BY Zenon DEF Empty, Snapshots, Stored
    <2>2. crashes' \in 0..MaxCrashes
      BY <1>2 DEF Crash
    <2>3. torn' \subseteq Names
      BY <1>2 DEF Crash
    <2>4. pc' \in [Requests -> {"new", "checked", "prompt", "definition", "reload", "done"}]
      BY <1>2, Zenon DEF Crash
    <2>5. \A q \in Requests : pc'[q] \in {"new", "done"} /\ lock' # q
      BY <1>2 DEF Crash
    <2>6. jpc' \in [Jobs -> {"new", "running", "done"}]
      BY <1>2, Zenon DEF Crash
    <2> QED BY <1>2, <2>1, <2>2, <2>3, <2>4, <2>5, <2>6, Zenon DEF Crash
  <1>3. ASSUME NEW j \in Jobs, RunPipeline(j) PROVE TypeOK'
    BY <1>3, Zenon DEF RunPipeline
  <1>4. ASSUME NEW j \in Jobs, RunAgent(j) PROVE TypeOK'
    <2> DEFINE d == started[j].definitions[JobPipeline[j]]
    <2>1. PICK a \in Uses[d.text] :
              ran' = [ran EXCEPT ![j] = @ \cup {<<a, engine.definitions[a]>>}]
      BY <1>4, Zenon DEF RunAgent
    <2>2. started[j] \in Snapshots /\ JobPipeline[j] \in Names
      BY DEF Names
    <2>3. d \in Written
      BY <1>4, <2>2 DEF RunAgent, JobsFound, Snapshots, Stored
    <2>4. d.text \in Contents
      BY <2>3 DEF Written
    <2>5. a \in Agents
      BY <2>1, <2>4
    <2>6. engine.definitions[a] \in Stored
      BY <2>5 DEF Snapshots, Names
    <2>7. ran' \in [Jobs -> SUBSET (Agents \X Stored)]
      BY <2>1, <2>5, <2>6
    <2> QED BY <1>4, <2>7, Zenon DEF RunAgent
  <1>5. ASSUME NEW j \in Jobs, EndJob(j) PROVE TypeOK'
    BY <1>5, Zenon DEF EndJob
  <1> QED BY <1>1, <1>2, <1>3, <1>4, <1>5, Zenon

\* A schema still fits after a write of another file, and after a write of
\* its own file, which then counts as overwritten.
LEMMA FitsKept ==
  ASSUME NEW c \in Contents, NEW f, SchemaFits(c),
         overwritten \subseteq overwritten',
         \A g \in Files : g # f => disk'[g] = disk[g],
         SchemaPath[c] = f => f \in overwritten'
  PROVE  SchemaFits(c)'
  <1>1. SchemaPath[c] \in Files \cup {NoFile} /\ NoFile \notin Files
    BY RegistryAssumption
  <1>2. CASE SchemaPath[c] \in overwritten'
    BY <1>2, Zenon DEF SchemaFits
  <1>3. CASE SchemaPath[c] \notin overwritten'
    <2>1. Compiles(c) /\ SchemaPath[c] # f
      BY <1>3, Zenon DEF SchemaFits
    <2>2. Compiles(c)'
      BY <1>1, <2>1, Zenon DEF Compiles
    <2> QED BY <2>2, Zenon DEF SchemaFits
  <1> QED BY <1>2, <1>3, Zenon

\* What a write of the prompt does to the files.
LEMMA PromptStep ==
  ASSUME RegInv, NEW q \in Requests, WritePrompt(q)
  PROVE  /\ Prompt[q] # NoPrompt
         /\ disk'[PromptPath[Body[q]]] # Absent /\ disk'[PromptPath[Body[q]]].by = q
         /\ \A g \in Files : g # PromptPath[Body[q]] => disk'[g] = disk[g]
         /\ \A g \in Files : disk[g] # Absent => disk'[g] # Absent
         /\ overwritten \subseteq overwritten'
         /\ PromptPath[Body[q]] \in Names => PromptPath[Body[q]] \in overwritten'
         /\ SchemaPath[Body[q]] = PromptPath[Body[q]] => PromptPath[Body[q]] \in overwritten'
         /\ \A a \in Agents : disk[a] # Absent /\ SchemaPath[disk[a].text] = PromptPath[Body[q]]
                => PromptPath[Body[q]] \in overwritten'
  <1> DEFINE f == PromptPath[Body[q]]
  <1>1. TypeOK /\ Prompt[q] # NoPrompt
    BY Zenon DEF RegInv, ReadyToWrite, WritePrompt
  <1>2. f \in Files /\ Prompt[q] \in Contents
    BY <1>1, RequestType, Zenon
  <1>3. Save(f, Prompt[q], q)
    BY Zenon DEF WritePrompt
  <1>4. overwritten' = overwritten \cup ({f} \cap (Names \cup SchemaFiles(q)))
    BY Zenon DEF WritePrompt
  <1>5. /\ SchemaPath[Body[q]] \in SchemaFiles(q)
        /\ \A a \in Agents : disk[a] # Absent => SchemaPath[disk[a].text] \in SchemaFiles(q)
    BY Zenon DEF SchemaFiles
  <1>6. /\ disk'[f] # Absent /\ disk'[f].by = q
        /\ \A g \in Files : g # f => disk'[g] = disk[g]
        /\ \A g \in Files : disk[g] # Absent => disk'[g] # Absent
    <2>1. disk'[f] # Absent
      BY <1>1, <1>2, <1>3, Saved, Zenon
    <2>2. disk'[f].by = q
      BY <1>1, <1>2, <1>3 DEF Save, TypeOK
    <2>3. \A g \in Files : g # f => disk'[g] = disk[g]
      BY <1>1, <1>2, <1>3, Saved, Zenon
    <2> QED BY <2>1, <2>2, <2>3, Zenon
  <1>7. /\ overwritten \subseteq overwritten'
        /\ f \in Names \cup SchemaFiles(q) => f \in overwritten'
    BY <1>4, Zenon
  <1> HIDE DEF f
  <1>8. /\ SchemaPath[Body[q]] = f => f \in overwritten'
        /\ \A a \in Agents : disk[a] # Absent /\ SchemaPath[disk[a].text] = f => f \in overwritten'
        /\ f \in Names => f \in overwritten'
    BY <1>5, <1>7, Zenon
  <1> QED BY <1>1, <1>6, <1>7, <1>8, Zenon DEF f

\* What a write of the JSON file does to the files.
LEMMA DefinitionStep ==
  ASSUME RegInv, NEW q \in Requests, WriteDefinition(q)
  PROVE  /\ disk'[Target[q]] # Absent
         /\ disk'[Target[q]].text = Body[q] /\ disk'[Target[q]].by = q
         /\ \A g \in Files : g # Target[q] => disk'[g] = disk[g]
         /\ \A g \in Files : disk[g] # Absent => disk'[g] # Absent
         /\ overwritten \subseteq overwritten'
         /\ SchemaPath[Body[q]] = Target[q] => Target[q] \in overwritten'
         /\ \A a \in Agents : disk[a] # Absent /\ SchemaPath[disk[a].text] = Target[q]
                => Target[q] \in overwritten'
  <1>1. TypeOK
    BY Zenon DEF RegInv
  <1>2. Target[q] \in Files /\ Body[q] \in Contents
    BY RequestType, Zenon
  <1>3. Save(Target[q], Body[q], q)
    BY Zenon DEF WriteDefinition
  <1>4. overwritten' = overwritten \cup ({Target[q]} \cap SchemaFiles(q))
    BY Zenon DEF WriteDefinition
  <1>5. /\ SchemaPath[Body[q]] \in SchemaFiles(q)
        /\ \A a \in Agents : disk[a] # Absent => SchemaPath[disk[a].text] \in SchemaFiles(q)
    BY Zenon DEF SchemaFiles
  <1>6. /\ disk'[Target[q]] # Absent
        /\ disk'[Target[q]].text = Body[q] /\ disk'[Target[q]].by = q
        /\ \A g \in Files : g # Target[q] => disk'[g] = disk[g]
        /\ \A g \in Files : disk[g] # Absent => disk'[g] # Absent
    <2>1. disk'[Target[q]] # Absent
      BY <1>1, <1>2, <1>3, Saved, Zenon
    <2>2. disk'[Target[q]].text = Body[q] /\ disk'[Target[q]].by = q
      BY <1>1, <1>2, <1>3 DEF Save, TypeOK
    <2>3. \A g \in Files : g # Target[q] => disk'[g] = disk[g]
      BY <1>1, <1>2, <1>3, Saved, Zenon
    <2> QED BY <2>1, <2>2, <2>3, Zenon
  <1>7. /\ overwritten \subseteq overwritten'
        /\ Target[q] \in SchemaFiles(q) => Target[q] \in overwritten'
    BY <1>4, Zenon
  <1>8. /\ SchemaPath[Body[q]] = Target[q] => Target[q] \in overwritten'
        /\ \A a \in Agents : disk[a] # Absent /\ SchemaPath[disk[a].text] = Target[q]
                => Target[q] \in overwritten'
    BY <1>5, <1>7, Zenon
  <1> QED BY <1>6, <1>7, <1>8, Zenon

\* Fits(x): a definition file holds a definition that finds what it needs.
Fits(x) ==
    disk[x] # Absent =>
        /\ Defines[disk[x].text] = x
        /\ x \in Agents => disk[PromptPath[disk[x].text]] # Absent /\ SchemaFits(disk[x].text)
        /\ x \in Pipelines => \A a \in Uses[disk[x].text] : disk[a] # Absent

\* A definition that is not written itself keeps fitting when a file f is.
LEMMA FitKept ==
  ASSUME TypeOK, NEW x \in Names, NEW f, Fits(x), disk'[x] = disk[x],
         overwritten \subseteq overwritten',
         \A g \in Files : g # f => disk'[g] = disk[g],
         \A g \in Files : disk[g] # Absent => disk'[g] # Absent,
         x \in Agents /\ disk[x] # Absent /\ SchemaPath[disk[x].text] = f => f \in overwritten'
  PROVE  Fits(x)'
  <1> SUFFICES ASSUME disk'[x] # Absent
               PROVE  /\ Defines[disk'[x].text] = x
                      /\ x \in Agents => disk'[PromptPath[disk'[x].text]] # Absent /\ SchemaFits(disk[x].text)'
                      /\ x \in Pipelines => \A a \in Uses[disk'[x].text] : disk'[a] # Absent
    BY Zenon DEF Fits
  <1>1. /\ disk[x].text \in Contents /\ PromptPath[disk[x].text] \in Files
        /\ Uses[disk[x].text] \subseteq Agents
    BY TextType, Zenon DEF Files
  <1>2. x \in Agents => SchemaFits(disk[x].text)'
    BY <1>1, FitsKept, Zenon DEF Fits
  <1>3. x \in Agents => disk'[PromptPath[disk[x].text]] # Absent
    BY <1>1, Zenon DEF Fits
  <1>4. x \in Pipelines => \A a \in Uses[disk[x].text] : disk'[a] # Absent
    BY <1>1, Zenon DEF Fits, Files, Names
  <1> QED BY <1>2, <1>3, <1>4, Zenon DEF Fits

\* A write leaves definitions that fit: only a request that holds the lock
\* writes, and it has what its definition needs.
LEMMA FitHandler ==
  ASSUME RegInv, NEW q \in Requests, WritePrompt(q) \/ WriteDefinition(q)
  PROVE  FilesFit' /\ AgentsStay'
  <1>0. TypeOK /\ AgentsStay /\ FilesFit /\ ReadyToWrite
    BY Zenon DEF RegInv
  <1>1. \A x \in Names \ overwritten : Fits(x)
    BY <1>0, Zenon DEF FilesFit, Fits
  <1>2. ASSUME \A x \in Names \ overwritten' : Fits(x)' PROVE FilesFit'
    BY <1>2, Zenon DEF FilesFit, Fits
  <1>3. ASSUME \A g \in Files : disk[g] # Absent => disk'[g] # Absent, UNCHANGED api
        PROVE  AgentsStay'
    BY <1>0, <1>3, Zenon DEF AgentsStay, Files, Names
  <1>4. CASE WritePrompt(q)
    <2>1. ASSUME NEW x \in Names \ overwritten' PROVE Fits(x)'
      <3>1. x # PromptPath[Body[q]] /\ x \in Names \ overwritten /\ x \in Files
        BY <1>4, <2>1, PromptStep, Zenon DEF Files
      <3>2. /\ Fits(x) /\ disk'[x] = disk[x] /\ overwritten \subseteq overwritten'
            /\ \A g \in Files : g # PromptPath[Body[q]] => disk'[g] = disk[g]
            /\ \A g \in Files : disk[g] # Absent => disk'[g] # Absent
        BY <1>1, <1>4, <3>1, PromptStep, Zenon
      <3>3. x \in Agents /\ disk[x] # Absent /\ SchemaPath[disk[x].text] = PromptPath[Body[q]]
                => PromptPath[Body[q]] \in overwritten'
        BY <1>4, PromptStep, Zenon
      <3> QED BY <1>0, <3>2, <3>3, FitKept, Zenon
    <2>2. UNCHANGED api
      BY <1>4, Zenon DEF WritePrompt, process
    <2> QED BY <1>2, <1>3, <1>4, <2>1, <2>2, PromptStep, Zenon
  <1>5. CASE WriteDefinition(q)
    <2>1. ASSUME NEW x \in Names \ overwritten', x # Target[q] PROVE Fits(x)'
      <3>1. x \in Names \ overwritten /\ x \in Files
        BY <1>5, <2>1, DefinitionStep, Zenon DEF Files
      <3>2. /\ Fits(x) /\ disk'[x] = disk[x] /\ overwritten \subseteq overwritten'
            /\ \A g \in Files : g # Target[q] => disk'[g] = disk[g]
            /\ \A g \in Files : disk[g] # Absent => disk'[g] # Absent
        BY <1>1, <1>5, <2>1, <3>1, DefinitionStep, Zenon
      <3>3. x \in Agents /\ disk[x] # Absent /\ SchemaPath[disk[x].text] = Target[q]
                => Target[q] \in overwritten'
        BY <1>5, DefinitionStep, Zenon
      <3> QED BY <1>0, <3>2, <3>3, FitKept, Zenon
    <2>2. Fits(Target[q])'
      <3>1. /\ Defines[Body[q]] = Target[q]
            /\ Target[q] \in Agents => SchemaFits(Body[q]) /\ disk[PromptPath[Body[q]]] # Absent
            /\ Target[q] \in Pipelines => \A a \in Uses[Body[q]] : disk[a] # Absent
        BY <1>0, <1>5 DEF WriteDefinition, ReadyToWrite
      <3>2. /\ Body[q] \in Contents /\ PromptPath[Body[q]] \in Files
            /\ Uses[Body[q]] \subseteq Agents
        BY RequestType, Zenon
      <3>3. ASSUME Target[q] \in Agents PROVE SchemaFits(Body[q])'
        <4>1. /\ overwritten \subseteq overwritten'
              /\ \A g \in Files : g # Target[q] => disk'[g] = disk[g]
              /\ SchemaPath[Body[q]] = Target[q] => Target[q] \in overwritten'
          BY <1>5, DefinitionStep, Zenon
        <4>2. Body[q] \in Contents /\ SchemaFits(Body[q])
          BY <3>1, <3>2, <3>3, Zenon
        <4> QED BY <4>1, <4>2, FitsKept, Zenon
      <3>4. Target[q] \in Agents => disk'[PromptPath[Body[q]]] # Absent
        BY <1>5, <3>1, <3>2, DefinitionStep, Zenon
      <3>5. Target[q] \in Pipelines => \A a \in Uses[Body[q]] : disk'[a] # Absent
        BY <1>5, <3>1, <3>2, DefinitionStep, Zenon DEF Files, Names
      <3>6. disk'[Target[q]].text = Body[q]
        BY <1>5, DefinitionStep, Zenon
      <3> QED BY <3>1, <3>3, <3>4, <3>5, <3>6, Zenon DEF Fits
    <2>3. UNCHANGED api
      BY <1>5, Zenon DEF WriteDefinition, process
    <2> QED BY <1>2, <1>3, <1>5, <2>1, <2>2, <2>3, DefinitionStep, Zenon
  <1> QED BY <1>4, <1>5, Zenon

\* Steps that leave the files alone leave them fitting.
LEMMA FitFrame ==
  ASSUME RegInv, UNCHANGED <<disk, overwritten>>
  PROVE  FilesFit'
  BY Zenon DEF RegInv, FilesFit, SchemaFits, Compiles

\* A snapshot holds what is on disk.
LEMMA StayLoaded ==
  ASSUME api' = Loaded, UNCHANGED disk
  PROVE  AgentsStay'
  <1>1. \A a \in Agents : Loaded.definitions[a] = disk[a]
    BY DEF Loaded, Names
  <1> QED BY <1>1, Zenon DEF AgentsStay

\* A request keeps the definitions fitting, and the agents that are loaded.
LEMMA LoadHandler ==
  ASSUME RegInv, NEW q \in Requests, Handler(q)
  PROVE  FilesFit' /\ AgentsStay'
  <1>1. CASE WritePrompt(q) \/ WriteDefinition(q)
    BY <1>1, FitHandler, Zenon
  <1>2. CASE Refuse(q) \/ Check(q) \/ Invalid(q) \/ Begin(q) \/ WriteFails(q) \/ ReloadFails(q)
    <2>1. UNCHANGED <<disk, overwritten, api>>
      BY <1>2, Zenon DEF Refuse, Check, Invalid, Begin, WriteFails, ReloadFails, process, history
    <2>2. AgentsStay'
      BY <2>1, Zenon DEF RegInv, AgentsStay
    <2> QED BY <2>1, <2>2, FitFrame, Zenon
  <1>3. CASE Reload(q)
    <2>1. api' = Loaded /\ UNCHANGED <<disk, overwritten>>
      BY <1>3, Zenon DEF Reload, history
    <2> QED BY <2>1, FitFrame, StayLoaded, Zenon
  <1> QED BY <1>1, <1>2, <1>3, Zenon DEF Handler

\* Ready(q): the needs of a request that has the lock and has yet to write.
Ready(q) ==
    /\ Defines[Body[q]] = Target[q]
    /\ Target[q] \in Agents => SchemaFits(Body[q])
    /\ Target[q] \in Pipelines => \A a \in Uses[Body[q]] : disk[a] # Absent

\* A request that reaches its writes has what they need, and no other
\* request writes before it has done.
LEMMA ReadyHandler ==
  ASSUME RegInv, NEW q \in Requests, Handler(q)
  PROVE  ReadyToWrite' /\ JobsFound'
  <1>0. /\ ReadyToWrite /\ AgentsStay
        /\ pc \in [Requests -> {"new", "checked", "prompt", "definition", "reload", "done"}]
        /\ \A r \in Requests : pc[r] \in {"prompt", "definition", "reload"} => lock = r
        /\ NoRequest \notin Requests
    BY RegistryAssumption, Zenon DEF RegInv, TypeOK
  <1>1. JobsFound'
    <2>1. UNCHANGED <<jpc, started>>
      BY Zenon DEF Handler, Refuse, Check, Invalid, Begin, WritePrompt, WriteDefinition,
                   WriteFails, Reload, ReloadFails, jobs
    <2> QED BY <2>1, Zenon DEF RegInv, JobsFound
  <1>2. ASSUME \A r \in Requests \ {q} : pc'[r] \notin {"prompt", "definition"},
               pc'[q] = "prompt" => Prompt[q] # NoPrompt,
               pc'[q] \in {"prompt", "definition"} => Ready(q)',
               pc'[q] = "definition" /\ Target[q] \in Agents => disk'[PromptPath[Body[q]]] # Absent
        PROVE  ReadyToWrite'
    BY <1>2, Zenon DEF ReadyToWrite, Ready
  <1>3. CASE Refuse(q) \/ Check(q) \/ Invalid(q)
    <2>1. /\ lock = NoRequest /\ \E s \in {"checked", "done"} : pc' = [pc EXCEPT ![q] = s]
      BY <1>3, Zenon DEF Refuse, Check, Invalid, Respond
    <2>2. \A r \in Requests : pc'[r] \notin {"prompt", "definition"}
      BY <1>0, <2>1
    <2> QED BY <1>1, <1>2, <2>2, Zenon
  <1>4. CASE Begin(q)
    <2>1. /\ lock = NoRequest /\ Valid(q) /\ UNCHANGED <<disk, overwritten>>
          /\ pc' = [pc EXCEPT ![q] = IF Prompt[q] # NoPrompt THEN "prompt" ELSE "definition"]
      BY <1>4, Zenon DEF Begin, history
    <2>2. /\ \A r \in Requests \ {q} : pc'[r] \notin {"prompt", "definition"}
          /\ pc'[q] = IF Prompt[q] # NoPrompt THEN "prompt" ELSE "definition"
      BY <1>0, <2>1
    <2>3. Ready(q)
      <3>1. Defines[Body[q]] = Target[q]
        BY <2>1, Zenon DEF Valid, ValidBlueprint, ValidPipeline
      <3>2. Target[q] \in Agents => SchemaFits(Body[q])
        BY <2>1, Zenon DEF Valid, ValidBlueprint, SchemaFits
      <3>3. ASSUME Target[q] \in Pipelines, NEW a \in Uses[Body[q]] PROVE disk[a] # Absent
        <4>1. a \in Agents /\ Target[q] \notin Agents
          BY <3>3, RequestType, RegistryAssumption, Zenon
        <4> QED BY <1>0, <2>1, <3>3, <4>1, Zenon DEF Valid, ValidPipeline, Exists, AgentsStay
      <3> QED BY <3>1, <3>2, <3>3, Zenon DEF Ready
    <2>4. Ready(q)'
      BY <2>1, <2>3, Zenon DEF Ready, SchemaFits, Compiles
    <2>5. pc'[q] = "prompt" => Prompt[q] # NoPrompt
      BY <2>2, Zenon
    <2>6. pc'[q] = "definition" /\ Target[q] \in Agents => disk'[PromptPath[Body[q]]] # Absent
      BY <2>1, <2>2 DEF Valid, ValidBlueprint
    <2> QED BY <1>1, <1>2, <2>2, <2>4, <2>5, <2>6, Zenon
  <1>5. CASE WritePrompt(q)
    <2>1. pc[q] = "prompt" /\ pc' = [pc EXCEPT ![q] = "definition"]
      BY <1>5, Zenon DEF WritePrompt
    <2>2. /\ \A r \in Requests \ {q} : pc'[r] \notin {"prompt", "definition"}
          /\ pc'[q] = "definition"
      BY <1>0, <2>1
    <2>3. Ready(q)
      BY <1>0, <2>1, Zenon DEF ReadyToWrite, Ready
    <2>4. Ready(q)'
      <3>1. Body[q] \in Contents /\ Uses[Body[q]] \subseteq Agents
        BY RequestType, Zenon
      <3>2. ASSUME Target[q] \in Agents PROVE SchemaFits(Body[q])'
        <4>1. /\ overwritten \subseteq overwritten'
              /\ \A g \in Files : g # PromptPath[Body[q]] => disk'[g] = disk[g]
              /\ SchemaPath[Body[q]] = PromptPath[Body[q]] => PromptPath[Body[q]] \in overwritten'
          BY <1>5, PromptStep, Zenon
        <4>2. Body[q] \in Contents /\ SchemaFits(Body[q])
          BY <2>3, <3>1, <3>2, Zenon DEF Ready
        <4> QED BY <4>1, <4>2, FitsKept, Zenon
      <3>3. Target[q] \in Pipelines => \A a \in Uses[Body[q]] : disk'[a] # Absent
        BY <1>5, <2>3, <3>1, PromptStep, Zenon DEF Ready, Files, Names
      <3> QED BY <2>3, <3>2, <3>3, Zenon DEF Ready
    <2>5. disk'[PromptPath[Body[q]]] # Absent
      BY <1>5, PromptStep, Zenon
    <2>6. pc'[q] # "prompt"
      BY <2>2
    <2> QED BY <1>1, <1>2, <2>2, <2>4, <2>5, <2>6, Zenon
  <1>6. CASE WriteDefinition(q) \/ WriteFails(q) \/ Reload(q) \/ ReloadFails(q)
    <2>1. /\ pc[q] \in {"prompt", "definition", "reload"}
          /\ \E s \in {"reload", "done"} : pc' = [pc EXCEPT ![q] = s]
      BY <1>6, Zenon DEF WriteDefinition, WriteFails, Reload, ReloadFails, Respond
    <2>2. \A r \in Requests : pc'[r] \notin {"prompt", "definition"}
      BY <1>0, <2>1
    <2> QED BY <1>1, <1>2, <2>2, Zenon
  <1> QED BY <1>3, <1>4, <1>5, <1>6, Zenon DEF Handler

\* The process and the jobs leave the files alone.
LEMMA LoadOthers ==
  ASSUME RegInv, Start \/ Crash \/ \E j \in Jobs : RunPipeline(j) \/ RunAgent(j) \/ EndJob(j)
  PROVE  FilesFit' /\ AgentsStay' /\ ReadyToWrite' /\ JobsFound'
  <1>0. /\ AgentsStay /\ ReadyToWrite /\ JobsFound
        /\ jpc \in [Jobs -> {"new", "running", "done"}] /\ started \in [Jobs -> Snapshots]
    BY Zenon DEF RegInv, TypeOK
  <1>1. ASSUME UNCHANGED <<disk, overwritten>>,
               \A q \in Requests : pc'[q] \in {"prompt", "definition"} => pc'[q] = pc[q]
        PROVE  FilesFit' /\ ReadyToWrite'
    <2>1. ReadyToWrite'
      BY <1>0, <1>1, Zenon DEF ReadyToWrite, SchemaFits, Compiles
    <2> QED BY <1>1, <2>1, FitFrame, Zenon
  <1>2. ASSUME UNCHANGED <<disk, api>> PROVE AgentsStay'
    BY <1>0, <1>2, Zenon DEF AgentsStay
  <1>3. ASSUME \A j \in Jobs : jpc'[j] = "running" => jpc[j] = "running" /\ started'[j] = started[j]
        PROVE  JobsFound'
    BY <1>0, <1>3, Zenon DEF JobsFound
  <1>4. CASE Start
    <2>1. UNCHANGED <<disk, overwritten, pc, jpc, started>> /\ api' = Loaded
      BY <1>4, Zenon DEF Start, handlers, history, jobs
    <2> QED BY <1>1, <1>3, <2>1, StayLoaded, Zenon
  <1>5. CASE Crash
    <2>1. /\ UNCHANGED <<disk, overwritten, started>> /\ api' = Empty
          /\ pc' = [q \in Requests |-> IF pc[q] = "new" THEN "new" ELSE "done"]
          /\ jpc' = [j \in Jobs |-> IF jpc[j] = "new" THEN "new" ELSE "done"]
      BY <1>5, Zenon DEF Crash
    <2>2. \A a \in Agents : Empty.definitions[a] = Absent
      BY DEF Empty, Names
    <2>3. AgentsStay'
      BY <2>1, <2>2, Zenon DEF AgentsStay
    <2>4. /\ \A q \in Requests : pc'[q] \notin {"prompt", "definition"}
          /\ \A j \in Jobs : jpc'[j] # "running"
      BY <2>1
    <2> QED BY <1>1, <1>3, <2>1, <2>3, <2>4, Zenon
  <1>6. ASSUME NEW j \in Jobs, RunPipeline(j)
        PROVE  FilesFit' /\ AgentsStay' /\ ReadyToWrite' /\ JobsFound'
    <2>1. /\ UNCHANGED <<disk, overwritten, pc, api>>
          /\ engine.definitions[JobPipeline[j]] # Absent
          /\ jpc' = [jpc EXCEPT ![j] = "running"]
          /\ started' = [started EXCEPT ![j] = engine]
      BY <1>6, Zenon DEF RunPipeline, process, handlers, history
    <2>2. /\ started'[j] = engine
          /\ \A i \in Jobs : i # j => jpc'[i] = jpc[i] /\ started'[i] = started[i]
      BY <1>0, <2>1, Zenon
    <2>3. JobsFound'
      BY <1>0, <2>1, <2>2, Zenon DEF JobsFound
    <2> QED BY <1>1, <1>2, <2>1, <2>3, Zenon
  <1>7. ASSUME NEW j \in Jobs, RunAgent(j) \/ EndJob(j)
        PROVE  FilesFit' /\ AgentsStay' /\ ReadyToWrite' /\ JobsFound'
    <2>1. /\ UNCHANGED <<disk, overwritten, pc, api, started>>
          /\ jpc' = jpc \/ jpc' = [jpc EXCEPT ![j] = "done"]
      BY <1>7, Zenon DEF RunAgent, EndJob, process, handlers, history
    <2>2. \A i \in Jobs : jpc'[i] = "running" => jpc[i] = "running"
      BY <1>0, <2>1
    <2> QED BY <1>1, <1>2, <1>3, <2>1, <2>2, Zenon
  <1> QED BY <1>4, <1>5, <1>6, <1>7, Zenon

\* RegInv holds in every reachable state: the types, the files that fit
\* together and what makes them so, for any paths of prompts and schemas, any
\* requests, crashes and failing writes.
THEOREM RegistryInvariant == Spec => []RegInv
  <1>1. RegCore /\ [Next]_vars => RegCore'
    <2> SUFFICES ASSUME RegCore, RegInv, [Next]_vars PROVE RegCore'
      BY CoreIsInv, Zenon
    <2>1. CASE \E q \in Requests : Handler(q)
      BY <2>1, TypeHandler, LoadHandler, ReadyHandler, Zenon DEF RegCore
    <2>2. CASE Start \/ Crash \/ \E j \in Jobs : RunPipeline(j) \/ RunAgent(j) \/ EndJob(j)
      BY <2>2, TypeOthers, LoadOthers, Zenon DEF RegCore
    <2>3. CASE UNCHANGED vars
      <3>1. TypeOK'
        BY <2>3, Zenon DEF RegCore, vars, TypeOK
      <3>2. FilesFit'
        BY <2>3, FitFrame, Zenon DEF vars
      <3>3. AgentsStay' /\ ReadyToWrite' /\ JobsFound'
        BY <2>3, Zenon DEF RegCore, vars, AgentsStay, ReadyToWrite, JobsFound, SchemaFits, Compiles
      <3> QED BY <3>1, <3>2, <3>3, Zenon DEF RegCore
    <2> QED BY <2>1, <2>2, <2>3, Zenon DEF Next
  <1> QED BY InitInv, CoreIsInv, <1>1, PTL DEF Spec

\* The files of the registry load at every moment, so that a process that
\* stops anywhere, between the two files of WriteBlueprint too, starts again;
\* the one exception is a write whose prompt_path or output_schema named the
\* file of a definition or a schema in use.
THEOREM RegistryLoads == Spec => []DiskLoads
  <1>1. RegInv => DiskLoads
    BY Zenon DEF RegInv
  <1> QED BY RegistryInvariant, <1>1, PTL
-----------------------------------------------------------------------------
\* Every variable of the registry keeps its type, and a request is past its
\* validation exactly while it holds the lock.
COROLLARY TypeCorrect == Spec => []TypeOK
  <1>1. RegInv => TypeOK
    BY Zenon DEF RegInv
  <1> QED BY <1>1, RegistryInvariant, PTL

\* No request is under way in a process that is down, and an answer is a
\* request's last step.
LockInv ==
    /\ ~up => lock = NoRequest /\ \A q \in Requests : pc[q] \in {"new", "done"}
    /\ \A q \in Requests : pc[q] # "done" => response[q] = 0

\* Requests, crashes and jobs keep it so.
LEMMA LockStep == RegInv /\ LockInv /\ [Next]_vars => LockInv'
  <1> SUFFICES ASSUME RegInv, LockInv, [Next]_vars PROVE LockInv'
    BY Zenon
  <1>1. CASE UNCHANGED vars \/ \E j \in Jobs : RunPipeline(j) \/ RunAgent(j) \/ EndJob(j)
    <2>1. UNCHANGED <<up, lock, pc, response>>
      BY <1>1, Zenon DEF vars, RunPipeline, RunAgent, EndJob, process, handlers
    <2> QED BY <2>1, Zenon DEF LockInv
  <1>2. CASE Start
    <2>1. up' = TRUE /\ UNCHANGED <<lock, pc, response>>
      BY <1>2, Zenon DEF Start, handlers
    <2> QED BY <2>1, Zenon DEF LockInv
  <1>3. CASE Crash
    <2>1. /\ lock' = NoRequest /\ UNCHANGED response
          /\ pc' = [q \in Requests |-> IF pc[q] = "new" THEN "new" ELSE "done"]
      BY <1>3, Zenon DEF Crash
    <2>2. \A q \in Requests : (pc'[q] = "new" /\ pc[q] = "new") \/ pc'[q] = "done"
      BY <2>1, Zenon
    <2> QED BY <2>1, <2>2 DEF LockInv
  <1> USE RegistryAssumption
      DEF RegInv, TypeOK, LockInv, Respond, process, handlers, history, jobs
  <1>4. ASSUME NEW q \in Requests, Refuse(q) \/ Check(q) \/ Invalid(q) PROVE LockInv'
    BY <1>4 DEF Refuse, Check, Invalid
  <1>5. ASSUME NEW q \in Requests, Begin(q) PROVE LockInv'
    BY <1>5 DEF Begin
  <1>6. ASSUME NEW q \in Requests, WritePrompt(q) \/ WriteDefinition(q) PROVE LockInv'
    BY <1>6 DEF WritePrompt, WriteDefinition
  <1>7. ASSUME NEW q \in Requests, WriteFails(q) PROVE LockInv'
    BY <1>7 DEF WriteFails
  <1>8. ASSUME NEW q \in Requests, Reload(q) PROVE LockInv'
    BY <1>8 DEF Reload
  <1>9. ASSUME NEW q \in Requests, ReloadFails(q) PROVE LockInv'
    BY <1>9 DEF ReloadFails
  <1> HIDE DEF RegInv, TypeOK, LockInv
  <1> QED BY <1>1, <1>2, <1>3, <1>4, <1>5, <1>6, <1>7, <1>8, <1>9, Zenon DEF Next, Handler

-----------------------------------------------------------------------------
\* On disk a blueprint has the prompt of its own write, while no request is
\* between the two files of the agent.
WholeOnDisk ==
    \A a \in Agents \ (torn \cup overwritten) :
        disk[a] # Absent /\ Prompted(a, PromptPath[disk[a].text]) =>
            \/ disk[PromptPath[disk[a].text]].by = disk[a].by
            \/ \E q \in Requests : Tears(q) /\ Target[q] = a

\* The prompt that is on disk before its blueprint is the request's own.
PromptWritten ==
    \A q \in Requests : Tears(q) => disk[PromptPath[Body[q]]].by = q

\* What leaves the files, the snapshots and the half-written agents alone.
LEMMA WholeFrame ==
  ASSUME WholeOnDisk, PromptWritten, WholeAgents,
         UNCHANGED <<disk, api, engine, torn, overwritten>>,
         \A q \in Requests : Tears(q)' <=> Tears(q)
  PROVE  WholeOnDisk' /\ PromptWritten' /\ WholeAgents'
  <1>1. PromptWritten'
    BY Zenon DEF PromptWritten
  <1>2. WholeAgents'
    BY SMT DEF WholeAgents, Prompted
  <1> QED BY <1>1, <1>2, Zenon DEF WholeOnDisk, Prompted

\* Snapshots that stay stay whole.
LEMMA ServedWhole ==
  ASSUME WholeAgents, UNCHANGED <<api, engine>>,
         torn \subseteq torn', overwritten \subseteq overwritten'
  PROVE  WholeAgents'
  <1>1. \A a \in Agents \ (torn' \cup overwritten') : a \in Agents \ (torn \cup overwritten)
    BY Zenon
  <1> QED BY <1>1, SMT DEF WholeAgents, Prompted

\* Only the request that holds the lock is between its two files.
LEMMA TearsAlone ==
  ASSUME RegInv
  PROVE  /\ pc \in [Requests -> {"new", "checked", "prompt", "definition", "reload", "done"}]
         /\ \A q \in Requests : pc[q] \in {"prompt", "definition", "reload"} => lock = q
         /\ \A q \in Requests : Tears(q) => lock = q
  <1>1. /\ pc \in [Requests -> {"new", "checked", "prompt", "definition", "reload", "done"}]
        /\ \A q \in Requests : pc[q] \in {"prompt", "definition", "reload"} <=> lock = q
    BY Zenon DEF RegInv, TypeOK
  <1>2. \A q \in Requests : Tears(q) => pc[q] \in {"prompt", "definition", "reload"}
    BY Zenon DEF Tears
  <1> QED BY <1>1, <1>2, Zenon

\* Snapshots of files that are whole are whole.
LEMMA WholeLoaded ==
  ASSUME RegInv, WholeOnDisk, \A q \in Requests : ~Tears(q),
         api' = Loaded, engine' = Loaded, UNCHANGED <<torn, overwritten>>
  PROVE  WholeAgents'
  <1>1. ASSUME NEW a \in Agents \ (torn \cup overwritten), Loaded.definitions[a] # Absent,
               Prompted(a, PromptPath[Loaded.definitions[a].text])
        PROVE  Loaded.prompts[a].by = Loaded.definitions[a].by
    <2>1. /\ Loaded.definitions[a] = disk[a]
          /\ disk[a] # Absent => Loaded.prompts[a] = disk[PromptPath[disk[a].text]]
      BY DEF Loaded, Names
    <2>2. disk[a] # Absent /\ Prompted(a, PromptPath[disk[a].text])
      BY <1>1, <2>1, Zenon
    <2>3. disk[PromptPath[disk[a].text]].by = disk[a].by
      BY <1>1, <2>2, Zenon DEF WholeOnDisk
    <2> QED BY <2>1, <2>2, <2>3, Zenon
  <1>2. ASSUME NEW s \in {api', engine'}, NEW a \in Agents \ (torn' \cup overwritten'),
               s.definitions[a] # Absent, Prompted(a, PromptPath[s.definitions[a].text])
        PROVE  s.prompts[a].by = s.definitions[a].by
    <2>1. s = Loaded /\ a \in Agents \ (torn \cup overwritten)
      BY <1>2, Zenon
    <2> QED BY <1>1, <1>2, <2>1, Zenon
  <1> QED BY <1>2 DEF WholeAgents, Prompted

\* A request keeps the two files of an agent together.
LEMMA WholeHandler ==
  ASSUME RegInv, LockInv, WholeOnDisk, PromptWritten, WholeAgents,
         NEW q \in Requests, Handler(q)
  PROVE  WholeOnDisk' /\ PromptWritten' /\ WholeAgents'
  <1>0. /\ pc \in [Requests -> {"new", "checked", "prompt", "definition", "reload", "done"}]
        /\ pc[q] \in {"prompt", "definition", "reload"} =>
              lock = q /\ \A p \in Requests : Tears(p) => p = q
    BY TearsAlone, Zenon
  <1>1. CASE Refuse(q) \/ Check(q) \/ Invalid(q) \/ ReloadFails(q)
    <2>1. /\ pc[q] \in {"new", "checked", "reload"}
          /\ \E s \in {"checked", "done"} : pc' = [pc EXCEPT ![q] = s]
          /\ UNCHANGED <<disk, api, engine, torn, overwritten>>
      BY <1>1, Zenon DEF Refuse, Check, Invalid, ReloadFails, Respond, process, history
    <2>2. \A p \in Requests : Tears(p)' <=> Tears(p)
      BY <1>0, <2>1 DEF Tears
    <2> QED BY <2>1, <2>2, WholeFrame, Zenon
  <1>2. CASE Begin(q)
    <2>1. /\ pc[q] = "checked"
          /\ pc' = [pc EXCEPT ![q] = IF Prompt[q] # NoPrompt THEN "prompt" ELSE "definition"]
          /\ UNCHANGED <<disk, api, engine, torn, overwritten>>
      BY <1>2, Zenon DEF Begin, process, history
    <2>2. \A p \in Requests : Tears(p)' <=> Tears(p)
      BY <1>0, <2>1 DEF Tears
    <2> QED BY <2>1, <2>2, WholeFrame, Zenon
  <1>3. CASE WritePrompt(q)
    <2> DEFINE f == PromptPath[Body[q]]
    <2>1. /\ pc[q] = "prompt" /\ pc' = [pc EXCEPT ![q] = "definition"]
          /\ UNCHANGED <<api, engine, torn>>
      BY <1>3, Zenon DEF WritePrompt, process
    <2>2. /\ Prompt[q] # NoPrompt /\ disk'[f].by = q
          /\ \A g \in Files : g # f => disk'[g] = disk[g]
          /\ overwritten \subseteq overwritten' /\ (f \in Names => f \in overwritten')
      BY <1>3, PromptStep, Zenon
    <2>3. /\ \A p \in Requests : ~Tears(p)
          /\ Tears(q)' /\ \A p \in Requests : Tears(p)' => p = q
      <3>1. ~Tears(q)
        BY <2>1 DEF Tears
      <3>2. Tears(q)' /\ \A p \in Requests : p # q => pc'[p] = pc[p]
        BY <1>0, <2>1, <2>2 DEF Tears
      <3> QED BY <1>0, <2>1, <3>1, <3>2, Zenon DEF Tears
    <2>4. PromptWritten' /\ WholeAgents'
      BY <2>1, <2>2, <2>3, ServedWhole, Zenon DEF PromptWritten
    <2>5. ASSUME NEW a \in Agents \ (torn \cup overwritten'), disk'[a] # Absent,
                 Prompted(a, PromptPath[disk'[a].text])
          PROVE  \/ disk'[PromptPath[disk'[a].text]].by = disk'[a].by
                 \/ Tears(q)' /\ Target[q] = a
      <3>1. a \in Files /\ a # f /\ a \in Agents \ (torn \cup overwritten)
        BY <2>2, <2>5, Zenon DEF Files, Names
      <3>2. disk'[a] = disk[a] /\ disk[a] # Absent
        BY <2>2, <2>5, <3>1, Zenon
      <3>3. PromptPath[disk[a].text] \in Files
        BY <3>1, <3>2, TextType, Zenon DEF RegInv
      <3>4. CASE PromptPath[disk[a].text] = f
        BY <2>2, <2>3, <2>5, <3>2, <3>4, Zenon DEF Prompted
      <3>5. CASE PromptPath[disk[a].text] # f
        BY <2>2, <2>3, <2>5, <3>1, <3>2, <3>3, <3>5, Zenon DEF WholeOnDisk
      <3> QED BY <3>4, <3>5, Zenon
    <2>6. WholeOnDisk'
      BY <2>1, <2>5, Zenon DEF WholeOnDisk, Prompted
    <2> QED BY <2>4, <2>6, Zenon
  <1>4. CASE WriteDefinition(q)
    <2>1. /\ pc[q] = "definition" /\ pc' = [pc EXCEPT ![q] = "reload"]
          /\ UNCHANGED <<api, engine, torn>>
      BY <1>4, Zenon DEF WriteDefinition, process
    <2>2. /\ disk'[Target[q]].text = Body[q] /\ disk'[Target[q]].by = q
          /\ \A g \in Files : g # Target[q] => disk'[g] = disk[g]
          /\ overwritten \subseteq overwritten'
          /\ Target[q] \in Names /\ PromptPath[Body[q]] \in Files
      BY <1>4, DefinitionStep, RequestType, Zenon
    <2>3. \A p \in Requests : ~Tears(p)'
      <3>1. pc'[q] = "reload" /\ \A p \in Requests : p # q => pc'[p] = pc[p]
        BY <1>0, <2>1
      <3> QED BY <1>0, <2>1, <3>1 DEF Tears
    <2>4. PromptWritten' /\ WholeAgents'
      BY <2>1, <2>2, <2>3, ServedWhole, Zenon DEF PromptWritten
    <2>5. ASSUME NEW a \in Agents \ (torn \cup overwritten'), disk'[a] # Absent,
                 Prompted(a, PromptPath[disk'[a].text])
          PROVE  disk'[PromptPath[disk'[a].text]].by = disk'[a].by
      <3>0. PromptPath[disk'[a].text] # Target[q]
        BY <2>2, <2>5, Zenon DEF Prompted
      <3>1. CASE a = Target[q]
        <4>1. Prompt[q] # NoPrompt
          BY <2>5, <3>1, Zenon DEF Prompted
        <4>2. disk[PromptPath[Body[q]]].by = q
          BY <2>1, <4>1, Zenon DEF PromptWritten, Tears
        <4> QED BY <2>2, <3>0, <3>1, <4>2, Zenon
      <3>2. CASE a # Target[q]
        <4>1. a \in Files /\ a \in Agents \ (torn \cup overwritten)
          BY <2>2, <2>5, Zenon DEF Files, Names
        <4>2. disk'[a] = disk[a] /\ disk[a] # Absent
          BY <2>2, <2>5, <3>2, <4>1, Zenon
        <4>3. PromptPath[disk[a].text] \in Files
          BY <4>1, <4>2, TextType, Zenon DEF RegInv
        <4>4. disk[PromptPath[disk[a].text]].by = disk[a].by
          BY <1>0, <2>1, <2>5, <3>2, <4>1, <4>2, Zenon DEF WholeOnDisk
        <4> QED BY <2>2, <3>0, <4>2, <4>3, <4>4, Zenon
      <3> QED BY <3>1, <3>2, Zenon
    <2>6. WholeOnDisk'
      BY <2>1, <2>5, Zenon DEF WholeOnDisk, Prompted
    <2> QED BY <2>4, <2>6, Zenon
  <1>5. CASE WriteFails(q)
    <2>1. /\ pc[q] \in {"prompt", "definition"} /\ pc' = [pc EXCEPT ![q] = "done"]
          /\ torn' = IF Tears(q) THEN torn \cup {Target[q]} ELSE torn
          /\ UNCHANGED <<disk, api, engine, overwritten>>
      BY <1>5, Zenon DEF WriteFails, Respond, process
    <2>2. \A p \in Requests : ~Tears(p)'
      <3>1. pc'[q] = "done" /\ \A p \in Requests : p # q => pc'[p] = pc[p]
        BY <1>0, <2>1
      <3> QED BY <1>0, <2>1, <3>1 DEF Tears
    <2>3. torn \subseteq torn' /\ overwritten \subseteq overwritten'
      BY <2>1, Zenon
    <2>4. PromptWritten' /\ WholeAgents'
      BY <2>1, <2>2, <2>3, ServedWhole, Zenon DEF PromptWritten
    <2>5. ASSUME NEW a \in Agents \ (torn' \cup overwritten), disk[a] # Absent,
                 Prompted(a, PromptPath[disk[a].text])
          PROVE  disk[PromptPath[disk[a].text]].by = disk[a].by
      <3>1. a \in Agents \ (torn \cup overwritten) /\ (Tears(q) => a # Target[q])
        BY <2>1, <2>5, Zenon
      <3> QED BY <1>0, <2>1, <2>5, <3>1, Zenon DEF WholeOnDisk
    <2>6. WholeOnDisk'
      BY <2>1, <2>5, Zenon DEF WholeOnDisk, Prompted
    <2> QED BY <2>4, <2>6, Zenon
  <1>6. CASE Reload(q)
    <2>1. /\ pc[q] = "reload" /\ pc' = [pc EXCEPT ![q] = "done"]
          /\ api' = Loaded /\ engine' = Loaded
          /\ UNCHANGED <<disk, torn, overwritten>>
      BY <1>6, Zenon DEF Reload, Respond, history
    <2>2. \A p \in Requests : ~Tears(p) /\ ~Tears(p)'
      <3>1. pc'[q] = "done" /\ \A p \in Requests : p # q => pc'[p] = pc[p]
        BY <1>0, <2>1
      <3>2. \A p \in Requests : ~Tears(p)
        BY <1>0, <2>1 DEF Tears
      <3> QED BY <3>1, <3>2 DEF Tears
    <2>3. WholeAgents'
      BY <2>1, <2>2, WholeLoaded, Zenon
    <2> QED BY <2>1, <2>2, <2>3, Zenon DEF WholeOnDisk, PromptWritten, Prompted
  <1> QED BY <1>1, <1>2, <1>3, <1>4, <1>5, <1>6, Zenon DEF Handler

\* A restart serves what is on disk; a crash counts what it tore.
LEMMA WholeOthers ==
  ASSUME RegInv, LockInv, WholeOnDisk, PromptWritten, WholeAgents,
         Start \/ Crash \/ (\E j \in Jobs : RunPipeline(j) \/ RunAgent(j) \/ EndJob(j))
           \/ UNCHANGED vars
  PROVE  WholeOnDisk' /\ PromptWritten' /\ WholeAgents'
  <1>1. CASE Start
    <2>1. /\ ~up /\ api' = Loaded /\ engine' = Loaded
          /\ UNCHANGED <<disk, torn, overwritten, pc>>
      BY <1>1, Zenon DEF Start, handlers, history
    <2>2. \A p \in Requests : ~Tears(p) /\ ~Tears(p)'
      BY <2>1, Zenon DEF LockInv, Tears
    <2>3. WholeAgents'
      BY <2>1, <2>2, WholeLoaded, Zenon
    <2> QED BY <2>1, <2>2, <2>3, Zenon DEF WholeOnDisk, PromptWritten, Prompted
  <1>2. CASE Crash
    <2>1. /\ api' = Empty /\ engine' = Empty /\ UNCHANGED <<disk, overwritten>>
          /\ torn' = torn \cup {Target[q] : q \in {q \in Requests : Tears(q)}}
          /\ pc' = [q \in Requests |-> IF pc[q] = "new" THEN "new" ELSE "done"]
      BY <1>2, Zenon DEF Crash
    <2>2. \A p \in Requests : ~Tears(p)'
      BY <2>1 DEF Tears
    <2>3. WholeAgents'
      <3>1. \A a \in Agents : Empty.definitions[a] = Absent
        BY DEF Empty, Names
      <3> QED BY <2>1, <3>1, Zenon DEF WholeAgents
    <2>4. ASSUME NEW a \in Agents \ (torn' \cup overwritten), disk[a] # Absent,
                 Prompted(a, PromptPath[disk[a].text])
          PROVE  disk[PromptPath[disk[a].text]].by = disk[a].by
      <3>1. a \in Agents \ (torn \cup overwritten) /\ \A p \in Requests : Tears(p) => a # Target[p]
        BY <2>1, <2>4, Zenon
      <3> QED BY <2>4, <3>1, Zenon DEF WholeOnDisk
    <2>5. PromptWritten'
      BY <2>2, Zenon DEF PromptWritten
    <2>6. WholeOnDisk'
      BY <2>1, <2>4, Zenon DEF WholeOnDisk, Prompted
    <2> QED BY <2>3, <2>5, <2>6, Zenon
  <1>3. CASE UNCHANGED vars \/ \E j \in Jobs : RunPipeline(j) \/ RunAgent(j) \/ EndJob(j)
    <2>1. UNCHANGED <<disk, api, engine, torn, overwritten, pc>>
      BY <1>3, Zenon DEF vars, RunPipeline, RunAgent, EndJob, process, handlers, history
    <2>2. \A p \in Requests : Tears(p)' <=> Tears(p)
      BY <2>1, Zenon DEF Tears
    <2> QED BY <2>1, <2>2, WholeFrame, Zenon
  <1> QED BY <1>1, <1>2, <1>3, Zenon

\* Nothing is under way in a process that has not started.
LEMMA LockInit == Init => LockInv
  BY Zenon DEF Init, LockInv

\* The API and the engine never serve a blueprint with the prompt of another
\* write, for any interleaving of requests, jobs, failures and crashes.
THEOREM AgentsAreWhole == Spec => []WholeAgents
  <1>1. Init => WholeOnDisk /\ PromptWritten /\ WholeAgents
    <2> SUFFICES ASSUME Init PROVE WholeOnDisk /\ PromptWritten /\ WholeAgents
      BY Zenon
    <2>1. WholeAgents
      BY DEF Init, WholeAgents, Empty, Names
    <2>2. PromptWritten
      BY DEF Init, PromptWritten, Tears
    <2>3. PICK o \in Originals :
              disk = [f \in Files |-> IF o[f] = Absent THEN Absent
                                      ELSE [text |-> o[f], by |-> NoRequest]]
      BY Zenon DEF Init
    <2>4. \A f \in Files : disk[f] # Absent => disk[f].by = NoRequest
      BY <2>3
    <2>5. TypeOK /\ Loadable
      BY InitInv, Zenon DEF RegCore, Init
    <2>6. ASSUME NEW a \in Agents, disk[a] # Absent
          PROVE  disk[PromptPath[disk[a].text]].by = disk[a].by
      <3>1. a \in Files
        BY Zenon DEF Files, Names
      <3>2. PromptPath[disk[a].text] \in Files /\ disk[PromptPath[disk[a].text]] # Absent
        BY <2>5, <2>6, <3>1, TextType, Zenon DEF Loadable, LoadsBlueprint
      <3> QED BY <2>4, <2>6, <3>1, <3>2, Zenon
    <2> QED BY <2>1, <2>2, <2>6, Zenon DEF WholeOnDisk
  <1>2. RegInv /\ LockInv /\ WholeOnDisk /\ PromptWritten /\ WholeAgents /\ [Next]_vars
            => WholeOnDisk' /\ PromptWritten' /\ WholeAgents'
    BY WholeHandler, WholeOthers, Zenon DEF Next
  <1> QED BY LockInit, LockStep, <1>1, <1>2, RegistryInvariant, PTL DEF Spec
-----------------------------------------------------------------------------
\* No request failed after it had changed a file.
Clean == torn = {} /\ \A q \in Requests : response[q] # 500

\* The request that holds the lock has not changed a file yet.
Untouched ==
    \A q \in Requests : lock = q =>
        pc[q] = "prompt" \/ (pc[q] = "definition" /\ ~Tears(q))

\* The snapshots are what is on disk until a request writes.
DiskServed == up /\ Clean /\ Untouched => api = Loaded /\ engine = Loaded

\* What Load would return depends on the files alone.
LEMMA SameLoaded == UNCHANGED disk => Loaded' = Loaded
  BY Zenon DEF Loaded

\* What leaves the files and the snapshots alone.
LEMMA ServedFrame ==
  ASSUME DiskServed, UNCHANGED <<disk, api, engine>>,
         up' /\ Clean' /\ Untouched' => up /\ Clean /\ Untouched
  PROVE  DiskServed'
  BY SameLoaded, Zenon DEF DiskServed

\* A request leaves the snapshots behind only while it holds the lock.
LEMMA ServedHandler ==
  ASSUME RegInv, LockInv, DiskServed, NEW q \in Requests, Handler(q)
  PROVE  DiskServed'
  <1>0. /\ pc \in [Requests -> {"new", "checked", "prompt", "definition", "reload", "done"}]
        /\ response \in [Requests -> {0, 200, 400, 404, 409, 500}]
        /\ \A p \in Requests : pc[p] \in {"prompt", "definition", "reload"} => lock = p
        /\ \A p \in Requests : pc[p] # "done" => response[p] = 0
        /\ NoRequest \notin Requests
    BY TearsAlone, RegistryAssumption, Zenon DEF RegInv, TypeOK, LockInv
  <1>1. ASSUME NEW p \in Requests, pc[p] # "done", torn' = {} => torn = {},
               \A o \in Requests \ {p} : response'[o] = response[o], Clean'
        PROVE  Clean
    <2>1. response[p] # 500
      BY <1>0, <1>1
    <2> QED BY <1>1, <2>1 DEF Clean
  <1>2. CASE Refuse(q) \/ Check(q) \/ Invalid(q) \/ Begin(q)
    <2>1. /\ UNCHANGED <<disk, up, api, engine, torn>>
          /\ pc[q] \in {"new", "checked"} /\ lock = NoRequest
      BY <1>2, Zenon DEF Refuse, Check, Invalid, Begin, process, history
    <2>2. pc[q] # "done" /\ \A p \in Requests \ {q} : response'[p] = response[p]
      <3>1. response' = response \/ \E c : response' = [response EXCEPT ![q] = c]
        BY <1>2 DEF Refuse, Check, Invalid, Begin, Respond
      <3> QED BY <1>0, <2>1, <3>1
    <2>3. Untouched
      BY <2>1, RegistryAssumption, Zenon DEF Untouched
    <2> QED BY <1>1, <2>1, <2>2, <2>3, ServedFrame, Zenon
  <1>3. CASE WritePrompt(q)
    <2>1. /\ pc[q] = "prompt" /\ pc' = [pc EXCEPT ![q] = "definition"] /\ lock' = lock
      BY <1>3, Zenon DEF WritePrompt
    <2>2. Prompt[q] # NoPrompt /\ lock = q
      BY <1>0, <2>1, Zenon DEF RegInv, ReadyToWrite, LockInv
    <2>3. Tears(q)' /\ pc'[q] = "definition"
      BY <1>0, <2>1, <2>2 DEF Tears
    <2>4. ~Untouched'
      BY <2>1, <2>2, <2>3 DEF Untouched
    <2> QED BY <2>4, Zenon DEF DiskServed
  <1>4. CASE WriteDefinition(q)
    <2>1. pc[q] = "definition" /\ pc' = [pc EXCEPT ![q] = "reload"] /\ lock' = lock
      BY <1>4, Zenon DEF WriteDefinition
    <2>2. lock = q /\ pc'[q] = "reload"
      BY <1>0, <2>1
    <2>3. ~Untouched'
      BY <2>1, <2>2 DEF Untouched
    <2> QED BY <2>3, Zenon DEF DiskServed
  <1>5. CASE WriteFails(q)
    <2>1. /\ UNCHANGED <<disk, up, api, engine>>
          /\ pc[q] \in {"prompt", "definition"}
          /\ torn' = IF Tears(q) THEN torn \cup {Target[q]} ELSE torn
          /\ response' = [response EXCEPT ![q] = 400]
      BY <1>5, Zenon DEF WriteFails, Respond, process
    <2>2. /\ pc[q] # "done" /\ lock = q
          /\ \A p \in Requests \ {q} : response'[p] = response[p]
      BY <1>0, <2>1
    <2>3. torn' = {} => torn = {} /\ ~Tears(q)
      BY <2>1, Zenon
    <2>4. ~Tears(q) => Untouched
      BY <2>1, <2>2, Zenon DEF Untouched
    <2>5. Clean' => Clean /\ ~Tears(q)
      <3>1. Clean' => torn' = {}
        BY Zenon DEF Clean
      <3> QED BY <1>1, <2>2, <2>3, <3>1, Zenon
    <2> QED BY <2>1, <2>4, <2>5, ServedFrame, Zenon
  <1>6. CASE Reload(q)
    <2>1. api' = Loaded /\ engine' = Loaded /\ UNCHANGED disk
      BY <1>6, Zenon DEF Reload
    <2> QED BY <2>1, SameLoaded, Zenon DEF DiskServed
  <1>7. CASE ReloadFails(q)
    <2>1. response' = [response EXCEPT ![q] = 500]
      BY <1>7, Zenon DEF ReloadFails, Respond
    <2>2. response'[q] = 500
      BY <1>0, <2>1
    <2>3. ~Clean'
      BY <2>2 DEF Clean
    <2> QED BY <2>3, Zenon DEF DiskServed
  <1> QED BY <1>2, <1>3, <1>4, <1>5, <1>6, <1>7, Zenon DEF Handler

\* Between requests the API and the engine serve what a fresh start would
\* load, unless a request failed half-way.
THEOREM DiskIsServed == Spec => []ServedIsDisk
  <1>1. Init => DiskServed
    BY Zenon DEF Init, DiskServed
  <1>2. RegInv /\ LockInv /\ DiskServed /\ [Next]_vars => DiskServed'
    <2> SUFFICES ASSUME RegInv, LockInv, DiskServed, [Next]_vars PROVE DiskServed'
      BY Zenon
    <2> USE DEF DiskServed, process, handlers, history, jobs
    <2>1. CASE Start
      BY <2>1, Zenon DEF Start, Loaded
    <2>2. CASE Crash
      BY <2>2, Zenon DEF Crash
    <2>3. CASE UNCHANGED vars \/ \E j \in Jobs : RunPipeline(j) \/ RunAgent(j) \/ EndJob(j)
      <3>1. UNCHANGED <<disk, up, api, engine, lock, pc, response, torn>>
        BY <2>3, Zenon DEF vars, RunPipeline, RunAgent, EndJob
      <3>2. up' /\ Clean' /\ Untouched' => up /\ Clean /\ Untouched
        BY <3>1 DEF Clean, Untouched, Tears
      <3> QED BY <3>1, <3>2, ServedFrame, Zenon
    <2> QED BY <2>1, <2>2, <2>3, ServedHandler, Zenon DEF Next
  <1>3. RegInv /\ DiskServed => ServedIsDisk
    <2>1. lock = NoRequest => Untouched
      BY RegistryAssumption, Zenon DEF Untouched
    <2> QED BY <2>1 DEF DiskServed, ServedIsDisk, Clean
  <1> QED BY LockInit, LockStep, <1>1, <1>2, <1>3, RegistryInvariant, PTL DEF Spec
=============================================================================
