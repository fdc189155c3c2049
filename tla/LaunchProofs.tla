---------------------------- MODULE LaunchProofs ----------------------------
(***************************************************************************)
(* Theorems about Launch, for any wallets, sources, config files and       *)
(* changes by the user.  The inductive invariant says where everything a   *)
(* launch holds comes from: EntryInv of the client's entry, ProcessInv of  *)
(* the running launch, PaidInv of what was signed, NoteInv of what install *)
(* told the user.                                                          *)
(***************************************************************************)
EXTENDS Launch, TLAPS

----------------------------------------------------------------------------
(* References and wallets *)

LEMMA WalletRef == ASSUME NEW ref \in Ref, IsWallet(ref) PROVE ref.of \in Names
  BY DEF Ref, IsWallet

LEMMA KnownWallet ==
  ASSUME NEW config \in Config, NEW name \in Names, Known(config, name)
  PROVE  config.wallets[name] \in Wallet
  BY DEF Config, Known

\* config_path ends at some path, so what a side finds is a config or Bad.
LEMMA FileIsConfig ==
  ASSUME LaunchTypeOK, NEW side \in Sides, FileOn(side) # Bad
  PROVE  FileOn(side) \in Config
  <1>1. environs[side] \in Environ BY LaunchAssumption DEF LaunchTypeOK
  <1>2. ConfigPath(environs[side]) \in Paths BY <1>1 DEF ConfigPath, Environ
  <1>3. QED BY <1>2, LaunchAssumption DEF LaunchTypeOK, FileOn

LEMMA FileInHistory ==
  ASSUME LaunchTypeOK, NEW side \in Sides, \A p \in Paths : files[p] \in history.files
  PROVE  FileOn(side) \in history.files
  <1>1. environs[side] \in Environ BY LaunchAssumption DEF LaunchTypeOK
  <1>2. ConfigPath(environs[side]) \in Paths BY <1>1 DEF ConfigPath, Environ
  <1>3. QED BY <1>2 DEF FileOn

\* resolve_key_ref returns one of the references the user may use, and one that
\* leads to a source.
LEMMA ResolvedRef ==
  ASSUME NEW config \in Config, NEW asked \in Refs \cup {None}, NEW ref \in ResolveKeyRef(config, asked)
  PROVE  ref \in Ref /\ Installable(config, ref)
  <1>1. CASE asked = None
    <2>1. config.default # None /\ ref = [kind |-> "wallet", of |-> config.default]
            /\ Installable(config, ref)
      BY <1>1 DEF ResolveKeyRef
    <2>2. config.default \in Names BY <2>1 DEF Config
    <2>3. QED BY <2>1, <2>2 DEF Ref
  <1>2. CASE asked # None
    BY <1>2, LaunchAssumption DEF ResolveKeyRef
  <1>3. QED BY <1>1, <1>2

LEMMA CeilingType ==
  ASSUME NEW config \in Config, NEW ref \in Ref, NEW max \in Maxes
  PROVE  Ceiling(config, ref, max) \in Maxes
  BY WalletRef, KnownWallet DEF Ceiling, Wallet

\* A launch has a reference, if only the empty one.
LEMMA LaunchedType ==
  ASSUME LaunchTypeOK, registered # None
  PROVE  LET start == Launched(registered, environs["client"])
         IN  start.ref \in Ref /\ start.max \in Maxes
  <1>1. registered \in Entry /\ environs["client"] \in Environ
    BY LaunchAssumption DEF LaunchTypeOK, Sides
  <1>2. EmptyRef \in Ref BY DEF EmptyRef, Ref
  <1>3. /\ registered.ref \in Ref \cup {None} /\ registered.max \in Maxes
        /\ environs["client"].ref \in Ref \cup {None} /\ environs["client"].max \in Maxes
    BY <1>1 DEF Entry, Environ
  <1>4. QED BY <1>2, <1>3 DEF Launched

LEMMA GuardType ==
  ASSUME NEW config \in Config, NEW e, e.ref \in Ref, e.max \in Maxes,
         NEW g \in ResolveGuard(config, e)
  PROVE  g \in Nat \cup {Unset}
  <1>1. e.max \in Maxes /\ e.ref \in Ref OBVIOUS
  <1>2. CASE e.max # None
    BY <1>1, <1>2 DEF ResolveGuard, Parsed, Maxes
  <1>3. CASE e.max = None /\ IsWallet(e.ref) /\ Known(config, e.ref.of)
    <2>1. config.wallets[e.ref.of].max \in Maxes
      BY <1>1, <1>3, WalletRef, KnownWallet DEF Wallet
    <2>2. QED BY <1>3, <2>1 DEF ResolveGuard, Parsed, Maxes
  <1>4. CASE e.max = None /\ ~(IsWallet(e.ref) /\ Known(config, e.ref.of))
    BY <1>4 DEF ResolveGuard
  <1>5. QED BY <1>2, <1>3, <1>4

LEMMA SourceType ==
  ASSUME NEW p \in Process, NEW s \in SourceOf(p)
  PROVE  s \in Sources
  <1>1. p.ref \in Ref /\ p.config \in Config BY DEF Process
  <1>2. CASE p.ref.kind = "source"
    BY <1>1, <1>2 DEF SourceOf, Ref
  <1>3. CASE p.ref.kind # "source"
    <2>1. PICK n \in Names : Known(p.config, n) /\ s = p.config.wallets[n].key
      BY <1>3 DEF SourceOf
    <2>2. p.config.wallets[n] \in Wallet BY <1>1, <2>1, KnownWallet
    <2>3. QED BY <2>1, <2>2 DEF Wallet
  <1>4. QED BY <1>2, <1>3

LEMMA KeyType ==
  ASSUME LaunchTypeOK, NEW p \in Process, NEW s \in Sources
  PROVE  KeyIn(p, s) \in Secrets \cup {None}
  <1>1. CASE s \in RawSources BY <1>1, LaunchAssumption DEF KeyIn
  <1>2. CASE s \notin RawSources /\ s \in EnvSources BY <1>2 DEF KeyIn, Process
  <1>3. CASE s \notin RawSources /\ s \notin EnvSources BY <1>3 DEF KeyIn, LaunchTypeOK, Stores
  <1>4. QED BY <1>1, <1>2, <1>3

----------------------------------------------------------------------------
(* Types *)

\* A launch that has its key found it in the source its reference leads to.
KeyInv == process # None /\ process.key # None => process.source \in SourceOf(process)

\* What install does, and what it leaves behind when it is not cut short.
LEMMA InstallDoes ==
  ASSUME LaunchTypeOK, NEW max \in Maxes, NEW asked \in Refs \cup {None},
         NEW client \in {"print", "claude"}, Install(asked, max, client)
  PROVE  /\ FileOn("shell") \in Config
         /\ \E ref \in Ref :
              /\ Installable(FileOn("shell"), ref)
              /\ PlanOf(FileOn("shell"), ref, max) \in Plan
              /\ printed' \in {printed, PlanOf(FileOn("shell"), ref, max)}
              /\ \/ registered' = registered /\ note' = note
                 \/ /\ registered' = PlanOf(FileOn("shell"), ref, max).entry
                    /\ note' = PlanOf(FileOn("shell"), ref, max).note
              /\ history' = [history EXCEPT !.entries = @ \cup {[ref |-> ref, max |-> max]}]
  <1>1. FileOn("shell") \in Config
    BY FileIsConfig DEF Install, Sides
  <1>2. PICK ref \in ResolveKeyRef(FileOn("shell"), asked) :
          /\ printed' \in {printed, PlanOf(FileOn("shell"), ref, max)}
          /\ \/ registered' = registered /\ note' = note
             \/ /\ registered' = PlanOf(FileOn("shell"), ref, max).entry
                /\ note' = PlanOf(FileOn("shell"), ref, max).note
          /\ history' = [history EXCEPT !.entries = @ \cup {[ref |-> ref, max |-> max]}]
    BY DEF Install
  <1>3. ref \in Ref /\ Installable(FileOn("shell"), ref)
    BY <1>1, ResolvedRef
  <1>4. Ceiling(FileOn("shell"), ref, max) \in Maxes
    BY <1>1, <1>3, CeilingType
  <1>5. PlanOf(FileOn("shell"), ref, max) \in Plan
    BY <1>1, <1>3, <1>4 DEF PlanOf, Plan, Entry, Note
  <1>6. QED BY <1>1, <1>2, <1>3, <1>5

LEMMA LaunchTypeStep == LaunchTypeOK /\ KeyInv /\ [LaunchNext]_launchVars => LaunchTypeOK'
  <1> SUFFICES ASSUME LaunchTypeOK, KeyInv, [LaunchNext]_launchVars PROVE LaunchTypeOK'
    OBVIOUS
  <1>0. ASSUME edits < MaxEdits, edits' = edits + 1 PROVE edits' \in 0 .. MaxEdits
    BY <1>0, LaunchAssumption DEF LaunchTypeOK
  <1>1. ASSUME NEW max \in Maxes, NEW asked \in Refs \cup {None},
               NEW client \in {"print", "claude"}, Install(asked, max, client)
        PROVE  LaunchTypeOK'
    <2>1. PICK ref \in Ref :
            /\ PlanOf(FileOn("shell"), ref, max) \in Plan
            /\ printed' \in {printed, PlanOf(FileOn("shell"), ref, max)}
            /\ \/ registered' = registered /\ note' = note
               \/ /\ registered' = PlanOf(FileOn("shell"), ref, max).entry
                  /\ note' = PlanOf(FileOn("shell"), ref, max).note
            /\ history' = [history EXCEPT !.entries = @ \cup {[ref |-> ref, max |-> max]}]
      BY <1>1, InstallDoes
    <2>2. printed' \in Plan \cup {None} BY <2>1 DEF LaunchTypeOK
    <2>3. registered' \in Entry \cup {None} /\ note' \in Note \cup {None}
      BY <2>1 DEF LaunchTypeOK, Plan
    <2>4. history' \in [files : SUBSET Configs, entries : SUBSET Entry, exported : SUBSET Maxes]
      BY <2>1 DEF LaunchTypeOK, Entry
    <2>5. /\ edits' \in 0 .. MaxEdits
          /\ UNCHANGED <<files, contents, environs, process, held, payments>>
      BY <1>0, <1>1 DEF Install, settings
    <2>6. QED BY <2>2, <2>3, <2>4, <2>5 DEF LaunchTypeOK
  <1>2. ASSUME NEW max \in Maxes, NEW ref \in Refs \cup {None}, EditEntry(ref, max)
        PROVE  LaunchTypeOK'
    <2>1. [ref |-> ref, max |-> max] \in Entry BY LaunchAssumption DEF Entry
    <2>2. QED BY <1>0, <1>2, <2>1 DEF LaunchTypeOK, EditEntry, settings
  <1>3. CASE EditFile
    BY <1>0, <1>3 DEF LaunchTypeOK, EditFile
  <1>3a. CASE Export
    <2>1. environs' \in [Sides -> Environs] BY <1>3a DEF LaunchTypeOK, Export
    <2>2. environs'["client"] \in Environ BY <2>1, LaunchAssumption DEF Sides
    <2>3. history' \in [files : SUBSET Configs, entries : SUBSET Entry, exported : SUBSET Maxes]
      BY <1>3a, <2>2 DEF LaunchTypeOK, Export, Environ
    <2>4. QED BY <1>0, <1>3a, <2>1, <2>3 DEF LaunchTypeOK, Export
  <1>3b. CASE Paste
    BY <1>0, <1>3b DEF LaunchTypeOK, Paste, Plan, settings
  <1>4. CASE Rotate
    <2>1. contents' \in [Stores -> Secrets \cup {None}] BY <1>4 DEF LaunchTypeOK, Rotate
    <2>2. held' \subseteq [store : Stores, key : Secrets \cup {None}]
      BY <1>4, <2>1 DEF LaunchTypeOK, Rotate, Pairs
    <2>3. QED BY <1>0, <1>4, <2>1, <2>2 DEF LaunchTypeOK, Rotate
  <1>5. CASE Serve
    <2>1. FileOn("client") \in Config /\ registered \in Entry
      BY <1>5, FileIsConfig DEF LaunchTypeOK, Serve, Sides
    <2>0. PICK start : start = Launched(registered, environs["client"])
      OBVIOUS
    <2>2. PICK guard \in ResolveGuard(FileOn("client"), start) :
            process' = [ref |-> start.ref, max |-> start.max,
                        exported |-> registered.max = None /\ start.max # None,
                        config |-> FileOn("client"), guard |-> guard,
                        inherited |-> [s \in EnvSources |-> contents[s]],
                        key |-> None, source |-> None]
      BY <1>5, <2>0 DEF Serve
    <2>2a. start.ref \in Ref /\ start.max \in Maxes
      BY <1>5, <2>0, LaunchedType DEF Serve
    <2>3. [s \in EnvSources |-> contents[s]] \in [EnvSources -> Secrets \cup {None}]
      BY LaunchAssumption DEF LaunchTypeOK
    <2>4. process' \in Process
      <3>1. guard \in Nat \cup {Unset} BY <2>1, <2>2, <2>2a, GuardType
      <3>2. QED BY <2>1, <2>2, <2>2a, <2>3, <3>1 DEF Process
    <2>5. held' \subseteq [store : Stores, key : Secrets \cup {None}]
      BY <1>5 DEF LaunchTypeOK, Serve, Pairs
    <2>6. QED BY <1>5, <2>4, <2>5 DEF LaunchTypeOK, Serve, settings
  <1>6. CASE Exit \/ UNCHANGED launchVars
    BY <1>6 DEF LaunchTypeOK, Exit, launchVars, settings
  <1>7. ASSUME NEW amount \in Demanded, ResolveKey(amount)
        PROVE  LaunchTypeOK'
    <2>1. process \in Process BY <1>7 DEF LaunchTypeOK, ResolveKey
    <2>2. PICK s \in SourceOf(process) :
            /\ KeyIn(process, s) # None
            /\ process' = [process EXCEPT !.key = KeyIn(process, s), !.source = s]
      BY <1>7 DEF ResolveKey
    <2>3. s \in Sources BY <2>1, <2>2, SourceType
    <2>4. KeyIn(process, s) \in Secrets \cup {None} BY <2>1, <2>3, KeyType
    <2>5. process' \in Process BY <2>1, <2>2, <2>3, <2>4 DEF Process
    <2>6. QED BY <1>7, <2>5 DEF LaunchTypeOK, ResolveKey, settings
  <1>8. ASSUME NEW amount \in Demanded, SignPayment(amount)
        PROVE  LaunchTypeOK'
    <2>1. process \in Process /\ process.source \in SourceOf(process) /\ process.guard # Unset
      BY <1>8 DEF LaunchTypeOK, KeyInv, SignPayment, WithinCeiling
    <2>2. process.source \in Sources /\ process.guard \in Nat /\ process.key \in Secrets
      BY <1>8, <2>1, SourceType DEF Process, SignPayment
    <2>3. payments' \subseteq Payments
      BY <1>8, <2>1, <2>2 DEF LaunchTypeOK, SignPayment, Payments, Process
    <2>4. QED BY <1>8, <2>3 DEF LaunchTypeOK, SignPayment, settings
  <1>9. Demanded \cup {None, Bad} \subseteq Maxes
    BY LaunchAssumption DEF Maxes
  <1>10. QED
    BY <1>1, <1>2, <1>3, <1>3a, <1>3b, <1>4, <1>5, <1>6, <1>7, <1>8, <1>9
       DEF LaunchNext, Administer, Run

LEMMA KeyStep == LaunchTypeOK /\ KeyInv /\ [LaunchNext]_launchVars => KeyInv'
  <1> SUFFICES ASSUME LaunchTypeOK, KeyInv, [LaunchNext]_launchVars PROVE KeyInv'
    OBVIOUS
  <1>1. ASSUME NEW amount \in Demanded, ResolveKey(amount)
        PROVE  KeyInv'
    <2>1. PICK s \in SourceOf(process) :
            process' = [process EXCEPT !.key = KeyIn(process, s), !.source = s]
      BY <1>1 DEF ResolveKey
    <2>2. process \in Process BY <1>1 DEF LaunchTypeOK, ResolveKey
    <2>3. process'.ref = process.ref /\ process'.config = process.config /\ process'.source = s
      BY <2>1, <2>2 DEF Process
    <2>4. QED BY <2>3 DEF KeyInv, SourceOf
  <1>2. CASE Serve
    BY <1>2 DEF Serve, KeyInv
  <1>3. CASE process' = process \/ process' = None
    BY <1>3 DEF KeyInv, SourceOf
  <1>4. QED
    BY <1>1, <1>2, <1>3
       DEF LaunchNext, Administer, Run, Install, EditEntry, EditFile, Paste, Export, Rotate, Exit,
           SignPayment, launchVars

LEMMA LaunchTypeInit == LaunchInit => LaunchTypeOK
  <1> SUFFICES ASSUME LaunchInit PROVE LaunchTypeOK
    OBVIOUS
  <1>1. PICK world \in World :
          files = world.files /\ contents = world.contents /\ environs = world.environs
    BY LaunchAssumption DEF LaunchInit
  <1>2. /\ files \in [Paths -> Configs]
        /\ contents \in [Stores -> Secrets \cup {None}]
        /\ environs \in [Sides -> Environs]
    BY <1>1 DEF World
  <1>3. edits \in 0 .. MaxEdits /\ held = {} /\ payments = {}
    BY LaunchAssumption DEF LaunchInit
  <1>4. history \in [files : SUBSET Configs, entries : SUBSET Entry, exported : SUBSET Maxes]
    <2>1. environs["client"] \in Environ BY <1>2, LaunchAssumption DEF Sides
    <2>2. QED BY <1>2, <2>1 DEF LaunchInit, Environ
  <1>5. QED BY <1>2, <1>3, <1>4 DEF LaunchInit, LaunchTypeOK

LEMMA Types == LaunchSpec => [](LaunchTypeOK /\ KeyInv)
  <1>1. LaunchInit => LaunchTypeOK /\ KeyInv
    BY LaunchTypeInit DEF LaunchInit, KeyInv
  <1>2. QED BY <1>1, LaunchTypeStep, KeyStep, PTL DEF LaunchSpec

\* Whatever the user sets and whenever, a launch holds a ceiling that parsed
\* or none, and signs only with a source and a ceiling.
THEOREM LaunchTypeCorrect == LaunchSpec => []LaunchTypeOK
  BY Types, PTL

----------------------------------------------------------------------------
(* Where ceilings come from *)

\* What the user chose stays chosen.
LEMMA ChosenGrows ==
  ASSUME LaunchTypeOK, [LaunchNext]_launchVars
  PROVE  /\ history.files \subseteq history'.files
         /\ history.exported \subseteq history'.exported
         /\ \A ref \in Ref : Chosen(ref) \subseteq Chosen(ref)'
  <1>1. /\ history.files \subseteq history'.files
        /\ history.entries \subseteq history'.entries
        /\ history.exported \subseteq history'.exported
    BY DEF LaunchTypeOK, LaunchNext, Administer, Run, Install, EditEntry, EditFile, Paste, Export, Rotate,
           Serve, Exit, ResolveKey, SignPayment, launchVars
  <1>2. QED BY <1>1 DEF Chosen

\* The ceiling of an entry was chosen for whatever the entry may lead to.
EntryChosen(e) == e.max \in Nat => \A ref \in Ref : e.ref \in {ref, None} => e.max \in Chosen(ref)

\* An entry's ceiling stays chosen.
LEMMA EntryStaysChosen ==
  ASSUME LaunchTypeOK, [LaunchNext]_launchVars, NEW e, EntryChosen(e)
  PROVE  EntryChosen(e)'
  BY ChosenGrows DEF EntryChosen

\* The files are in the history, and so is what is exported; the ceiling of the
\* client's entry, as that of what install printed, was chosen for it.
EntryInv ==
  /\ \A p \in Paths : files[p] \in history.files
  /\ environs["client"].max \in history.exported
  /\ registered # None => EntryChosen(registered)
  /\ printed # None => EntryChosen(printed.entry)

LEMMA EntryStep == LaunchTypeOK /\ EntryInv /\ [LaunchNext]_launchVars => EntryInv'
  <1> SUFFICES ASSUME LaunchTypeOK, EntryInv, [LaunchNext]_launchVars PROVE EntryInv'
    OBVIOUS
  <1>0. \A e : EntryChosen(e) => (e.max \in Nat =>
          \A ref \in Ref : e.ref \in {ref, None} => e.max \in Chosen(ref)')
    BY ChosenGrows DEF EntryChosen
  <1>00. environs["client"].max \in history'.exported
    BY ChosenGrows DEF EntryInv
  <1>1. ASSUME NEW max \in Maxes, NEW asked \in Refs \cup {None},
               NEW client \in {"print", "claude"}, Install(asked, max, client)
        PROVE  EntryInv'
    <2>0. PICK file : file = FileOn("shell")
      OBVIOUS
    <2>1. file \in Config /\ file # Bad BY <1>1, <2>0, InstallDoes, LaunchAssumption
    <2>2. PICK ref \in Ref :
            /\ printed' \in {printed, PlanOf(file, ref, max)}
            /\ registered' \in {registered, PlanOf(file, ref, max).entry}
            /\ history' = [history EXCEPT !.entries = @ \cup {[ref |-> ref, max |-> max]}]
      BY <1>1, <2>0, InstallDoes
    <2>3. /\ history'.files = history.files
          /\ history'.entries = history.entries \cup {[ref |-> ref, max |-> max]}
      BY <2>2 DEF LaunchTypeOK
    <2>4. file \in history'.files BY <2>0, <2>3, FileInHistory DEF EntryInv, Sides
    <2>5. PICK ceiling : ceiling = Ceiling(file, ref, max)
      OBVIOUS
    <2>6. \/ ceiling = max
          \/ IsWallet(ref) /\ Known(file, ref.of) /\ ceiling = file.wallets[ref.of].max
      BY <2>5 DEF Ceiling
    <2>7. ceiling \in Chosen(ref)'
      <3>1. CASE ceiling = max
        <4>1. PICK e : e = [ref |-> ref, max |-> max]
          OBVIOUS
        <4>2. e \in history'.entries /\ e.ref = ref /\ e.max = ceiling
          BY <2>3, <3>1, <4>1
        <4>3. QED BY <4>2 DEF Chosen
      <3>2. CASE IsWallet(ref) /\ Known(file, ref.of) /\ ceiling = file.wallets[ref.of].max
        BY <2>1, <2>4, <3>2 DEF Chosen
      <3>3. QED BY <2>6, <3>1, <3>2
    <2>8. PICK e : e = [ref |-> ref, max |-> ceiling]
      OBVIOUS
    <2>9. PlanOf(file, ref, max).entry = e BY <2>5, <2>8 DEF PlanOf
    <2>10. \A x \in Ref : e.ref \in {x, None} => e.max \in Chosen(x)'
      BY <2>2, <2>7, <2>8, LaunchAssumption
    <2>11. \A p \in Paths : files'[p] \in history'.files
      BY <1>1, <2>3 DEF EntryInv, Install, settings
    <2>12. /\ registered' = registered \/ registered' = e
           /\ printed' = printed \/ printed'.entry = e
           /\ environs' = environs
      BY <1>1, <2>2, <2>9 DEF Install, settings
    <2>13. registered' # None => EntryChosen(registered)'
      <3>1. CASE registered' = registered BY <1>0, <3>1 DEF EntryInv, EntryChosen
      <3>2. CASE registered' = e BY <2>10, <3>2 DEF EntryChosen
      <3>3. QED BY <2>12, <3>1, <3>2
    <2>14. printed' # None => EntryChosen(printed.entry)'
      <3>1. CASE printed' = printed BY <1>0, <3>1 DEF EntryInv, EntryChosen
      <3>2. CASE printed'.entry = e BY <2>10, <3>2 DEF EntryChosen
      <3>3. QED BY <2>12, <3>1, <3>2
    <2>15. QED BY <1>00, <2>11, <2>12, <2>13, <2>14 DEF EntryInv
  <1>2. ASSUME NEW max \in Maxes, NEW ref \in Refs \cup {None}, EditEntry(ref, max)
        PROVE  EntryInv'
    <2>1. registered' = [ref |-> ref, max |-> max] /\ registered' \in history'.entries
            /\ UNCHANGED <<files, environs, printed>> /\ history'.files = history.files
      BY <1>2 DEF EditEntry, LaunchTypeOK, settings
    <2>2. EntryChosen(registered)' BY <2>1 DEF Chosen, EntryChosen
    <2>3. printed' # None => EntryChosen(printed.entry)'
      BY <1>0, <2>1 DEF EntryInv, EntryChosen
    <2>4. \A p \in Paths : files'[p] \in history'.files BY <2>1 DEF EntryInv
    <2>5. QED BY <1>00, <2>1, <2>2, <2>3, <2>4 DEF EntryInv
  \* Settings change, and the history with them; no entry does.
  <1>2a. ASSUME UNCHANGED <<registered, printed>>,
                \A p \in Paths : files'[p] \in history'.files,
                environs'["client"].max \in history'.exported
         PROVE  EntryInv'
    <2>1. /\ registered' # None => EntryChosen(registered)'
          /\ printed' # None => EntryChosen(printed.entry)'
      BY <1>0, <1>2a DEF EntryInv, EntryChosen
    <2>2. QED BY <1>2a, <2>1 DEF EntryInv
  <1>3. CASE EditFile
    <2>1. PICK p \in Paths : \E config \in Configs :
            /\ files' = [files EXCEPT ![p] = config]
            /\ history' = [history EXCEPT !.files = @ \cup {config}]
      BY <1>3 DEF EditFile
    <2>2. \A q \in Paths : files'[q] \in history'.files
      BY <2>1 DEF EntryInv, LaunchTypeOK
    <2>3. UNCHANGED <<registered, printed, environs>> BY <1>3 DEF EditFile
    <2>4. QED BY <1>00, <1>2a, <2>2, <2>3
  <1>3a. CASE Export
    <2>1. /\ UNCHANGED <<registered, printed, files>>
          /\ history' = [history EXCEPT !.exported = @ \cup {environs'["client"].max}]
      BY <1>3a DEF Export
    <2>2. QED BY <1>2a, <2>1 DEF EntryInv, LaunchTypeOK
  <1>3b. CASE Paste
    <2>1. registered' = printed.entry /\ printed # None /\ printed' = printed
            /\ UNCHANGED <<files, environs, history>>
      BY <1>3b DEF Paste, settings
    <2>2. EntryChosen(printed.entry)' /\ EntryChosen(registered)'
      BY <1>0, <2>1 DEF EntryInv, EntryChosen
    <2>3. QED BY <2>1, <2>2 DEF EntryInv
  <1>4. CASE UNCHANGED <<files, environs, registered, printed, history>>
    BY <1>2a, <1>4 DEF EntryInv
  <1>5. Demanded \cup {None, Bad} \subseteq Maxes
    BY LaunchAssumption DEF Maxes
  <1>6. QED
    BY <1>1, <1>2, <1>3, <1>3a, <1>3b, <1>4, <1>5
       DEF LaunchNext, Administer, Run, Rotate, Serve, Exit, ResolveKey, SignPayment, launchVars, settings

\* A launch holds what the file, the entry and the environment held when it
\* started.
ProcessInv ==
  process # None =>
    /\ process.config \in history.files /\ process.config # Bad
    /\ process.max \in Nat => process.max \in ChosenFor(process)
    /\ process.exported => process.max # None
    /\ process.guard \in ResolveGuard(process.config, process)

LEMMA ProcessStep == LaunchTypeOK /\ EntryInv /\ ProcessInv /\ [LaunchNext]_launchVars => ProcessInv'
  <1> SUFFICES ASSUME LaunchTypeOK, EntryInv, ProcessInv, [LaunchNext]_launchVars, process' # None PROVE ProcessInv'
    BY DEF ProcessInv
  <1>1. CASE Serve
    <2>0. PICK start : start = Launched(registered, environs["client"])
      OBVIOUS
    <2>1. PICK guard \in ResolveGuard(FileOn("client"), start) :
            process' = [ref |-> start.ref, max |-> start.max,
                        exported |-> registered.max = None /\ start.max # None,
                        config |-> FileOn("client"), guard |-> guard,
                        inherited |-> [s \in EnvSources |-> contents[s]],
                        key |-> None, source |-> None]
      BY <1>1, <2>0 DEF Serve
    <2>2. history' = history /\ FileOn("client") # Bad /\ registered # None BY <1>1 DEF Serve
    <2>3. ResolveGuard(FileOn("client"), start) = ResolveGuard(process'.config, process')
      BY <2>1 DEF ResolveGuard
    <2>4. FileOn("client") \in history.files BY FileInHistory DEF EntryInv, Sides
    <2>5. start.ref \in Ref /\ start.max \in Maxes
      BY <2>0, <2>2, LaunchedType
    <2>6. ASSUME start.max \in Nat PROVE start.max \in ChosenFor(process)'
      <3>1. CASE registered.max = None
        <4>1. start.max = environs["client"].max BY <2>0, <3>1 DEF Launched
        <4>2. process'.exported BY <2>1, <2>6, <3>1, LaunchAssumption
        <4>3. QED BY <2>2, <4>1, <4>2 DEF ChosenFor, EntryInv
      <3>2. CASE registered.max # None
        <4>1. start.max = registered.max /\ registered.ref \in {start.ref, None}
          BY <2>0, <3>2 DEF Launched
        <4>2. start.max \in Chosen(start.ref)
          BY <2>2, <2>5, <2>6, <4>1 DEF EntryInv, EntryChosen
        <4>3. ~process'.exported /\ process'.ref = start.ref BY <2>1, <3>2
        <4>4. QED BY <2>2, <4>2, <4>3 DEF ChosenFor, Chosen
      <3>3. QED BY <3>1, <3>2
    <2>7. QED BY <2>1, <2>2, <2>3, <2>4, <2>6 DEF ProcessInv
  <1>2. ASSUME process # None, process'.config = process.config, process'.max = process.max,
               process'.ref = process.ref, process'.guard = process.guard,
               process'.exported = process.exported
        PROVE  ProcessInv'
    <2>1. process.ref \in Ref BY <1>2 DEF LaunchTypeOK, Process
    <2>2. ResolveGuard(process.config, process) = ResolveGuard(process'.config, process')
      BY <1>2 DEF ResolveGuard
    <2>3. ChosenFor(process) \subseteq ChosenFor(process)'
      BY <1>2, <2>1, ChosenGrows DEF ChosenFor, Chosen
    <2>4. QED BY <1>2, <2>1, <2>2, <2>3, ChosenGrows DEF ProcessInv
  <1>3. CASE process' = process
    BY <1>2, <1>3
  <1>4. ASSUME NEW amount \in Demanded, ResolveKey(amount)
        PROVE  ProcessInv'
    <2>1. process \in Process BY <1>4 DEF ResolveKey, LaunchTypeOK
    <2>2. QED BY <1>2, <1>4, <2>1 DEF ResolveKey, Process
  <1>5. QED
    BY <1>1, <1>3, <1>4
       DEF LaunchNext, Administer, Run, Install, EditEntry, EditFile, Paste, Export, Rotate, Exit,
           SignPayment, launchVars

\* A guard that is a number is the X402_MAX_AMOUNT of the launch, or the one that
\* stands in the wallet it refers to, in its config.
LEMMA GuardIs ==
  ASSUME LaunchTypeOK, ProcessInv, process # None, process.guard # Unset
  PROVE  \/ process.max # None /\ process.max = process.guard
         \/ /\ process.max = None
            /\ IsWallet(process.ref) /\ Known(process.config, process.ref.of)
            /\ process.config.wallets[process.ref.of].max = process.guard
  BY DEF ProcessInv, ResolveGuard, Parsed

\* What was signed was within a ceiling chosen for what paid; a wallet's own
\* ceiling stood beside the key.
PaidInv ==
  /\ \A p \in payments : p.amount <= p.guard /\ p.guard \in ChosenFor(p)
  /\ KeyAndCeilingTogether

LEMMA PaidStep ==
  LaunchTypeOK /\ KeyInv /\ ProcessInv /\ PaidInv /\ [LaunchNext]_launchVars => PaidInv'
  <1> SUFFICES ASSUME LaunchTypeOK, KeyInv, ProcessInv, PaidInv, [LaunchNext]_launchVars PROVE PaidInv'
    OBVIOUS
  <1> DEFINE Together(p, f) ==
        /\ f # Bad
        /\ Known(f, p.ref.of) /\ f.wallets[p.ref.of].max = p.guard
        /\ Known(f, Trimmed[p.ref.of]) /\ f.wallets[Trimmed[p.ref.of]].key = p.source
  <1>1. ASSUME NEW p \in payments
        PROVE  /\ p.amount <= p.guard /\ p.guard \in ChosenFor(p)'
               /\ p.max = None => \E f \in history'.files : Together(p, f)
    <2>1. p.ref \in Ref BY DEF LaunchTypeOK, Payments
    <2>2. p.guard \in ChosenFor(p)'
      BY <2>1, ChosenGrows DEF PaidInv, ChosenFor
    <2>3. QED BY <2>1, <2>2, ChosenGrows DEF PaidInv, KeyAndCeilingTogether
  <1>2. CASE payments' = payments
    BY <1>1, <1>2 DEF PaidInv, KeyAndCeilingTogether
  <1>3. ASSUME NEW amount \in Demanded, SignPayment(amount)
        PROVE  PaidInv'
    <2>0. PICK p : p = [amount |-> amount, ref |-> process.ref, max |-> process.max,
                        exported |-> process.exported, guard |-> process.guard,
                        source |-> process.source, key |-> process.key]
      OBVIOUS
    <2>1. /\ payments' = payments \cup {p} /\ history' = history
          /\ process \in Process /\ process # None /\ process.guard # Unset
          /\ amount <= process.guard /\ process.source \in SourceOf(process)
      BY <1>3, <2>0 DEF SignPayment, WithinCeiling, LaunchTypeOK, KeyInv
    <2>2. /\ process.ref \in Ref /\ process.config \in Config /\ process.guard \in Nat
          /\ process.config \in history.files /\ process.config # Bad
      BY <2>1 DEF Process, ProcessInv
    <2>3. process.guard \in ChosenFor(process)
      <3>1. CASE process.max # None /\ process.max = process.guard
        BY <2>1, <2>2, <3>1 DEF ProcessInv
      <3>2. CASE /\ process.max = None
                 /\ IsWallet(process.ref) /\ Known(process.config, process.ref.of)
                 /\ process.config.wallets[process.ref.of].max = process.guard
        <4>1. process.guard \in Chosen(process.ref)
          BY <2>2, <3>2 DEF Chosen
        <4>2. ~process.exported BY <2>1, <3>2 DEF ProcessInv
        <4>3. QED BY <4>1, <4>2 DEF ChosenFor
      <3>3. QED BY <2>1, <3>1, <3>2, GuardIs
    <2>4. ASSUME process.max = None
          PROVE  Together(process, process.config)
      <3>1. /\ IsWallet(process.ref) /\ Known(process.config, process.ref.of)
            /\ process.config.wallets[process.ref.of].max = process.guard
        BY <2>1, <2>4, GuardIs
      <3>2. PICK n \in Names : /\ n = Trimmed[process.ref.of] /\ Known(process.config, n)
                               /\ process.source = process.config.wallets[n].key
        BY <2>1, <3>1 DEF SourceOf, IsWallet
      <3>3. QED BY <2>2, <3>1, <3>2
    <2>5. p.amount <= p.guard /\ p.guard \in ChosenFor(p)'
      BY <2>0, <2>1, <2>3 DEF ChosenFor, Chosen
    <2>6. p.max = None => \E f \in history'.files : Together(p, f)
      BY <2>0, <2>1, <2>2, <2>4
    <2>7. QED BY <1>1, <2>1, <2>5, <2>6 DEF PaidInv, KeyAndCeilingTogether
  <1>4. QED
    BY <1>2, <1>3
    DEF LaunchNext, Administer, Run, Install, EditEntry, EditFile, Paste, Export, Rotate, Serve, Exit,
        ResolveKey, launchVars

----------------------------------------------------------------------------
(* What install tells *)

\* What install tells of an entry is true of it and of the file install read.
Foretells(n, e) ==
  /\ e \in Entry /\ e.ref # None
  /\ SourceOf([ref |-> e.ref, config |-> n.file]) = {} =>
       IsWallet(e.ref) /\ Trimmed[e.ref.of] # e.ref.of
  /\ n.refuses <=> e.max = None
  /\ n.refuses => (IsWallet(e.ref) /\ Known(n.file, e.ref.of) =>
                     n.file.wallets[e.ref.of].max = None)

NoteInv ==
  /\ note # None => Foretells(note, registered)
  /\ printed # None => Foretells(printed.note, printed.entry)

LEMMA PlanForetells ==
  ASSUME NEW config \in Config, NEW ref \in Ref, Installable(config, ref), NEW max \in Maxes
  PROVE  Foretells(PlanOf(config, ref, max).note, PlanOf(config, ref, max).entry)
  <1> DEFINE ceiling == Ceiling(config, ref, max)
  <1>1. SourceOf([ref |-> ref, config |-> config]) = {} =>
          IsWallet(ref) /\ Trimmed[ref.of] # ref.of
    <2>1. CASE ref.kind = "source"
      BY <2>1 DEF SourceOf
    <2>2. CASE IsWallet(ref) /\ Known(config, ref.of) /\ Trimmed[ref.of] = ref.of
      <3>1. ref.of \in Names BY <2>2, WalletRef
      <3>2. config.wallets[ref.of].key \in SourceOf([ref |-> ref, config |-> config])
        BY <2>2, <3>1 DEF SourceOf, IsWallet
      <3>3. QED BY <3>2
    <2>3. QED BY <2>1, <2>2 DEF Installable
  <1>2. ceiling = None =>
          (IsWallet(ref) /\ Known(config, ref.of) => config.wallets[ref.of].max = None)
    BY DEF Ceiling
  <1>3. [ref |-> ref, max |-> ceiling] \in Entry /\ ref # None
    BY CeilingType, LaunchAssumption DEF Entry
  <1>4. QED BY <1>1, <1>2, <1>3 DEF PlanOf, Foretells

\* What install tells of an entry it tells of the launches that come of it.
LEMMA LaunchForetold ==
  ASSUME LaunchTypeOK, NoteInv
  PROVE  InstallForetellsLaunch
  <1> SUFFICES ASSUME note # None, FileOn("client") = note.file
               PROVE  LET start == Launched(registered, environs["client"])
                          exported == environs["client"].max
                          ceilings == ResolveGuard(FileOn("client"), start)
                      IN  /\ SourceOf([ref |-> start.ref, config |-> FileOn("client")]) = {} =>
                               IsWallet(start.ref) /\ Trimmed[start.ref.of] # start.ref.of
                          /\ note.refuses => ceilings = IF exported = None THEN {Unset}
                                                                          ELSE Parsed(exported)
                          /\ ~note.refuses =>
                               ceilings = Parsed(registered.max) /\ Unset \notin ceilings
    BY DEF InstallForetellsLaunch
  <1> DEFINE start == Launched(registered, environs["client"])
             exported == environs["client"].max
  <1>1. /\ Foretells(note, registered)
        /\ registered \in Entry /\ registered.ref # None
    BY DEF NoteInv, Foretells
  <1>2. /\ start.ref = registered.ref
        /\ start.max = IF registered.max # None THEN registered.max ELSE exported
    BY <1>1 DEF Launched
  <1>3. SourceOf([ref |-> start.ref, config |-> FileOn("client")]) = {} =>
          IsWallet(start.ref) /\ Trimmed[start.ref.of] # start.ref.of
    BY <1>1, <1>2 DEF Foretells
  <1>4. ASSUME note.refuses
        PROVE  ResolveGuard(FileOn("client"), start) =
                 IF exported = None THEN {Unset} ELSE Parsed(exported)
    BY <1>1, <1>2, <1>4 DEF Foretells, ResolveGuard
  <1>5. ASSUME ~note.refuses
        PROVE  /\ ResolveGuard(FileOn("client"), start) = Parsed(registered.max)
               /\ Unset \notin Parsed(registered.max)
    <2>1. registered.max # None BY <1>1, <1>5 DEF Foretells
    <2>2. ResolveGuard(FileOn("client"), start) = Parsed(registered.max)
      BY <1>2, <2>1 DEF ResolveGuard
    <2>3. registered.max # Unset
      BY <1>1, PaymentAssumption, LaunchAssumption DEF Entry, Maxes
    <2>4. QED BY <2>2, <2>3 DEF Parsed
  <1>6. QED BY <1>3, <1>4, <1>5

LEMMA NoteStep == LaunchTypeOK /\ NoteInv /\ [LaunchNext]_launchVars => NoteInv'
  <1> SUFFICES ASSUME LaunchTypeOK, NoteInv, [LaunchNext]_launchVars PROVE NoteInv'
    OBVIOUS
  <1>1. ASSUME NEW max \in Maxes, NEW asked \in Refs \cup {None},
               NEW client \in {"print", "claude"}, Install(asked, max, client)
        PROVE  NoteInv'
    <2>1. FileOn("shell") \in Config BY <1>1, InstallDoes
    <2>2. PICK ref \in Ref :
            /\ Installable(FileOn("shell"), ref)
            /\ printed' \in {printed, PlanOf(FileOn("shell"), ref, max)}
            /\ \/ registered' = registered /\ note' = note
               \/ /\ registered' = PlanOf(FileOn("shell"), ref, max).entry
                  /\ note' = PlanOf(FileOn("shell"), ref, max).note
      BY <1>1, InstallDoes
    <2>3. PICK plan : plan = PlanOf(FileOn("shell"), ref, max)
      OBVIOUS
    <2>4. Foretells(plan.note, plan.entry)
      BY <2>1, <2>2, <2>3, PlanForetells
    <2>5. CASE note' = note /\ registered' = registered
      BY <2>2, <2>3, <2>4, <2>5 DEF NoteInv, Foretells
    <2>6. CASE note' = plan.note /\ registered' = plan.entry
      BY <2>2, <2>3, <2>4, <2>6 DEF NoteInv, Foretells
    <2>7. QED BY <2>2, <2>3, <2>5, <2>6
  <1>2. CASE UNCHANGED <<note, registered, printed>>
    BY <1>2 DEF NoteInv
  <1>3. CASE note' = None /\ printed' = printed
    BY <1>3 DEF NoteInv
  <1>4. CASE Paste
    BY <1>4 DEF Paste, NoteInv, LaunchTypeOK, Plan
  <1>5. Demanded \cup {None, Bad} \subseteq Maxes
    BY LaunchAssumption DEF Maxes
  <1>6. QED
    BY <1>1, <1>2, <1>3, <1>4, <1>5
    DEF LaunchNext, Administer, Run, EditEntry, EditFile, Export, Rotate, Serve, Exit, ResolveKey,
        SignPayment, launchVars

----------------------------------------------------------------------------
(* Where keys come from *)

\* Since the launch started, stores held what they hold now, what the launch
\* inherited, and the key it found.
HeldInv ==
  process # None =>
    /\ Pairs(contents) \subseteq held
    /\ \A s \in EnvSources : [store |-> s, key |-> process.inherited[s]] \in held
    /\ RetiredKeysAreIdle

LEMMA HeldStep == LaunchTypeOK /\ HeldInv /\ [LaunchNext]_launchVars => HeldInv'
  <1> SUFFICES ASSUME LaunchTypeOK, HeldInv, [LaunchNext]_launchVars, process' # None PROVE HeldInv'
    BY DEF HeldInv
  <1>1. CASE Serve
    <2>1. held' = Pairs(contents) /\ contents' = contents
      BY <1>1 DEF Serve, settings
    <2>2. /\ process'.inherited = [s \in EnvSources |-> contents[s]]
          /\ process'.key = None
      BY <1>1 DEF Serve
    <2>3. \A s \in EnvSources : [store |-> s, key |-> contents[s]] \in Pairs(contents)
      BY LaunchAssumption DEF Pairs
    <2>4. QED BY <2>1, <2>2, <2>3 DEF HeldInv, RetiredKeysAreIdle, Pairs
  <1>2. CASE Rotate
    <2>1. process' = process /\ held' = held \cup Pairs(contents')
      BY <1>2 DEF Rotate
    <2>2. QED BY <2>1 DEF HeldInv, RetiredKeysAreIdle, Pairs
  <1>3. ASSUME NEW amount \in Demanded, ResolveKey(amount)
        PROVE  HeldInv'
    <2>1. process \in Process BY <1>3 DEF LaunchTypeOK, ResolveKey
    <2>2. PICK s \in SourceOf(process) :
            process' = [process EXCEPT !.key = KeyIn(process, s), !.source = s]
      BY <1>3 DEF ResolveKey
    <2>3. /\ process # None /\ s \in Sources
          /\ process'.key = KeyIn(process, s) /\ process'.source = s
          /\ process'.inherited = process.inherited
          /\ held' = held /\ contents' = contents
      BY <1>3, <2>1, <2>2, SourceType DEF ResolveKey, Process, settings
    <2>4. \/ s \in RawSources /\ KeyIn(process, s) = s
          \/ [store |-> s, key |-> KeyIn(process, s)] \in held
      BY <2>3 DEF KeyIn, HeldInv, Pairs, Stores
    <2>5. QED BY <2>3, <2>4 DEF HeldInv, RetiredKeysAreIdle, Pairs
  <1>4. CASE UNCHANGED <<process, held, contents>>
    BY <1>4 DEF HeldInv, RetiredKeysAreIdle, Pairs
  <1>5. QED
    BY <1>1, <1>2, <1>3, <1>4
    DEF LaunchNext, Administer, Run, Install, EditEntry, EditFile, Paste, Export, Exit, SignPayment,
        launchVars, settings

----------------------------------------------------------------------------
(* The theorems *)

LaunchInv == LaunchTypeOK /\ KeyInv /\ EntryInv /\ ProcessInv /\ PaidInv /\ NoteInv /\ HeldInv

LEMMA LaunchInvInit == LaunchInit => LaunchInv
  <1>1. LaunchInit => LaunchTypeOK /\ EntryInv BY LaunchTypeInit DEF EntryInv, LaunchInit
  <1>2. QED
    BY <1>1
    DEF LaunchInit, LaunchInv, KeyInv, ProcessInv, PaidInv, KeyAndCeilingTogether, NoteInv, HeldInv

LEMMA LaunchInvStep == LaunchInv /\ [LaunchNext]_launchVars => LaunchInv'
  BY LaunchTypeStep, KeyStep, EntryStep, ProcessStep, PaidStep, NoteStep, HeldStep DEF LaunchInv

LEMMA LaunchInvariance == LaunchSpec => []LaunchInv
  BY LaunchInvInit, LaunchInvStep, PTL DEF LaunchSpec

\* No payment above every ceiling chosen for what pays (install.rs:45-52,
\* serve.rs:62-73).
THEOREM ChosenTheorem == LaunchSpec => []CeilingWasChosen
  <1>1. LaunchInv => CeilingWasChosen
    BY DEF LaunchInv, PaidInv, LaunchTypeOK, Payments, CeilingWasChosen
  <1>2. QED BY <1>1, LaunchInvariance, PTL

\* A wallet's key signs under the ceiling that stood beside it (serve.rs:17-18,
\* key.rs:147-154).
THEOREM TogetherTheorem == LaunchSpec => []KeyAndCeilingTogether
  <1>1. LaunchInv => KeyAndCeilingTogether BY DEF LaunchInv, PaidInv
  <1>2. QED BY <1>1, LaunchInvariance, PTL

\* No launch under a ceiling that does not parse (serve.rs:63-70).
THEOREM MalformedTheorem == LaunchSpec => []MalformedCeilingNeverServes
  <1>1. LaunchInv => MalformedCeilingNeverServes
    BY LaunchAssumption
    DEF LaunchInv, ProcessInv, ResolveGuard, Parsed, MalformedCeilingNeverServes
  <1>2. QED BY <1>1, LaunchInvariance, PTL

\* What install says of the launches to come is what they do, as long as the
\* config file is what it read (install.rs:43-106, 179-187; serve.rs:62-73).
THEOREM InstallTheorem == LaunchSpec => []InstallForetellsLaunch
  <1>1. LaunchInv => InstallForetellsLaunch
    BY LaunchForetold DEF LaunchInv
  <1>2. QED BY <1>1, LaunchInvariance, PTL

\* A key that its source did not hold while the launch was running never signs
\* (proxy.rs:61-80; key.rs:114-131).
THEOREM RetiredTheorem == LaunchSpec => []RetiredKeysAreIdle
  <1>1. LaunchInv => RetiredKeysAreIdle
    BY DEF LaunchInv, HeldInv, RetiredKeysAreIdle
  <1>2. QED BY <1>1, LaunchInvariance, PTL

=============================================================================
