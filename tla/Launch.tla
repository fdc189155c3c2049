------------------------------- MODULE Launch -------------------------------
(***************************************************************************)
(* From the user's settings to the ceiling and the key of a launch: the    *)
(* config file and where it is looked for (config.rs), install             *)
(* (commands/install.rs), which prints an entry for the MCP client's       *)
(* configuration or has it registered, serve (commands/serve.rs), which    *)
(* that entry starts, and the key resolver (key.rs).                       *)
(*                                                                         *)
(* These steps lie days apart.  The user edits files, the entry, the       *)
(* environments and the stores of the keys at any time in between, also    *)
(* while a launch is running, which keeps what it read when it started.    *)
(***************************************************************************)
EXTENDS Payment

CONSTANTS
  Names,       \* wallet names
  Trimmed,     \* [Names -> Names]: a name without the blanks at its end
  Paths,       \* places where a config file is looked for
  Environs,    \* the environments commands may run in, see Environ
  Secrets,     \* private keys
  Sources,     \* key sources other than wallets
  EnvSources,  \* those that are environment variables
  RawSources,  \* those that are keys themselves
  Configs,     \* what a config file may hold
  Refs,        \* the references the user may choose
  Worlds,      \* what the user may start with, see World
  Demanded,    \* the amounts an upstream may demand
  None,        \* an option that is absent
  Bad,         \* text that does not parse
  MaxEdits     \* bound on what the user changes

\* `max` and X402_MAX_AMOUNT are kept as text until serve parses them.
Maxes == Nat \cup {None, Bad}

Wallet == [key : Sources, max : Maxes]

\* A config file that parses; an absent file reads as one without wallets.
Config == [default : Names \cup {None}, wallets : [Names -> Wallet \cup {None}]]

\* An X402_KEY_REF: a wallet, a wallet with blanks before "wallet:", a source,
\* the empty string, or text that is none of these.  A name may end in blanks.
Ref == [kind : {"wallet", "blankWallet"}, of : Names] \cup [kind : {"source"}, of : Sources]
         \cup [kind : {"empty", "garbage"}, of : {None}]

EmptyRef == [kind |-> "empty", of |-> None]

\* The variables that config_path looks at, and the X402_MAX_AMOUNT and
\* X402_KEY_REF that are exported, None if they are not or are not Unicode.
Environ == [explicit : Paths \cup {None}, xdg : Paths \cup {None}, home : Paths,
            max : Maxes, ref : Ref \cup {None}]

\* Keys are kept in stores, which are op items, files and variables, unless they
\* are written into the reference.  An env variable is the client's.
Stores == Sources \ RawSources

\* install runs in a shell, serve where the MCP client runs.
Sides == {"shell", "client"}

World == [files : [Paths -> Configs], contents : [Stores -> Secrets \cup {None}],
          environs : [Sides -> Environs]]

ASSUME LaunchAssumption ==
  /\ None \notin Nat \cup Names /\ None \notin Wallet /\ None \notin Ref
  /\ Trimmed \in [Names -> Names] /\ \A n \in Names : Trimmed[Trimmed[n]] = Trimmed[n]
  /\ Bad \notin Nat /\ Bad # None
  /\ Unset \notin {None, Bad} /\ Bad \notin Config
  /\ None \notin Secrets /\ None \notin Paths
  /\ EnvSources \subseteq Stores /\ RawSources \subseteq Sources \cap Secrets
  /\ Environs \subseteq Environ
  /\ Refs \subseteq Ref
  /\ Configs \subseteq Config \cup {Bad}
  /\ Worlds \subseteq World
  /\ Demanded \subseteq Nat
  /\ MaxEdits \in Nat

VARIABLES
  files,     \* [Paths -> Configs]
  contents,  \* what each store yields now
  environs,  \* the environment of the shell and that of the client
  printed,   \* what install printed last, see Plan; or None
  registered, \* the entry in the client's configuration, or None
  note,      \* of an entry made by install: the file it read, and whether it
             \* told the user that every payment will be refused; otherwise None
  process,   \* the running launch, or None
  held,      \* what stores held since the running launch started
  payments,  \* what was signed
  edits,     \* how often the user changed something
  history    \* what the user ever set: config files, [ref, max] of entries, and
             \* the X402_MAX_AMOUNT exported where the client runs

settings == <<files, contents, environs>>
launchVars == <<settings, printed, registered, note, process, held, payments, edits, history>>

\* The variables an entry of the client's configuration sets, or does not.
Entry == [ref : Ref \cup {None}, max : Maxes]
Note == [file : Config, refuses : BOOLEAN]
Plan == [entry : Entry, note : Note]

\* A launch keeps its key_ref, the config it loaded, its guard, the variables it
\* inherited, and the key once it is resolved; max is the X402_MAX_AMOUNT it
\* found, and exported whether that is one its entry does not set.
Process == [ref : Ref, max : Maxes, exported : BOOLEAN, config : Config,
            guard : Nat \cup {Unset}, inherited : [EnvSources -> Secrets \cup {None}],
            key : Secrets \cup {None}, source : Sources \cup {None}]

\* A payment: what was demanded, and what the launch that signed it held.
Payments == [amount : Demanded, ref : Ref, max : Maxes, exported : BOOLEAN, guard : Nat,
             source : Sources, key : Secrets]

\* What stores hold, as pairs.
Pairs(yield) == {[store |-> s, key |-> yield[s]] : s \in Stores}

LaunchInit ==
  /\ \E world \in Worlds :
        /\ files = world.files
        /\ contents = world.contents
        /\ environs = world.environs
  /\ printed = None
  /\ registered = None
  /\ note = None
  /\ process = None
  /\ held = {}
  /\ payments = {}
  /\ edits = 0
  /\ history = [files |-> {files[p] : p \in Paths}, entries |-> {},
                 exported |-> {environs["client"].max}]

----------------------------------------------------------------------------
(* The config file *)

\* config_path: X402_PROXY_CONFIG, else under XDG_CONFIG_HOME, else under HOME.
ConfigPath(e) ==
  IF e.explicit # None THEN e.explicit ELSE IF e.xdg # None THEN e.xdg ELSE e.home

\* What Config::load finds on a side; a file that is absent reads as one
\* without wallets.
FileOn(side) == files[ConfigPath(environs[side])]

----------------------------------------------------------------------------
(* install *)

IsWallet(ref) == ref.kind = "wallet"

\* Config::wallet finds a wallet of that name.
Known(config, name) == config.wallets[name] # None

\* Any wallet name taken as it is.
InstallableUnchecked(config, ref) == IsWallet(ref) \/ ref.kind = "source"

\* The references install accepts: a known wallet, or a source that parses.
Installable(config, ref) ==
  \/ IsWallet(ref) /\ Known(config, ref.of)
  \/ ref.kind = "source"

\* resolve_key_ref: --wallet and --key-ref name the reference; without either
\* it is the default wallet.  The set is empty when the choice is rejected.
ResolveKeyRef(config, asked) ==
  LET ref == IF asked # None THEN asked ELSE [kind |-> "wallet", of |-> config.default]
  IN  IF asked = None /\ config.default = None THEN {}
      ELSE IF Installable(config, ref) THEN {ref} ELSE {}

\* The ceiling of the default wallet in place of the referenced one's.
CeilingOfDefault(config, ref, max) ==
  IF max = None /\ config.default # None /\ Known(config, config.default)
    THEN config.wallets[config.default].max
    ELSE max

\* plan: --max wins; without it the ceiling is the referenced wallet's.
Ceiling(config, ref, max) ==
  IF max = None /\ IsWallet(ref) /\ Known(config, ref.of)
    THEN config.wallets[ref.of].max
    ELSE max

\* plan, and what install tells of it.
PlanOf(config, ref, max) ==
  LET ceiling == Ceiling(config, ref, max)
  IN  [entry |-> [ref |-> ref, max |-> ceiling],
       note |-> [file |-> config, refuses |-> ceiling = None]]

\* install with the options asked (--wallet or --key-ref, or None) and max:
\* `--client print` shows the plan, `--client claude` registers it unless the
\* command it runs fails.
Install(asked, max, client) ==
  /\ edits < MaxEdits
  /\ FileOn("shell") # Bad
  /\ \E ref \in ResolveKeyRef(FileOn("shell"), asked) :
        LET plan == PlanOf(FileOn("shell"), ref, max)
        IN  /\ \/ /\ client = "print"
                  /\ printed' = plan
                  /\ UNCHANGED <<registered, note>>
               \/ /\ client = "claude"
                  /\ registered' = plan.entry /\ note' = plan.note
                  /\ UNCHANGED printed
               \/ /\ client = "claude"
                  /\ UNCHANGED <<registered, note, printed>>
            /\ history' = [history EXCEPT !.entries = @ \cup {[ref |-> ref, max |-> max]}]
  /\ edits' = edits + 1
  /\ UNCHANGED <<settings, process, held, payments>>

----------------------------------------------------------------------------
(* The user *)

EditFile ==
  /\ edits < MaxEdits
  /\ \E p \in Paths : \E config \in Configs \ {files[p]} :
        /\ files' = [files EXCEPT ![p] = config]
        /\ history' = [history EXCEPT !.files = @ \cup {config}]
  /\ edits' = edits + 1
  /\ UNCHANGED <<contents, environs, printed, registered, note, process, held, payments>>

\* What install printed is pasted into the client's configuration, now or later.
Paste ==
  /\ edits < MaxEdits
  /\ printed # None
  /\ registered' = printed.entry
  /\ note' = printed.note
  /\ edits' = edits + 1
  /\ UNCHANGED <<settings, printed, process, held, payments, history>>

\* The entry written or changed by hand; it need not set either variable.
EditEntry(ref, max) ==
  /\ edits < MaxEdits
  /\ registered' = [ref |-> ref, max |-> max]
  /\ note' = None
  /\ history' = [history EXCEPT !.entries = @ \cup {registered'}]
  /\ edits' = edits + 1
  /\ UNCHANGED <<settings, printed, process, held, payments>>

\* The environment of the shell or of the client is changed.
Export ==
  /\ edits < MaxEdits
  /\ \E side \in Sides : \E e \in Environs \ {environs[side]} :
        environs' = [environs EXCEPT ![side] = e]
  /\ history' = [history EXCEPT !.exported = @ \cup {environs'["client"].max}]
  /\ edits' = edits + 1
  /\ UNCHANGED <<files, contents, printed, registered, note, process, held, payments>>

\* A key is rotated, or its store becomes unavailable.
Rotate ==
  /\ edits < MaxEdits
  /\ \E s \in Stores : \E k \in (Secrets \cup {None}) \ {contents[s]} :
        contents' = [contents EXCEPT ![s] = k]
  /\ held' = IF process = None THEN held ELSE held \cup Pairs(contents')
  /\ edits' = edits + 1
  /\ UNCHANGED <<files, environs, printed, registered, note, process, payments, history>>

----------------------------------------------------------------------------
(* serve *)

\* The environment of a launch of entry e from environment v, as far as the
\* entry goes: what the entry sets goes before what is exported.
Launched(e, v) ==
  [ref |-> IF e.ref # None THEN e.ref ELSE IF v.ref # None THEN v.ref ELSE EmptyRef,
   max |-> IF e.max # None THEN e.max ELSE v.max]

\* A ceiling that does not parse taken for one that is not there.
LenientGuard(config, e) ==
  IF e.max \in Nat THEN {e.max}
  ELSE IF IsWallet(e.ref) /\ Known(config, e.ref.of) /\ config.wallets[e.ref.of].max \in Nat
    THEN {config.wallets[e.ref.of].max}
  ELSE {Unset}

\* Text that is not looked at.
Unparsed(max) == {max}

\* AmountGuard::parse: the empty set when the text does not parse.
Parsed(max) == IF max = Bad THEN {} ELSE {max}

\* resolve_guard: X402_MAX_AMOUNT, else the max of the wallet, else Unset; the
\* name of the wallet is taken with its blanks.
ResolveGuard(config, e) ==
  IF e.max # None THEN Parsed(e.max)
  ELSE IF IsWallet(e.ref) /\ Known(config, e.ref.of) /\ config.wallets[e.ref.of].max # None
    THEN Parsed(config.wallets[e.ref.of].max)
  ELSE {Unset}

\* The client launches the proxy: it loads the config, resolves the ceiling
\* and connects; the key is not touched.
Serve ==
  /\ process = None
  /\ registered # None
  /\ FileOn("client") # Bad
  /\ LET start == Launched(registered, environs["client"])
     IN  \E guard \in ResolveGuard(FileOn("client"), start) :
           process' = [ref |-> start.ref, max |-> start.max,
                       exported |-> registered.max = None /\ start.max # None,
                       config |-> FileOn("client"), guard |-> guard,
                       inherited |-> [s \in EnvSources |-> contents[s]],
                       key |-> None, source |-> None]
  /\ held' = Pairs(contents)
  /\ UNCHANGED <<settings, printed, registered, note, payments, edits, history>>

Exit ==
  /\ process # None
  /\ process' = None
  /\ held' = {}
  /\ UNCHANGED <<settings, printed, registered, note, payments, edits, history>>

----------------------------------------------------------------------------
(* The first payment of a launch resolves its key. *)

\* The source looked up in the config file as it is now.
SourceNow(p) ==
  IF p.ref.kind = "source" THEN {p.ref.of}
  ELSE {FileOn("client").wallets[n].key :
          n \in {n \in Names : /\ p.ref.kind \in {"wallet", "blankWallet"}
                               /\ n = Trimmed[p.ref.of]
                               /\ FileOn("client") # Bad /\ Known(FileOn("client"), n)}}

\* KeyResolver::resolve: the source that the reference leads to, in the config
\* the launch loaded.  Blanks around the reference are taken off first, and with
\* them those at the end of the name.
SourceOf(p) ==
  IF p.ref.kind = "source" THEN {p.ref.of}
  ELSE {p.config.wallets[n].key :
          n \in {n \in Names : /\ p.ref.kind \in {"wallet", "blankWallet"}
                               /\ n = Trimmed[p.ref.of] /\ Known(p.config, n)}}

\* A key that an earlier payment under the same reference was signed with.
RememberedKey(p, s) ==
  IF \E x \in payments : x.source = s /\ x.ref = p.ref
    THEN (CHOOSE x \in payments : x.source = s /\ x.ref = p.ref).key
    ELSE IF s \in RawSources THEN s ELSE contents[s]

\* resolve_source: a raw key is its own source, a variable is as the launch
\* inherited it, and an op item or a file is read now.
KeyIn(p, s) ==
  IF s \in RawSources THEN s ELSE IF s \in EnvSources THEN p.inherited[s] ELSE contents[s]

\* The demand is within the ceiling: the key is resolved, if it is not yet.
ResolveKey(amount) ==
  /\ process # None
  /\ WithinCeiling(process.guard, amount)
  /\ process.key = None
  /\ \E s \in SourceOf(process) :
        /\ KeyIn(process, s) # None
        /\ process' = [process EXCEPT !.key = KeyIn(process, s), !.source = s]
  /\ UNCHANGED <<settings, printed, registered, note, held, payments, edits, history>>

SignPayment(amount) ==
  /\ process # None
  /\ WithinCeiling(process.guard, amount)
  /\ process.key # None
  /\ payments' = payments \cup {[amount |-> amount, ref |-> process.ref, max |-> process.max,
                                 exported |-> process.exported, guard |-> process.guard,
                                 source |-> process.source, key |-> process.key]}
  /\ UNCHANGED <<settings, printed, registered, note, process, held, edits, history>>

\* What the user does; what the proxy does.
Administer ==
  \/ \E max \in Demanded \cup {None, Bad} :
        \/ \E asked \in Refs \cup {None}, client \in {"print", "claude"} :
              Install(asked, max, client)
        \/ \E ref \in Refs \cup {None} : EditEntry(ref, max)
  \/ EditFile \/ Paste \/ Export \/ Rotate

Run ==
  \/ Serve \/ Exit
  \/ \E amount \in Demanded : ResolveKey(amount) \/ SignPayment(amount)

LaunchNext == Administer \/ Run

LaunchSpec == LaunchInit /\ [][LaunchNext]_launchVars

----------------------------------------------------------------------------
(* Properties *)

LaunchTypeOK ==
  /\ files \in [Paths -> Configs]
  /\ contents \in [Stores -> Secrets \cup {None}]
  /\ environs \in [Sides -> Environs]
  /\ printed \in Plan \cup {None}
  /\ registered \in Entry \cup {None}
  /\ note \in Note \cup {None}
  /\ process \in Process \cup {None}
  /\ held \subseteq [store : Stores, key : Secrets \cup {None}]
  /\ edits \in 0 .. MaxEdits
  /\ history \in [files : SUBSET Configs, entries : SUBSET Entry, exported : SUBSET Maxes]
  /\ payments \subseteq Payments

\* The ceilings the user ever chose for a reference: with --max or in an entry
\* that names it, or names none, or in the config file for the wallet it names.
Chosen(ref) ==
  {e.max : e \in {e \in history.entries : e.ref \in {ref, None}}} \cup
  {f.wallets[ref.of].max : f \in {f \in history.files :
                                    f # Bad /\ IsWallet(ref) /\ Known(f, ref.of)}}

\* The ceilings that a launch, or a payment of it, may be under: an exported
\* X402_MAX_AMOUNT is a choice for whatever wallet the entry names.
ChosenFor(x) == IF x.exported THEN history.exported ELSE Chosen(x.ref)

\* No payment is above every ceiling that the user chose for the wallet or the
\* source that pays, or, if the entry of the launch sets no X402_MAX_AMOUNT and
\* one is exported where the client runs, above every one exported there:
\* ceilings do not stray from one wallet to another, and no slip of the user
\* turns into a ceiling (install.rs:45-52, serve.rs:62-73).
CeilingWasChosen ==
  \A p \in payments : \E limit \in ChosenFor(p) \cap Nat : p.amount <= limit

\* A payment under a wallet's own ceiling is signed with a key that stood in the
\* same config file as that ceiling, although the key is looked up much later
\* and the file may have changed in between; and it is the key of that wallet,
\* if no other is meant without the blanks at the end of its name
\* (serve.rs:17-18, 44, 66-70; key.rs:144-154).
KeyAndCeilingTogether ==
  \A p \in payments : p.max = None =>
    \E f \in history.files :
      /\ f # Bad
      /\ Known(f, p.ref.of) /\ f.wallets[p.ref.of].max = p.guard
      /\ Known(f, Trimmed[p.ref.of]) /\ f.wallets[Trimmed[p.ref.of]].key = p.source

\* A ceiling that does not parse keeps the proxy from starting: it is neither
\* ignored in favour of the wallet's nor read as none (serve.rs:63-70).
MalformedCeilingNeverServes ==
  process # None =>
    /\ process.max # Bad
    /\ process.max = None /\ IsWallet(process.ref) /\ Known(process.config, process.ref.of)
         => process.config.wallets[process.ref.of].max # Bad

\* As long as the client finds the config that install found, an entry made by
\* install, registered or pasted later, leads to a key source, unless the name
\* of its wallet ends in blanks; when install said that all payments will be
\* refused "until X402_MAX_AMOUNT is set", they are, until one is exported, and
\* that is then the ceiling; and when it did not say so, launches are under the
\* ceiling of the entry, whatever is exported, and there is none if it does not
\* parse (install.rs:43-106, 179-192; serve.rs:62-73; config.rs:105-140).
InstallForetellsLaunch ==
  note # None /\ FileOn("client") = note.file =>
    LET start == Launched(registered, environs["client"])
        exported == environs["client"].max
        ceilings == ResolveGuard(FileOn("client"), start)
    IN  /\ SourceOf([ref |-> start.ref, config |-> FileOn("client")]) = {} =>
             IsWallet(start.ref) /\ Trimmed[start.ref.of] # start.ref.of
        /\ note.refuses => ceilings = IF exported = None THEN {Unset} ELSE Parsed(exported)
        /\ ~note.refuses => ceilings = Parsed(registered.max) /\ Unset \notin ceilings

\* A key is used only if its source held it while the launch that uses it was
\* running: a key that was rotated before never signs, although ceilings,
\* references and configs of that time may still be in force
\* (proxy.rs:61-80; key.rs:114-131).
RetiredKeysAreIdle ==
  process # None /\ process.key # None =>
    \/ process.source \in RawSources /\ process.key = process.source
    \/ [store |-> process.source, key |-> process.key] \in held

=============================================================================
