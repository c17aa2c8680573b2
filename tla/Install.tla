------------------------------ MODULE Install ------------------------------
(***************************************************************************)
(* What herd init puts on a host before it bootstraps storage and network  *)
(* (module HostSetup): the binaries, the kernel and herd.yaml, and what    *)
(* herd teardown takes away again.  cmd/herd/init.go with                  *)
(* internal/config/config.go.                                              *)
(*                                                                         *)
(* An init may fail or be killed at any point and be run again, with other *)
(* answers.  os.Create and os.WriteFile truncate a file and fill it later, *)
(* so a file may be there and not be whole.  Of herd.yaml only what init   *)
(* does not fix is kept: the limits, the paths and the cloud section.      *)
(***************************************************************************)
EXTENDS Integers

CONSTANTS
    Numbers,   \* what an operator may give for a limit, as a flag or at a prompt
    Defaults,  \* per limit, what init derives from the host
    NoAnswer   \* an empty line at a prompt

Limits == {"vms", "memory", "cpu"}
\* Config.Validate: the least value of each limit
Least == [l \in Limits |-> IF l = "cpu" THEN 0 ELSE 1]

ASSUME NumbersAssumption == Numbers \subseteq Int /\ NoAnswer \notin Numbers
ASSUME DefaultsAssumption ==
    Defaults \in [Limits -> Nat] /\ \A l \in Limits : Defaults[l] >= Least[l]

VARIABLES
    step,  \* where the running init is, "idle" without one
    yes,   \* --yes
    own,   \* "binaries", "kernel": what the operator brings
    todo,  \* the files this step still has to download
    open,  \* the file that is being written
    file,  \* per file: "absent", "partial" or "whole"
    conf,  \* herd.yaml
    torn   \* a teardown has removed the state directory since herd.yaml was written

cmdVars == <<step, yes, own, todo, open>>
diskVars == <<file, conf, torn>>
installVars == <<cmdVars, diskVars>>

Artifacts == {"firecracker", "jailer", "agent", "kernel"}

\* form: "absent"; "broken", which Load cannot decode or which lacks a required field;
\* "short", cut where only defaults and some of the cloud section are missing; "whole".
\* cloud: "off", or enabled, and then "on" with a machine token or "tokenless".
\* typed: the limits were typed at the prompts.
NoConf == [form |-> "absent", named |-> {}, valid |-> FALSE, cloud |-> "off", typed |-> FALSE]

InstallInit ==
    /\ step = "idle" /\ yes = FALSE /\ own = {} /\ todo = {} /\ open = "none"
    /\ file = [a \in Artifacts |-> "absent"]
    /\ conf = NoConf /\ torn = FALSE

\* The command ends.
Quit == step' = "idle" /\ yes' = FALSE /\ own' = {} /\ todo' = {} /\ open' = "none"

-----------------------------------------------------------------------------
(* Downloads *)

\* what each step brings; one archive has both binaries
Files == [binaries |-> {"firecracker", "jailer"}, agent |-> {"agent"}, kernel |-> {"kernel"},
          config |-> {}]

PresentFirst(phase) == \E a \in Files[phase] : a # "jailer" /\ file[a] # "absent"

\* os.Stat finds the step's files
Present(phase) == \A a \in Files[phase] : file[a] # "absent"

\* What a step downloads.  With --yes files that are there are taken as they are, as the
\* guest agent always is; after the prompts binaries and kernel are downloaded again.
Needed(phase, y, o) ==
    IF phase \in o \/ ((y \/ phase = "agent") /\ Present(phase)) THEN {} ELSE Files[phase]

\* herd init, with its flags or answers
RunInit(y, o) ==
    /\ step = "idle"
    /\ step' = "binaries" /\ yes' = y /\ own' = o
    /\ todo' = Needed("binaries", y, o)
    /\ UNCHANGED <<open, diskVars>>

\* the files that herd.yaml then names and init manages
Managed(o) == UNION {Files[phase] : phase \in DOMAIN Files \ o}

After == [binaries |-> "agent", agent |-> "kernel", kernel |-> "config"]

\* on to the next step, whose os.Stat comes first
NextStep ==
    /\ step \in DOMAIN After /\ todo = {}
    /\ step' = After[step]
    /\ todo' = Needed(After[step], yes, own)
    /\ UNCHANGED <<yes, own, open, diskVars>>

\* the response is 200, or the archive has come to this entry: os.Create
Create(a) ==
    /\ a \in todo /\ open = "none"
    /\ open' = a
    /\ file' = [file EXCEPT ![a] = "partial"]
    /\ UNCHANGED <<step, yes, own, todo, conf, torn>>

CopiedStaysOpen ==
    /\ open # "none"
    /\ file' = [file EXCEPT ![open] = "whole"]
    /\ todo' = todo \ {open}
    /\ UNCHANGED <<step, yes, own, open, conf, torn>>

\* io.Copy and os.Chmod
Copied ==
    /\ open # "none"
    /\ file' = [file EXCEPT ![open] = "whole"]
    /\ todo' = todo \ {open} /\ open' = "none"
    /\ UNCHANGED <<step, yes, own, conf, torn>>

-----------------------------------------------------------------------------
(* herd.yaml *)

\* no answer at a prompt is the default, any number counts
promptInt(answer, default) == IF answer = NoAnswer THEN default ELSE answer

FlagFromZero(n, default) == IF n >= 0 THEN n ELSE default

\* with --yes a flag counts if it is positive; 0 is one that was not given
Flag(n, default) == IF n > 0 THEN n ELSE default

\* the limits that herd.yaml may get
Choices(y) ==
    IF y THEN {[l \in Limits |-> Flag(given[l], Defaults[l])] : given \in [Limits -> Numbers]}
    ELSE {[l \in Limits |-> promptInt(given[l], Defaults[l])] :
            given \in [Limits -> Numbers \cup {NoAnswer}]}

\* The rest of what Validate looks at is fixed by init.
Validate(limits, kernelPath) == kernelPath # "" /\ \A l \in Limits : limits[l] >= Least[l]

\* os.WriteFile opens herd.yaml, which truncates it
OpenConfig ==
    /\ step = "config"
    /\ step' = "write"
    /\ conf' = [NoConf EXCEPT !.form = "broken"]
    /\ UNCHANGED <<yes, own, todo, open, file, torn>>

\* the data: limits, a path for the kernel (the prompt for an own one takes an empty
\* answer), endpoint and token, which enable the cloud if both are given
WriteConfig ==
    /\ step = "write"
    /\ step' = "bootstrap"
    /\ torn' = FALSE
    /\ \E limits \in Choices(yes), cloud \in {"off", "on"},
          path \in IF "kernel" \in own /\ ~yes THEN {"", "path"} ELSE {"path"} :
        conf' = [form |-> "whole", named |-> Managed(own), cloud |-> cloud,
                 valid |-> Validate(limits, path), typed |-> ~yes]
    /\ UNCHANGED <<yes, own, todo, open, file>>

\* The write ends early, with the disk full or a kill.  What is there may still load:
\* telemetry has defaults, without its section the cloud is disabled, and with a part of
\* it the cloud may be enabled and the token be missing.
CutConfig ==
    /\ step = "write"
    /\ Quit
    /\ torn' = FALSE
    /\ \E limits \in Choices(yes), cloud \in {"off", "tokenless", "on"} :
        conf' = [form |-> "short", named |-> Managed(own), cloud |-> cloud,
                 valid |-> Validate(limits, "path"), typed |-> ~yes]
    /\ UNCHANGED file

\* config.Load: start, teardown and the clients call it, and give up when it fails
Load == conf.form \in {"short", "whole"} /\ conf.valid

-----------------------------------------------------------------------------
\* init returns after its bootstrap; log.Fatal or a signal ends it anywhere before
EndInit ==
    /\ step # "idle"
    /\ Quit
    /\ UNCHANGED diskVars

\* herd teardown removes the state directory, and the kernel init put there with it;
\* herd.yaml stays
Teardown ==
    /\ step = "idle" /\ Load
    /\ file' = [file EXCEPT !["kernel"] = "absent"]
    /\ torn' = TRUE
    /\ UNCHANGED <<cmdVars, conf>>

InstallNext ==
    \/ \E y \in BOOLEAN, o \in SUBSET {"binaries", "kernel"} : RunInit(y, o)
    \/ NextStep \/ (\E a \in Artifacts : Create(a)) \/ Copied
    \/ OpenConfig \/ WriteConfig \/ CutConfig \/ EndInit \/ Teardown

-----------------------------------------------------------------------------
(* Properties *)

InstallTypeOK ==
    /\ step \in DOMAIN After \cup {"idle", "config", "write", "bootstrap"}
    /\ yes \in BOOLEAN /\ own \in SUBSET {"binaries", "kernel"}
    /\ todo \in SUBSET Artifacts /\ open \in todo \cup {"none"}
    /\ file \in [Artifacts -> {"absent", "partial", "whole"}]
    /\ conf \in [form : {"absent", "broken", "short", "whole"}, named : SUBSET Artifacts,
                 valid : BOOLEAN, cloud : {"off", "tokenless", "on"}, typed : BOOLEAN]
    /\ torn \in BOOLEAN

\* herd.yaml names no file that is not there, whatever inits were cut short before the
\* one that wrote it, until a teardown; and an init that came through its prompts has
\* whole binaries and a whole kernel, whatever it found.
InstallComplete ==
    /\ conf.form = "whole" /\ ~torn => \A a \in conf.named : file[a] # "absent"
    /\ step \in {"config", "write", "bootstrap"} /\ ~yes =>
            \A a \in Managed(own) \ {"agent"} : file[a] = "whole"

\* config.go: "The daemon fails fast if any required field is missing or malformed."
\* What init --yes writes is never refused, whatever the flags: neither start nor
\* teardown is locked out.
ConfigLoads == conf.form \in {"short", "whole"} /\ ~conf.typed => Load
=============================================================================
