------------------------------- MODULE Node -------------------------------
(***************************************************************************)
(* A node of the cloud control plane over its life: init and teardown      *)
(* (module Install), daemons that start and end one after another, and the *)
(* identity that the control plane gives the node with swap_credentials    *)
(* and that internal/cloud/client.go keeps beside herd.yaml.               *)
(*                                                                         *)
(* A key or an id on disk is the number of the swap it came with, 0 if the *)
(* file is missing or empty.  The daemon's end, orderly or not, does not   *)
(* wait for persistIdentity.  The other commands are in module Daemon.     *)
(*                                                                         *)
(* herd.yaml and node.key lie in the home of the user who called sudo, and *)
(* both paths are worked out anew by every command: the model is of one    *)
(* such home, whose user gives no --config.                                *)
(***************************************************************************)
EXTENDS Install, Sequences

CONSTANT MaxSwaps   \* bound on the credential swaps

ASSUME SwapsAssumption == MaxSwaps \in Nat

VARIABLES
    up,       \* a daemon runs
    link,     \* what its stream authenticated with, <<>> without a stream
    persist,  \* the calls that persistIdentity still makes
    keyFile, idFile,  \* node.key and node.id
    swaps,    \* swap_credentials commands so far
    kept      \* the last one whose persistIdentity returned nil (a history variable)

identityVars == <<keyFile, idFile, swaps, kept>>
daemonVars == <<up, link, persist>>
nodeVars == <<installVars, daemonVars, identityVars>>

NodeInit ==
    /\ InstallInit
    /\ up = FALSE /\ link = <<>> /\ persist = <<>>
    /\ keyFile = 0 /\ idFile = 0 /\ swaps = 0 /\ kept = 0

\* loadLocalIdentity, and what Start authenticates with, <<>> if it has nothing
Credentials ==
    CASE keyFile # 0 /\ idFile # 0 -> <<"node", keyFile, idFile>>
      [] (keyFile = 0 \/ idFile = 0) /\ conf.cloud = "on" -> <<"token">>
      [] OTHER -> <<>>

\* the transport that answers, TLS tried before plaintext
dialWithFallback == {"tls", "insecure", "neither"}

\* runDaemon loads herd.yaml and starts the client if the cloud is enabled.  It tries
\* once: no transport answers (none does at an endpoint that was cut), there is nothing
\* to authenticate with, or the stream is refused, and the daemon goes on without.
StartDaemon ==
    /\ ~up /\ Load
    /\ up' = TRUE
    /\ \E transport \in dialWithFallback, accepted \in BOOLEAN :
        link' = IF conf.cloud # "off" /\ transport # "neither" /\ accepted
                THEN Credentials ELSE <<>>
    /\ UNCHANGED <<installVars, persist, identityVars>>

\* a signal, a failing listener, a crash
EndDaemon ==
    /\ up
    /\ up' = FALSE /\ link' = <<>> /\ persist' = <<>>
    /\ UNCHANGED <<installVars, identityVars>>

\* Recv fails: commandLoop returns
StreamEnds ==
    /\ link # <<>> /\ persist = <<>>
    /\ link' = <<>>
    /\ UNCHANGED <<installVars, up, persist, identityVars>>

PersistCallsIdFirst == <<"truncate_id", "write_id", "remove_key", "write_key">>

\* persistIdentity after its MkdirAll.  WriteFile finds no key, and truncates the id.
PersistCalls == <<"remove_key", "write_key", "truncate_id", "write_id">>

\* commandLoop receives swap_credentials with both parameters; MkdirAll may fail
SwapCredentials ==
    /\ link # <<>> /\ persist = <<>>
    /\ swaps < MaxSwaps
    /\ swaps' = swaps + 1
    /\ persist' \in {PersistCalls, <<>>}
    /\ UNCHANGED <<installVars, up, link, keyFile, idFile, kept>>

Persist ==
    /\ persist # <<>>
    /\ persist' = Tail(persist)
    /\ keyFile' = CASE Head(persist) = "remove_key" -> 0
                    [] Head(persist) = "write_key" -> swaps
                    [] OTHER -> keyFile
    /\ idFile' = CASE Head(persist) = "truncate_id" -> 0
                   [] Head(persist) = "write_id" -> swaps
                   [] OTHER -> idFile
    /\ kept' = IF Len(persist) = 1 THEN swaps ELSE kept
    /\ UNCHANGED <<installVars, up, link, swaps>>

\* one of the two WriteFiles fails: the error is logged; os.Remove's is ignored
PersistFails ==
    /\ persist # <<>> /\ Head(persist) # "remove_key"
    /\ persist' = <<>>
    /\ UNCHANGED <<installVars, up, link, identityVars>>

Next ==
    \/ InstallNext /\ UNCHANGED <<daemonVars, identityVars>>
    \/ StartDaemon \/ EndDaemon \/ StreamEnds
    \/ SwapCredentials \/ Persist \/ PersistFails

Spec == NodeInit /\ [][Next]_nodeVars

-----------------------------------------------------------------------------
(* Properties *)

\* The types of the variables; a file that is being written is one of those to download.
TypeOK ==
    /\ InstallTypeOK
    /\ up \in BOOLEAN
    /\ link \in {<<>>, <<"token">>} \cup ({"node"} \X (1..MaxSwaps) \X (1..MaxSwaps))
    /\ \E i \in 1..5 : persist = SubSeq(PersistCalls, i, 4)
    /\ {keyFile, idFile, swaps, kept} \subseteq 0..MaxSwaps

\* client.go: "NodeKey persisted [...] One-time token approach is now superseded."  Once
\* a swap is persisted the next daemon presents that key and that id, through any
\* restarts, inits and teardowns, unless a later swap was cut short.  And no id is
\* ever presented with a key that is older than it.
IdentityKept ==
    /\ kept = swaps /\ kept # 0 => Credentials = <<"node", kept, kept>>
    /\ Credentials \notin {<<>>, <<"token">>} => idFile <= keyFile
=============================================================================
