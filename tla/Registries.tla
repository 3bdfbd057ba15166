----------------------------- MODULE Registries -----------------------------
(* The registry manifests and docker's config.json (handlers_registry.go):    *)
(* every event rewrites the credentials of the file from all stored           *)
(* registries. The file is the controller's only copy, docker and operators   *)
(* read and write it too, and a controller that stops forgets its events.     *)
EXTENDS Integers, Sequences, FiniteSets, SequencesExt

CONSTANTS
  RegNames,     \* registries, in the order the store lists them: a sequence
  RegSpecs,     \* [url, how]: how is "token", "helper", or "both" or "none", which do not decode
  NoReg,
  MaxRegOps, MaxUpsets  \* bounds: puts and deletes; crashes, errors and outside edits

ASSUME RegistriesAssumption ==
  /\ NoReg \notin RegSpecs /\ {MaxRegOps, MaxUpsets} \subseteq Nat
  /\ RegNames \in Seq(ToSet(RegNames)) /\ IsInjective(RegNames)

VARIABLES
  regs,        \* the stored registries, by name
  regEvents,   \* how many events the reconciler has not handled
  pass,        \* the regeneration under way: the credentials it will write, or NoReg
  dockerConf,  \* the file: [auths, helpers, extra, parses]; auths and helpers by url
  regOps, upsets,
  failedPass,  \* history: the last regeneration failed
  forgot       \* history: a crash lost the events of the last delete

registriesVars == <<regs, regEvents, pass, dockerConf, regOps, upsets, failedPass, forgot>>

RegistriesInit ==
  /\ regs = [n \in ToSet(RegNames) |-> NoReg] /\ regEvents = 0 /\ pass = NoReg
  /\ dockerConf = [auths |-> {}, helpers |-> {}, extra |-> TRUE, parses |-> TRUE]
  /\ regOps = 0 /\ upsets = 0 /\ failedPass = FALSE /\ forgot = FALSE

Upset == upsets < MaxUpsets /\ upsets' = upsets + 1

ChangeRegistry(n, s) ==
  /\ regs[n] # s /\ regOps < MaxRegOps /\ regOps' = regOps + 1
  /\ regs' = [regs EXCEPT ![n] = s] /\ regEvents' = regEvents + 1
  /\ forgot' = FALSE
  /\ UNCHANGED <<pass, dockerConf, upsets, failedPass>>

\* decodeRegistrySpec: a spec with both or neither way to log in is skipped.
\* Of two registries with one url the later one in the list wins, each way on
\* its own: a token of one and the helper of another may both be in the file.
Usable(how) == {i \in DOMAIN RegNames : regs[RegNames[i]] # NoReg /\ regs[RegNames[i]].how = how}
Claims(how) ==
  {<<regs[RegNames[i]].url, RegNames[i]>> : i \in {j \in Usable(how) :
     \A k \in Usable(how) : k > j => regs[RegNames[k]].url # regs[RegNames[j]].url}}
Wanted == [auths |-> Claims("token"), helpers |-> Claims("helper")]

\* loadOrInit: the file's other keys, if it can be read as JSON.
LoadConf == dockerConf.extra /\ dockerConf.parses
Pass == [auths |-> Wanted.auths, helpers |-> Wanted.helpers, extra |-> LoadConf]

\* Variant: the credentials in the file are kept and those stored are added.
GatherOnTop ==
  /\ regEvents > 0 /\ pass = NoReg
  /\ \/ pass' = [Pass EXCEPT !.auths = dockerConf.auths \cup @] /\ UNCHANGED <<regEvents, upsets, failedPass>>
     \/ Upset /\ failedPass' = TRUE /\ regEvents' = regEvents - 1 /\ UNCHANGED pass
  /\ UNCHANGED <<regs, dockerConf, regOps, forgot>>

\* regenerate: list, load, then make the credentials anew.
Gather ==
  /\ regEvents > 0 /\ pass = NoReg
  /\ \/ pass' = Pass /\ UNCHANGED <<regEvents, upsets, failedPass>>
     \/ Upset /\ failedPass' = TRUE /\ regEvents' = regEvents - 1 /\ UNCHANGED pass
  /\ UNCHANGED <<regs, dockerConf, regOps, forgot>>

\* save: the rename is the only step that shows.
SaveConf ==
  /\ pass # NoReg /\ pass' = NoReg /\ regEvents' = regEvents - 1
  /\ \/ /\ dockerConf' = [auths |-> pass.auths, helpers |-> pass.helpers,
                          extra |-> pass.extra, parses |-> TRUE]
        /\ failedPass' = FALSE /\ UNCHANGED upsets
     \/ Upset /\ failedPass' = TRUE /\ UNCHANGED dockerConf
  /\ UNCHANGED <<regs, regOps, forgot>>

\* An operator's docker login, or an edit that leaves no JSON.
EditByHand ==
  /\ Upset
  /\ \E ok \in BOOLEAN :
       dockerConf' = [dockerConf EXCEPT !.auths = @ \cup {<<"byhand", "byhand">>}, !.parses = ok]
  /\ failedPass' = TRUE
  /\ UNCHANGED <<regs, regEvents, pass, regOps, forgot>>

\* The replay has one event for every stored registry, and none for a deleted one.
RestartController ==
  /\ Upset /\ pass' = NoReg
  /\ regEvents' = Cardinality({n \in ToSet(RegNames) : regs[n] # NoReg})
  /\ forgot' = (forgot \/ (regEvents > 0 /\ regEvents' = 0))
  /\ UNCHANGED <<regs, dockerConf, regOps, failedPass>>

RegistriesNext ==
  \/ \E n \in ToSet(RegNames), s \in RegSpecs \cup {NoReg} : ChangeRegistry(n, s)
  \/ Gather \/ SaveConf \/ EditByHand \/ RestartController

RegistriesSpec == RegistriesInit /\ [][RegistriesNext]_registriesVars

\* When every event is handled the file has the credentials of the stored
\* registries and no others: those of a deleted one are gone, a restart between
\* a change and its handling makes no difference. Unless the last rewrite failed
\* or somebody edited the file since, or the controller stopped before it handled
\* the delete of the last registry: no replay brings that one up again.
CredentialsFollow ==
  regEvents = 0 /\ ~failedPass /\ ~forgot =>
    dockerConf.auths = Wanted.auths /\ dockerConf.helpers = Wanted.helpers
=============================================================================
