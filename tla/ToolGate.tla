------------------------------ MODULE ToolGate ------------------------------
(***************************************************************************)
(* What this server lets through to the middleware: the denylist of        *)
(* internal/tools/safety.go, which holds for every path, and the allowlist *)
(* of internal/tools/discovery.go, which bounds search_methods,            *)
(* describe_method and call_method. The tables are parameters; a check is  *)
(* TRUE when it lets the call through.                                     *)
(*                                                                         *)
(* The parameters of a call are the set of arguments that are true in it,  *)
(* each with where it stands: at the top of an object, or in its options.  *)
(***************************************************************************)
CONSTANTS
  Methods,          \* names of middleware methods
  Arguments,        \* names of arguments
  denied,           \* denials with no Arg: the methods denied in every form
  deniedWith,       \* denials with an Arg: the arguments denied to each method
  withheld,         \* the methods under a prefix of discoveryExclusions
  safeUnroledReads  \* methods without roles established to be reads

ASSUME GateAssumption ==
  /\ denied \subseteq Methods /\ withheld \subseteq Methods /\ safeUnroledReads \subseteq Methods
  /\ deniedWith \in [Methods -> SUBSET Arguments]

Params == SUBSET ({"top", "options"} \X Arguments)
At(where, params) == {a \in Arguments : <<where, a>> \in params}

\* What core.get_methods says of a method.
MethodInfo == [roles : SUBSET {"READONLY_ADMIN", "other"}, job : BOOLEAN, pipe : BOOLEAN]

CheckDenied(method, args) == method \notin denied /\ args \cap deniedWith[method] = {}

readOnly(info) == "READONLY_ADMIN" \in info.roles

IsSafeUnroledRead(method) == method \in safeUnroledReads

CheckDiscoverable(method, info, writesEnabled) ==
  /\ CheckDenied(method, {})
  /\ method \notin withheld
  /\ ~info.pipe
  /\ \/ info.roles = {} /\ IsSafeUnroledRead(method)
     \/ info.roles # {} /\ (readOnly(info) \/ writesEnabled)
=============================================================================
