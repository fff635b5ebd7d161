------------------------------ MODULE Dispatch ------------------------------
(***************************************************************************)
(* The concern tools as functions: how an operation of                     *)
(* internal/tools/concerns.go is resolved against the arguments supplied   *)
(* (internal/tools/dispatch.go), turned into a middleware call, and how    *)
(* its answer is cut down (internal/server/concern_tool.go).               *)
(*                                                                         *)
(* An argument is its name; a caller supplies a set of them. An item of a  *)
(* list is the set of its fields, if it is an object at all.               *)
(***************************************************************************)
EXTENDS Integers, Sequences

CONSTANTS Fields,       \* names of fields
          defaultLimit  \* 50 in the code

ASSUME DispatchAssumption == defaultLimit \in Nat \ {0}

ArgNames == {"id", "name", "container", "pool", "dataset", "path", "category"}
Op == [Args : SUBSET ArgNames, Required : SUBSET ArgNames, Filters : SUBSET ArgNames,
       Options : BOOLEAN, Project : SUBSET Fields]
Item == [object : BOOLEAN, fields : SUBSET Fields]

acceptedArgs(op) == op.Args \cup op.Filters

\* Mutant: an argument the operation has no use for is ignored.
ResolveLenient(op, args) == op.Required \subseteq args

Resolve(op, args) == args \subseteq acceptedArgs(op) /\ op.Required \subseteq args

effectiveLimit(limit) == IF limit <= 0 THEN defaultLimit ELSE limit

\* The identifier that goes first: id before name before path.
positional(op, args) ==
  LET given == args \cap op.Args
  IN IF "id" \in given THEN {"id"} ELSE IF "name" \in given THEN {"name"} ELSE given \cap {"path"}

\* What reaches the target of the arguments and of the limit; 0 is no limit.
middlewareParams(op, args, limit) ==
  IF positional(op, args) # {} THEN [args |-> positional(op, args), limit |-> 0]
  ELSE IF op.Options THEN [args |-> {}, limit |-> effectiveLimit(limit)]
  ELSE [args |-> op.Filters \cap args, limit |-> 0]

projectFields(item, fields) ==
  IF item.object THEN [item EXCEPT !.fields = @ \cap fields] ELSE item

\* Mutant: the cut is made one item late.
truncatedLate(total, limit) == total > limit + 1

truncated(total, limit) == total > limit

\* DispatchOutput for a list, the fields cleared for an operation that sent
\* its limit along included.
shape(op, list, limit, full) ==
  LET cut == truncated(Len(list), effectiveLimit(limit))
      page == IF cut THEN SubSeq(list, 1, effectiveLimit(limit)) ELSE list
      items == IF op.Project # {} /\ ~full
               THEN [i \in DOMAIN page |-> projectFields(page[i], op.Project)] ELSE page
  IN [items |-> items,
      total |-> IF op.Options THEN 0 ELSE Len(list),
      truncated |-> ~op.Options /\ cut,
      projected |-> \E i \in DOMAIN page : items[i] # page[i]]
=============================================================================
