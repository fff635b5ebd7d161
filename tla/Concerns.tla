------------------------------ MODULE Concerns ------------------------------
(***************************************************************************)
(* internal/tools/concerns.go: the operations of the concern tools, each   *)
(* as the arguments it takes and how. Operations that agree in that are    *)
(* one here: which method they call, and what they say of themselves, is   *)
(* data. apps(op="logs") and filesystem(op="read") do not call a method    *)
(* and have modules of their own, AppLogs and Download.                    *)
(***************************************************************************)
EXTENDS Dispatch

CONSTANT Shown  \* the fields that an operation with Project keeps

ASSUME ConcernsAssumption == Shown # {} /\ Shown \subseteq Fields

Plain == [Args |-> {}, Required |-> {}, Filters |-> {}, Options |-> FALSE, Project |-> {}]
GetOne(arg) == [Plain EXCEPT !.Args = {arg}, !.Required = {arg}]
Narrowed(arg) == [Plain EXCEPT !.Filters = {arg}]
Reduced(op) == [op EXCEPT !.Project = Shown]

Storage == {Plain, GetOne("id"), Narrowed("pool"), Narrowed("dataset")}
System == {Plain, Reduced([Plain EXCEPT !.Options = TRUE])}
Apps == {Plain, Reduced(Plain), GetOne("name")}
Catalog == {Plain, Reduced(Narrowed("category")), [Narrowed("name") EXCEPT !.Required = {"name"}]}
Virtualization == {Plain, GetOne("id")}
Sharing == {Plain, GetOne("id")}
Backup == {Plain, GetOne("id")}
Filesystem == {GetOne("path")}

ReadConcerns == Storage \cup System \cup Apps \cup Sharing \cup Virtualization \cup Backup \cup Filesystem \cup Catalog
=============================================================================
