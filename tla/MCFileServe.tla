---------------------------- MODULE MCFileServe ----------------------------
(* Small instances of FileServe for TLC. *)
EXTENDS FileServe, TLC

CONSTANTS short, empty   \* the contents of one byte and of none, if in use

MCSize == [c \in Contents |-> IF c = empty THEN 0 ELSE IF c = short THEN 1 ELSE 2]

Plain(etag, route) ==
  [etag |-> etag, route |-> route, tagRule |-> "keep", dateRule |-> "keep"]

(* The default configuration, with and without renderSingle. *)
TagConfigs == {Plain(TRUE, "file"), Plain(TRUE, "single")}

(* --no-etag on the File arm beside the defaults. *)
DateConfigs == {Plain(FALSE, "file")} \union TagConfigs

(* --no-etag with renderSingle. *)
SingleDateConfigs == {Plain(FALSE, "single")}

(* Header rules that pin or drop validators, in either mode. *)
RuleConfigs ==
  {Plain(FALSE, "file"), Plain(TRUE, "single"),
   [Plain(FALSE, "file") EXCEPT !.tagRule = "pin"],
   [Plain(FALSE, "file") EXCEPT !.dateRule = "pin"],
   [Plain(TRUE, "file") EXCEPT !.tagRule = "drop"]}
=============================================================================
