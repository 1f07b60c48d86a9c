---------------------------- MODULE RuleLanguage ----------------------------
(***************************************************************************)
(* The language access rules are declared in (platform/rules.ts).          *)
(*                                                                         *)
(* A value is the set of what a path leads to: empty for undefined, the    *)
(* elements of a list.  A ref is the id it names.  Which of the two it is, *)
(* one value or a list, is in the path.  The order of a list is left out,  *)
(* and with it the comparison of two lists, which is by their JSON.        *)
(***************************************************************************)
EXTENDS Writes

\* compileRules: the paths into the row that a rule mentions.
RECURSIVE Mentioned(_)
Mentioned(rule) ==
  CASE rule.op \in {"always", "never"}  -> {}
    [] rule.op \in {"equals", "in"}     -> {x.path : x \in {x \in {rule.left, rule.right} : x.op \in {"fields", "after"}}}
    [] rule.op \in {"anyOf", "allOf"}   -> UNION {Mentioned(r) : r \in rule.of}
    [] rule.op = "not"                  -> Mentioned(rule.of)

\* compileExpression on an operand.
Operand(x, ctx) ==
  CASE x.op = "literal" -> {x.value}
    [] x.op = "actor"   -> Reached(ctx.actors, ctx.actor, x.path)
    [] x.op = "subject" -> {ctx.subject}
    [] x.op = "fields"  -> ctx.fields[x.path]
    [] x.op = "after"   -> ctx.after[x.path]

\* A path through a multiple field leads to a list, to an empty one even.
Many(x) == x.op \in {"fields", "after", "actor"} /\ \E i \in DOMAIN x.path : x.path[i] \in Multiple

\* normalize, then same: a list is not the same as its only element.
Same(x, y, ctx) == ~ Many(x) /\ ~ Many(y) /\ Operand(x, ctx) = Operand(y, ctx)

\* One value among those of a list: in nothing else can anything be.
Among(x, list, ctx) ==
  Many(list) /\ ~ Many(x) /\ \E v \in Operand(list, ctx) : Operand(x, ctx) = {v}

RECURSIVE Holds(_, _)
Holds(rule, ctx) ==
  CASE rule.op = "always" -> TRUE
    [] rule.op = "never"  -> FALSE
    [] rule.op = "equals" /\ ~ (Many(rule.left) /\ Many(rule.right)) -> Same(rule.left, rule.right, ctx)
    [] rule.op = "in"     -> Among(rule.left, rule.right, ctx)
    [] rule.op = "anyOf"  -> \E r \in rule.of : Holds(r, ctx)
    [] rule.op = "allOf"  -> \A r \in rule.of : Holds(r, ctx)
    [] rule.op = "not"    -> ~ Holds(rule.of, ctx)
=============================================================================
