----------------------------- MODULE CommandLine -----------------------------
(***************************************************************************)
(* The command line of krsm and its report (src/cmd/krsm/main.go): what    *)
(* run, runCheck and runCheckLive make of their arguments before they read *)
(* anything, and what writeReport prints.                                  *)
(*                                                                         *)
(* An argument is a record [form, name, value]: a "word", a "flag" such as *)
(* --mode, or a flag with a value "eq" such as -n=prod, spelt with the     *)
(* dashes the usage text gives it.  A value is a record [slash, kind, val]: *)
(* the text val, or kind/val when slash is TRUE.                           *)
(***************************************************************************)
EXTENDS Naturals, Sequences

text(v)    == [slash |-> FALSE, kind |-> "", val |-> v]
path(k, v) == [slash |-> TRUE, kind |-> k, val |-> v]

word(v)       == [form |-> "word", name |-> "", value |-> v]
flag(n)       == [form |-> "flag", name |-> n, value |-> text("")]
flagWith(n, v) == [form |-> "eq", name |-> n, value |-> v]

(* An argument read as a value, whatever it looks like, and as one string. *)
asValue(arg) == IF arg.form = "word" THEN arg.value ELSE text("-" \o arg.name)
asString(v)  == IF v.slash THEN v.kind \o "/" \o v.val ELSE v.val

-----------------------------------------------------------------------------
(* The flag package (external), on the flags of runCheck: it stops at the  *)
(* first word, and pending is the flag that waits for its value.           *)
booleans == {text(b) : b \in {"1", "0", "t", "f", "T", "F", "true", "false", "TRUE", "FALSE",
                              "True", "False"}}

valued == {"mode", "context", "kubeconfig", "n"}

unparsed ==
  [status |-> "flags", pending |-> "", rest |-> <<>>, mode |-> text("audit"),
   context |-> text(""), kubeconfig |-> text(""), n |-> text("")]

parseArg(p, arg) ==
  LET is(form, names) == arg.form = form /\ arg.name \in names
  IN  IF p.pending # "" THEN [p EXCEPT ![p.pending] = asValue(arg), !.pending = ""]
      ELSE IF p.status \in {"help", "error"} THEN p
      ELSE IF p.status = "rest" \/ arg.form = "word"
        THEN [p EXCEPT !.status = "rest", !.rest = Append(p.rest, arg)]
      ELSE IF is("flag", valued) THEN [p EXCEPT !.pending = arg.name]
      ELSE IF is("eq", valued) THEN [p EXCEPT ![arg.name] = arg.value]
      ELSE IF is("flag", {"plain"}) \/ (is("eq", {"plain"}) /\ arg.value \in booleans) THEN p
      ELSE [p EXCEPT !.status = IF arg.name \in {"h", "help"} THEN "help" ELSE "error"]

(* What is made of the first i arguments.                                  *)
parsed(args_) ==
  LET p[i \in 0..Len(args_)] == IF i = 0 THEN unparsed ELSE parseArg(p[i - 1], args_[i])
  IN  p

parseFlags(args_) ==
  LET p == parsed(args_)[Len(args_)]
  IN  IF p.pending # "" THEN [p EXCEPT !.status = "error"] ELSE p

modeKnown(v) == v \in {text("audit"), text("enforce")}

-----------------------------------------------------------------------------
(* The namespace flag among the positionals of the live path.  It is       *)
(* refused without a value, and with one that looks like a target.         *)
extractArg(x, arg) ==
  LET takes(v) == [x EXCEPT !.ok = x.ok /\ ~v.slash, !.ns = v, !.pending = FALSE]
      names == {"n", "namespace"}
  IN  IF x.pending THEN takes(asValue(arg))
      ELSE IF arg.form = "flag" /\ arg.name \in names THEN [x EXCEPT !.pending = TRUE]
      ELSE IF arg.form = "eq" /\ arg.name \in names THEN takes(arg.value)
      ELSE [x EXCEPT !.positional = Append(x.positional, arg)]

unextracted == [ok |-> TRUE, ns |-> text(""), pending |-> FALSE, positional |-> <<>>]

extracted(rest) ==
  LET x[i \in 0..Len(rest)] == IF i = 0 THEN unextracted ELSE extractArg(x[i - 1], rest[i])
  IN  x

extractNamespace(rest) == extracted(rest)[Len(rest)]

splits(target) == target.slash /\ target.kind # "" /\ target.val # ""

-----------------------------------------------------------------------------
(* Which way an invocation goes: "usage" (exit 0), "error" (exit 1), or to *)
(* a scenario or a live cluster.                                           *)
usage(how) ==
  [way |-> how, mode |-> "audit", dir |-> text(""), verb |-> "", target |-> text(""), ns |-> ""]

(* Slip kept for checking: further positionals are ignored.                *)
checkScenarioFirst(p) ==
  IF Len(p.rest) < 1 THEN usage("error")
  ELSE [usage("scenario") EXCEPT !.mode = p.mode.val, !.dir = asValue(p.rest[1])]

checkScenario(p) ==
  IF Len(p.rest) # 1 THEN usage("error")
  ELSE [usage("scenario") EXCEPT !.mode = p.mode.val, !.dir = asValue(p.rest[1])]

(* A namespace after the target overrides one before it.                   *)
checkLive(p) ==
  LET x == extractNamespace(p.rest)
  IN  IF ~x.ok \/ x.pending \/ Len(x.positional) # 2 THEN usage("error")
      ELSE [usage("live") EXCEPT
              !.mode = p.mode.val,
              !.verb = asString(asValue(x.positional[1])),
              !.target = asValue(x.positional[2]),
              !.ns = asString(IF x.ns # text("") THEN x.ns ELSE p.n)]

runCheck(args_) ==
  LET p == parseFlags(args_)
  IN  IF p.status = "help" THEN usage("usage")
      ELSE IF p.status = "error" \/ ~modeKnown(p.mode) THEN usage("error")
      ELSE IF p.context # text("") \/ p.kubeconfig # text("") THEN checkLive(p)
      ELSE checkScenario(p)

run(args_) ==
  LET cmd == IF args_ = <<>> THEN word(text("help")) ELSE Head(args_)
  IN  IF cmd = word(text("check")) THEN runCheck(Tail(args_))
      ELSE IF cmd \in {word(text("version")), word(text("help"))} \cup
                      {flag(f) : f \in {"version", "v", "help", "h"}}
        THEN usage("usage")
      ELSE usage("error")

-----------------------------------------------------------------------------
(* The report: its verdict word, and what stdout and stderr detail.        *)
nothingShown == [word |-> "", source |-> "", closure |-> {}, out |-> {}, err |-> {}]

printed(word_, source_, dec, out_, err_) ==
  [word |-> word_, source |-> source_, closure |-> dec.closure, out |-> out_, err |-> err_]

(* Slip kept for checking: a Warn is taken for a pure one.                 *)
writeReportPureWarn(source_, dec) ==
  CASE dec.verdict = "Block" -> printed("BLOCK", source_, dec, dec.escaping, {})
    [] dec.verdict = "Warn"  -> printed("WARN", source_, dec, {}, dec.external)
    [] OTHER -> printed("ALLOW", source_, dec, {}, {})

(* An audited escape is on stdout, and what leaves the cluster on stderr;  *)
(* a Block does not list the latter.                                       *)
writeReport(source_, dec) ==
  CASE dec.verdict = "Block" -> printed("BLOCK", source_, dec, dec.escaping, {})
    [] dec.verdict = "Warn"  -> printed("WARN", source_, dec, dec.escaping, dec.external)
    [] OTHER -> printed("ALLOW", source_, dec, {}, {})
=============================================================================
