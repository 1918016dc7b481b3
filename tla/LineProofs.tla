----------------------------- MODULE LineProofs -----------------------------
(***************************************************************************)
(* Proofs about the command line: what the flag package and                *)
(* extractNamespace make of it, argument by argument, is what it says.     *)
(***************************************************************************)
EXTENDS CommandProofs, SequenceTheorems

-----------------------------------------------------------------------------
(* The recursive functions of CommandLine are what they are written as, for *)
(* a line of any length.                                                   *)

(* The flag package, argument by argument (main.go:155-169).               *)
LEMMA ParsedStepByStep ==
  ASSUME NEW line, Len(line) \in Nat
  PROVE  /\ parsed(line)[0] = unparsed
         /\ \A i \in 1..Len(line) : parsed(line)[i] = parseArg(parsed(line)[i - 1], line[i])
<1> DEFINE n == Len(line)
           IsUpTo(f, k) ==
             f = [i \in 0..k |-> IF i = 0 THEN unparsed ELSE parseArg(f[i - 1], line[i])]
           Missing == {k \in Nat : ~\E f : IsUpTo(f, k)}
<1>1. Missing = {}
  <2> SUFFICES ASSUME Missing # {} PROVE FALSE
    OBVIOUS
  <2>1. PICK k \in Missing : \A j \in Missing : k <= j
    <3>1. Missing \subseteq Nat
      OBVIOUS
    <3> HIDE DEF Missing
    <3> QED
      BY <3>1, FirstPlace
  <2>2. k \in Nat /\ ~\E f : IsUpTo(f, k)
    BY <2>1
  <2>3. k # 0
    <3>1. IsUpTo([i \in 0..0 |-> unparsed], 0)
      OBVIOUS
    <3> QED
      BY <2>2, <3>1
  <2>4. PICK f : IsUpTo(f, k - 1)
    <3>1. k - 1 \in Nat /\ ~(k <= k - 1)
      BY <2>2, <2>3
    <3> QED
      BY <2>1, <3>1
  <2> DEFINE g == [i \in 0..k |-> IF i = 0 THEN unparsed ELSE parseArg(f[i - 1], line[i])]
  <2>5. \A i \in 0..k : i # 0 => g[i - 1] = f[i - 1]
    <3> SUFFICES ASSUME NEW i \in 0..k, i # 0 PROVE g[i - 1] = f[i - 1]
      OBVIOUS
    <3>1. i - 1 \in 0..(k - 1) /\ i - 1 \in 0..k
      BY <2>2
    <3>2. f[i - 1] = IF i - 1 = 0 THEN unparsed ELSE parseArg(f[(i - 1) - 1], line[i - 1])
      BY <2>4, <3>1
    <3> QED
      BY <3>1, <3>2
  <2>6. IsUpTo(g, k)
    BY <2>5
  <2> QED
    BY <2>2, <2>6
<1>2. PICK f : IsUpTo(f, n)
  BY <1>1
<1>3. IsUpTo(parsed(line), n)
  BY <1>2 DEF parsed
<1> HIDE DEF Missing
<1>4. 0 \in 0..n /\ \A i \in 1..n : i \in 0..n /\ i # 0
  OBVIOUS
<1> QED
  BY <1>3, <1>4

-----------------------------------------------------------------------------
(* What a line says.                                                       *)

Values    == [slash : BOOLEAN, kind : STRING, val : STRING]
Arguments == [form : {"word", "flag", "eq"}, name : STRING, value : Values]

(* A flag that waits for a value gets a word.                              *)
Clear(line) ==
  /\ line \in Seq(Arguments)
  /\ \A i \in DOMAIN line : line[i].form = "word" => line[i].name = ""
  /\ \A i \in DOMAIN line \ {Len(line)} :
       line[i].form = "flag" /\ line[i].name \in valued \cup {"namespace"} =>
         line[i + 1].form = "word"

(* Argument i gives a value to a flag of these names.                      *)
Gives(line, i, names) ==
  /\ i \in DOMAIN line /\ line[i].name \in names
  /\ line[i].form = "eq" \/ (line[i].form = "flag" /\ i # Len(line))

ValueAt(line, i) == IF line[i].form = "eq" THEN line[i].value ELSE asValue(line[i + 1])

LastGives(line, m, names, i) ==
  /\ i \in 1..m /\ Gives(line, i, names)
  /\ \A j \in 1..m : Gives(line, j, names) => j <= i

(* The last value among the first m arguments is v, if there is any.       *)
Heard(v, line, m, names) == \A i : LastGives(line, m, names, i) => v = ValueAt(line, i)

(* An argument that gives none of the names changes nothing.               *)
LEMMA HeardOn ==
  ASSUME NEW line, NEW m \in Nat, NEW names, NEW v, Heard(v, line, m, names),
         ~Gives(line, m + 1, names)
  PROVE  Heard(v, line, m + 1, names)
<1> SUFFICES ASSUME NEW i, LastGives(line, m + 1, names, i) PROVE v = ValueAt(line, i)
  BY DEF Heard
<1>1. i \in 1..m /\ \A j \in 1..m : j \in 1..(m + 1)
  BY DEF LastGives
<1>2. LastGives(line, m, names, i)
  BY <1>1 DEF LastGives
<1> QED
  BY <1>2 DEF Heard

(* And one that does is heard.                                             *)
LEMMA HeardNew ==
  ASSUME NEW line, NEW m \in Nat, m # 0, NEW names, Gives(line, m, names)
  PROVE  Heard(ValueAt(line, m), line, m, names)
<1> SUFFICES ASSUME NEW i, LastGives(line, m, names, i)
             PROVE  ValueAt(line, m) = ValueAt(line, i)
  BY DEF Heard
<1>1. i \in 1..m /\ m \in 1..m
  BY DEF LastGives
<1>2. m <= i
  BY <1>1 DEF LastGives
<1>3. m = i
  BY <1>1, <1>2
<1> QED
  BY <1>3

(* Nothing is heard of nothing.                                            *)
LEMMA HeardNothing ==
  ASSUME NEW line, NEW names, NEW v
  PROVE  Heard(v, line, 0, names)
  BY DEF Heard, LastGives

-----------------------------------------------------------------------------
(* The flag package.                                                       *)

parseFields == {"status", "pending", "rest"} \cup valued

(* The first m arguments are flags of runCheck, and heard.                 *)
HeardFlags(p, line, m) ==
  /\ \A f \in valued : Heard(p[f], line, m, {f})
  /\ \A j \in 1..m : line[j].name # "namespace"

(* The flags end before argument w, a word, and the rest is set aside.     *)
RestFrom(p, line, i, w) ==
  /\ w \in 1..i /\ line[w].form = "word" /\ HeardFlags(p, line, w - 1)
  /\ p["rest"] \in Seq(Arguments) /\ Len(p["rest"]) = i - w + 1
  /\ \A k \in 1..(i - w + 1) : p["rest"][k] = line[w + k - 1]

(* What is made of i arguments of a line.                                  *)
ParseInv(p, line, i) ==
  /\ p = [x \in parseFields |-> p[x]]
  /\ p["pending"] \in valued \cup {""}
  /\ p["pending"] # "" =>
       /\ p["status"] = "flags" /\ i # 0
       /\ line[i].form = "flag" /\ line[i].name = p["pending"]
       /\ HeardFlags(p, line, i - 1)
  /\ p["status"] = "flags" /\ p["pending"] = "" => HeardFlags(p, line, i)
  /\ p["status"] = "flags" => p["rest"] = <<>>
  /\ p["status"] = "rest" => \E w \in 1..i : RestFrom(p, line, i, w)
  /\ p["status"] \in {"flags", "rest", "help", "error"}

(* Before the first argument every flag has its default.                   *)
LEMMA ParseStarts ==
  ASSUME NEW line
  PROVE  ParseInv(unparsed, line, 0)
<1>1. unparsed = [x \in parseFields |-> unparsed[x]]
  BY DEF unparsed, parseFields, valued
<1>2. HeardFlags(unparsed, line, 0)
  BY HeardNothing DEF HeardFlags
<1> QED
  BY <1>1, <1>2 DEF ParseInv, unparsed

(* An argument of no name that a flag of runCheck has.                     *)
LEMMA FlagsHeardOn ==
  ASSUME NEW p, NEW line, NEW i \in Nat, HeardFlags(p, line, i), i + 1 \in 1..Len(line),
         \A f \in valued : ~Gives(line, i + 1, {f}), line[i + 1].name # "namespace"
  PROVE  HeardFlags(p, line, i + 1)
<1>1. \A f \in valued : Heard(p[f], line, i + 1, {f})
  BY HeardOn DEF HeardFlags
<1>2. \A j \in 1..(i + 1) : j \in 1..i \/ j = i + 1
  OBVIOUS
<1> QED
  BY <1>1, <1>2 DEF HeardFlags

(* A value is put under the flag it was given to.                          *)
LEMMA FlagsHeardNew ==
  ASSUME NEW p, NEW q, NEW line, NEW i \in Nat, HeardFlags(p, line, i), i + 1 \in 1..Len(line),
         NEW f \in valued, Gives(line, i + 1, {f}), q[f] = ValueAt(line, i + 1),
         \A g \in valued \ {f} : q[g] = p[g]
  PROVE  HeardFlags(q, line, i + 1)
<1>1. line[i + 1].name = f
  BY DEF Gives
<1>2. Heard(q[f], line, i + 1, {f})
  BY HeardNew
<1>3. ASSUME NEW g \in valued, g # f PROVE Heard(q[g], line, i + 1, {g})
  <2>1. ~Gives(line, i + 1, {g})
    BY <1>1, <1>3 DEF Gives
  <2> QED
    BY <1>3, <2>1, HeardOn DEF HeardFlags
<1>4. \A j \in 1..(i + 1) : j \in 1..i \/ j = i + 1
  OBVIOUS
<1>5. f # "namespace"
  BY DEF valued
<1> QED
  BY <1>1, <1>2, <1>3, <1>4, <1>5 DEF HeardFlags

(* Only the values of the flags matter.                                    *)
LEMMA FlagsHeardSame ==
  ASSUME NEW p, NEW q, NEW line, NEW m, HeardFlags(p, line, m), \A f \in valued : q[f] = p[f]
  PROVE  HeardFlags(q, line, m)
  BY DEF HeardFlags

(* One argument more, whatever it is.                                      *)
LEMMA ParseKeeps ==
  ASSUME NEW line, Clear(line), NEW i \in Nat, i + 1 \in 1..Len(line), NEW p, ParseInv(p, line, i)
  PROVE  ParseInv(parseArg(p, line[i + 1]), line, i + 1)
<1> DEFINE arg == line[i + 1]
           q == parseArg(p, arg)
<1> SUFFICES ParseInv(q, line, i + 1)
  OBVIOUS
<1>1. /\ Len(line) \in Nat /\ DOMAIN line = 1..Len(line)
      /\ \A k \in 1..Len(line) : line[k] \in Arguments
  BY LenProperties, ElementOfSeq DEF Clear
<1>2. p = [x \in parseFields |-> p[x]]
  BY DEF ParseInv
<1>3. arg.form \in {"word", "flag", "eq"} /\ (arg.form = "word" => arg.name = "")
  BY <1>1 DEF Arguments, Clear
<1>4. CASE p["pending"] # ""
  <2> DEFINE f == p["pending"]
  <2>1. /\ f \in valued /\ p["status"] = "flags" /\ i # 0 /\ p["rest"] = <<>>
        /\ line[i].form = "flag" /\ line[i].name = f /\ HeardFlags(p, line, i - 1)
    BY <1>4 DEF ParseInv
  <2>2. q = [p EXCEPT ![f] = asValue(arg), !["pending"] = ""]
    BY <1>4 DEF parseArg
  <2>3. /\ q = [x \in parseFields |-> q[x]] /\ q["pending"] = "" /\ q["status"] = "flags"
        /\ q["rest"] = <<>> /\ q[f] = asValue(arg) /\ \A g \in valued \ {f} : q[g] = p[g]
    BY <1>2, <2>1, <2>2 DEF parseFields, valued
  <2>4. i \in 1..Len(line) /\ i # Len(line)
    <3>1. i # 0 /\ Len(line) \in Nat
      BY <1>1, <2>1
    <3> QED
      BY <3>1
  <2>5. Gives(line, i, {f}) /\ q[f] = ValueAt(line, i)
    BY <1>1, <2>1, <2>3, <2>4 DEF Gives, ValueAt
  <2>6. HeardFlags(q, line, i)
    <3>1. i - 1 \in Nat /\ (i - 1) + 1 = i
      BY <2>1
    <3> HIDE DEF q, f
    <3>2. /\ HeardFlags(p, line, i - 1) /\ (i - 1) + 1 \in 1..Len(line)
          /\ f \in valued /\ Gives(line, (i - 1) + 1, {f})
          /\ q[f] = ValueAt(line, (i - 1) + 1) /\ \A g \in valued \ {f} : q[g] = p[g]
      BY <2>1, <2>3, <2>4, <2>5, <3>1
    <3>3. HeardFlags(q, line, (i - 1) + 1)
      BY <3>1, <3>2, FlagsHeardNew
    <3> QED
      BY <3>1, <3>3
  <2>7. arg.form = "word" /\ arg.name = ""
    BY <1>1, <1>3, <2>1, <2>4 DEF Clear
  <2>8. HeardFlags(q, line, i + 1)
    <3>1. \A g \in valued : ~Gives(line, i + 1, {g})
      BY <2>7 DEF Gives, valued
    <3> HIDE DEF q
    <3> QED
      BY <2>6, <2>7, <3>1, FlagsHeardOn
  <2> HIDE DEF q
  <2> QED
    BY <2>3, <2>8 DEF ParseInv
<1>5. CASE p["pending"] = "" /\ p["status"] \in {"help", "error"}
  <2>1. q = p
    BY <1>5 DEF parseArg
  <2> HIDE DEF q
  <2> QED
    BY <1>5, <2>1 DEF ParseInv
<1>6. CASE p["pending"] = "" /\ p["status"] = "rest"
  <2>1. q = [p EXCEPT !["status"] = "rest", !["rest"] = Append(p["rest"], arg)]
    BY <1>6 DEF parseArg
  <2>2. /\ q = [x \in parseFields |-> q[x]] /\ q["pending"] = "" /\ q["status"] = "rest"
        /\ q["rest"] = Append(p["rest"], arg) /\ \A g \in valued : q[g] = p[g]
    BY <1>2, <1>6, <2>1 DEF parseFields, valued
  <2>3. PICK w \in 1..i : RestFrom(p, line, i, w)
    BY <1>6 DEF ParseInv
  <2>4. /\ q["rest"] \in Seq(Arguments) /\ Len(q["rest"]) = (i + 1) - w + 1
        /\ \A k \in 1..((i + 1) - w + 1) : q["rest"][k] = line[w + k - 1]
    <3>1. /\ p["rest"] \in Seq(Arguments) /\ Len(p["rest"]) = i - w + 1 /\ arg \in Arguments
          /\ \A k \in 1..(i - w + 1) : p["rest"][k] = line[w + k - 1]
      BY <1>1, <2>3 DEF RestFrom
    <3> HIDE DEF q, arg
    <3>2. /\ q["rest"] \in Seq(Arguments) /\ Len(q["rest"]) = (i - w + 1) + 1
          /\ \A k \in 1..(i - w + 1) : q["rest"][k] = p["rest"][k]
          /\ q["rest"][(i - w + 1) + 1] = arg
      <4> DEFINE r == p["rest"]
      <4> HIDE DEF r
      <4>1. r \in Seq(Arguments) /\ Len(r) = i - w + 1 /\ arg \in Arguments
        BY <3>1 DEF r
      <4>2. /\ Append(r, arg) \in Seq(Arguments) /\ Len(Append(r, arg)) = (i - w + 1) + 1
            /\ \A k \in 1..(i - w + 1) : Append(r, arg)[k] = r[k]
            /\ Append(r, arg)[(i - w + 1) + 1] = arg
        BY <4>1, AppendProperties
      <4>3. q["rest"] = Append(r, arg)
        BY <2>2 DEF r
      <4> QED
        BY <4>2, <4>3 DEF r
    <3>3. (i - w + 1) + 1 = (i + 1) - w + 1 /\ w + ((i - w + 1) + 1) - 1 = i + 1
      OBVIOUS
    <3>4. ASSUME NEW k \in 1..((i + 1) - w + 1) PROVE q["rest"][k] = line[w + k - 1]
      <4>1. CASE k \in 1..(i - w + 1)
        BY <3>1, <3>2, <4>1
      <4>2. CASE k = (i - w + 1) + 1
        BY <3>2, <3>3, <4>2 DEF arg
      <4> QED
        BY <4>1, <4>2
    <3> QED
      BY <3>2, <3>3, <3>4
  <2>5. RestFrom(q, line, i + 1, w)
    <3>1. HeardFlags(q, line, w - 1)
      BY <2>2, <2>3, FlagsHeardSame DEF RestFrom
    <3> HIDE DEF q
    <3> QED
      BY <2>3, <2>4, <3>1 DEF RestFrom
  <2> HIDE DEF q
  <2>6. w \in 1..(i + 1)
    OBVIOUS
  <2> QED
    BY <2>2, <2>5, <2>6 DEF ParseInv
<1>7. CASE p["pending"] = "" /\ p["status"] = "flags" /\ arg.form = "word"
  <2>1. q = [p EXCEPT !["status"] = "rest", !["rest"] = Append(p["rest"], arg)]
    BY <1>7 DEF parseArg
  <2>2. /\ q = [x \in parseFields |-> q[x]] /\ q["pending"] = "" /\ q["status"] = "rest"
        /\ q["rest"] = <<arg>> /\ \A g \in valued : q[g] = p[g]
    <3>1. p["rest"] = <<>>
      BY <1>7 DEF ParseInv
    <3>3. Append(<<>>, arg) = <<arg>>
      OBVIOUS
    <3>2. /\ q = [x \in parseFields |-> q[x]] /\ q["pending"] = "" /\ q["status"] = "rest"
          /\ q["rest"] = Append(p["rest"], arg) /\ \A g \in valued : q[g] = p[g]
      BY <1>2, <1>7, <2>1 DEF parseFields, valued
    <3> QED
      BY <3>1, <3>2, <3>3
  <2>3. HeardFlags(q, line, i)
    BY <1>7, <2>2, FlagsHeardSame DEF ParseInv
  <2>4. RestFrom(q, line, i + 1, i + 1)
    <3>1. /\ i + 1 \in 1..(i + 1) /\ (i + 1) - 1 = i /\ (i + 1) - (i + 1) + 1 = 1
          /\ \A k \in 1..1 : k = 1 /\ (i + 1) + k - 1 = i + 1
      OBVIOUS
    <3>2. <<arg>> \in Seq(Arguments) /\ Len(<<arg>>) = 1 /\ <<arg>>[1] = arg
      BY <1>1
    <3> HIDE DEF q
    <3> QED
      BY <1>7, <2>2, <2>3, <3>1, <3>2 DEF RestFrom
  <2> HIDE DEF q
  <2>5. i + 1 \in 1..(i + 1)
    OBVIOUS
  <2> QED
    BY <2>2, <2>4, <2>5 DEF ParseInv
<1>8. CASE p["pending"] = "" /\ p["status"] = "flags" /\ arg.form = "flag" /\ arg.name \in valued
  <2>1. q = [p EXCEPT !["pending"] = arg.name]
    BY <1>8 DEF parseArg
  <2>2. /\ q = [x \in parseFields |-> q[x]] /\ q["pending"] = arg.name /\ q["status"] = "flags"
        /\ q["rest"] = <<>> /\ \A g \in valued : q[g] = p[g]
    BY <1>2, <1>8, <2>1 DEF parseFields, valued, ParseInv
  <2>3. HeardFlags(q, line, (i + 1) - 1)
    <3>1. (i + 1) - 1 = i
      OBVIOUS
    <3> QED
      BY <1>8, <2>2, <3>1, FlagsHeardSame DEF ParseInv
  <2> HIDE DEF q
  <2>4. q["pending"] # ""
    <3>1. arg.name # ""
      BY <1>8 DEF valued
    <3> QED
      BY <2>2, <3>1
  <2>5. i + 1 # 0
    OBVIOUS
  <2> QED
    BY <1>8, <2>2, <2>3, <2>4, <2>5 DEF ParseInv
<1>9. CASE p["pending"] = "" /\ p["status"] = "flags" /\ arg.form = "eq" /\ arg.name \in valued
  <2>1. q = [p EXCEPT ![arg.name] = arg.value]
    BY <1>9 DEF parseArg
  <2>2. /\ q = [x \in parseFields |-> q[x]] /\ q["pending"] = "" /\ q["status"] = "flags"
        /\ q["rest"] = <<>> /\ q[arg.name] = arg.value
        /\ \A g \in valued \ {arg.name} : q[g] = p[g]
    BY <1>2, <1>9, <2>1 DEF parseFields, valued, ParseInv
  <2>3. Gives(line, i + 1, {arg.name}) /\ q[arg.name] = ValueAt(line, i + 1)
    BY <1>1, <1>9, <2>2 DEF Gives, ValueAt
  <2>4. HeardFlags(p, line, i)
    BY <1>9 DEF ParseInv
  <2> HIDE DEF q
  <2>5. HeardFlags(q, line, i + 1)
    BY <1>9, <2>2, <2>3, <2>4, FlagsHeardNew
  <2> QED
    BY <2>2, <2>5 DEF ParseInv
<1>10. CASE /\ p["pending"] = "" /\ p["status"] = "flags" /\ arg.form # "word"
            /\ arg.name \notin valued
  <2>1. \/ q = p /\ arg.name = "plain"
        \/ q = [p EXCEPT !["status"] = IF arg.name \in {"h", "help"} THEN "help" ELSE "error"]
    BY <1>3, <1>10 DEF parseArg
  <2>2. CASE q = p /\ arg.name = "plain"
    <3>1. \A g \in valued : ~Gives(line, i + 1, {g})
      BY <1>10 DEF Gives
    <3>2. HeardFlags(p, line, i + 1)
      BY <1>10, <2>2, <3>1, FlagsHeardOn DEF ParseInv
    <3> HIDE DEF q
    <3> QED
      BY <1>10, <2>2, <3>2 DEF ParseInv
  <2>3. CASE q = [p EXCEPT !["status"] = IF arg.name \in {"h", "help"} THEN "help" ELSE "error"]
    <3>1. /\ q = [x \in parseFields |-> q[x]] /\ q["pending"] = ""
          /\ q["status"] \in {"help", "error"}
      BY <1>2, <1>10, <2>3 DEF parseFields, valued
    <3> HIDE DEF q
    <3> QED
      BY <3>1 DEF ParseInv
  <2> QED
    BY <2>1, <2>2, <2>3
<1> HIDE DEF q
<1>11. p["status"] \in {"flags", "rest", "help", "error"} /\ p["pending"] \in valued \cup {""}
  BY DEF ParseInv
<1> QED
  BY <1>3, <1>4, <1>5, <1>6, <1>7, <1>8, <1>9, <1>10, <1>11

(* So it is for every line and every number of its arguments.              *)
LEMMA ParseHolds ==
  ASSUME NEW line, Clear(line)
  PROVE  \A i \in 0..Len(line) : ParseInv(parsed(line)[i], line, i)
<1>1. Len(line) \in Nat
  BY LenProperties DEF Clear
<1> DEFINE Wrong == {i \in 0..Len(line) : ~ParseInv(parsed(line)[i], line, i)}
<1> SUFFICES ASSUME Wrong # {} PROVE FALSE
  OBVIOUS
<1>2. PICK i \in Wrong : \A j \in Wrong : i <= j
  <2>1. Wrong \subseteq Nat
    BY <1>1
  <2> HIDE DEF Wrong
  <2> QED
    BY <2>1, FirstPlace
<1>3. i \in 0..Len(line) /\ ~ParseInv(parsed(line)[i], line, i)
  BY <1>2
<1>4. i # 0
  BY <1>1, <1>3, ParsedStepByStep, ParseStarts
<1>5. i - 1 \in Nat /\ i - 1 \in 0..Len(line) /\ (i - 1) + 1 = i /\ i \in 1..Len(line)
  BY <1>1, <1>3, <1>4
<1>6. i - 1 \notin Wrong
  BY <1>2, <1>5
<1>7. ParseInv(parsed(line)[i - 1], line, i - 1)
  BY <1>5, <1>6
<1>8. ParseInv(parseArg(parsed(line)[i - 1], line[(i - 1) + 1]), line, (i - 1) + 1)
  BY <1>5, <1>7, ParseKeeps
<1>9. parsed(line)[i] = parseArg(parsed(line)[i - 1], line[i])
  BY <1>1, <1>5, ParsedStepByStep
<1> QED
  BY <1>3, <1>5, <1>8, <1>9

(* A line that is parsed without an error has words after its flags, and   *)
(* every flag before them is heard (main.go:155-187).                      *)
LEMMA ParsedLineIs ==
  ASSUME NEW line, Clear(line), parseFlags(line).status \notin {"help", "error"},
         parseFlags(line).rest # <<>>
  PROVE  \E w \in 1..Len(line) : RestFrom(parseFlags(line), line, Len(line), w)
<1> DEFINE n == Len(line)
           p == parsed(line)[n]
<1>1. n \in Nat /\ n \in 0..n
  <2>1. n \in Nat
    BY LenProperties DEF Clear
  <2> QED
    BY <2>1
<1>2. ParseInv(p, line, n)
  BY <1>1, ParseHolds
<1> HIDE DEF n, p
<1>3. parseFlags(line) = IF p.pending # "" THEN [p EXCEPT !.status = "error"] ELSE p
  BY DEF parseFlags, p, n
<1>4. p["pending"] = ""
  <2> SUFFICES ASSUME p["pending"] # "" PROVE FALSE
    OBVIOUS
  <2>1. parseFlags(line) = [p EXCEPT !["status"] = "error"]
    BY <1>3
  <2>2. p = [x \in parseFields |-> p[x]]
    BY <1>2 DEF ParseInv
  <2>3. parseFlags(line)["status"] = "error"
    BY <2>1, <2>2 DEF parseFields
  <2> QED
    BY <2>3
<1>5. parseFlags(line) = p
  BY <1>3, <1>4
<1>6. p["status"] = "rest"
  BY <1>2, <1>5 DEF ParseInv
<1> QED
  BY <1>2, <1>5, <1>6 DEF ParseInv, n

-----------------------------------------------------------------------------
(* The namespace among the positionals (main.go:311-342).                  *)

namespaces == {"n", "namespace"}
extractFields == {"ok", "ns", "pending", "positional"}

(* v is the last namespace among the first m arguments, or empty.          *)
HeardSpace(v, line, m) ==
  /\ Heard(v, line, m, namespaces)
  /\ (\A j \in 1..m : ~Gives(line, j, namespaces)) => v = text("")

(* No argument is lost, and none is made up; the first stays first.        *)
Kept(positional, line, i) ==
  /\ positional \in Seq(Arguments)
  /\ \A k \in 1..i : line[k].form # "word" /\ line[k].name \notin namespaces =>
       \E j \in 1..Len(positional) : positional[j] = line[k]
  /\ \A j \in 1..Len(positional) : \E k \in 1..i : positional[j] = line[k]
  /\ i # 0 => Len(positional) # 0 /\ positional[1] = line[1]

ExtractInv(x, line, i) ==
  /\ x = [y \in extractFields |-> x[y]]
  /\ x["pending"] \in BOOLEAN
  /\ x["pending"] =>
       /\ i # 0 /\ line[i].form = "flag" /\ line[i].name \in namespaces
       /\ HeardSpace(x["ns"], line, i - 1)
  /\ ~x["pending"] => HeardSpace(x["ns"], line, i)
  /\ Kept(x["positional"], line, i)

LEMMA ExtractStarts ==
  ASSUME NEW line
  PROVE  ExtractInv(unextracted, line, 0)
<1>1. unextracted = [x \in extractFields |-> unextracted[x]]
  BY DEF unextracted, extractFields
<1>2. HeardSpace(text(""), line, 0)
  BY HeardNothing DEF HeardSpace
<1>3. Kept(<<>>, line, 0)
  <2>1. <<>> \in Seq(Arguments) /\ Len(<<>>) = 0 /\ 1..0 = {}
    OBVIOUS
  <2> QED
    BY <2>1 DEF Kept
<1> QED
  BY <1>1, <1>2, <1>3 DEF ExtractInv, unextracted

(* An argument that is not a positional.                                   *)
LEMMA KeptOn ==
  ASSUME NEW line, NEW i \in Nat, NEW positional, Kept(positional, line, i), i # 0,
         line[i + 1].form = "word" \/ line[i + 1].name \in namespaces
  PROVE  Kept(positional, line, i + 1)
<1>1. \A k \in 1..(i + 1) : k \in 1..i \/ k = i + 1
  OBVIOUS
<1>2. \A k \in 1..i : k \in 1..(i + 1)
  OBVIOUS
<1> QED
  BY <1>1, <1>2 DEF Kept

(* And one that is.                                                        *)
LEMMA KeptNew ==
  ASSUME NEW line, NEW i \in Nat, NEW positional, Kept(positional, line, i),
         line[i + 1] \in Arguments
  PROVE  Kept(Append(positional, line[i + 1]), line, i + 1)
<1> DEFINE n == Len(positional)
           longer == Append(positional, line[i + 1])
<1>1. positional \in Seq(Arguments) /\ n \in Nat
  BY LenProperties DEF Kept
<1>2. /\ longer \in Seq(Arguments) /\ Len(longer) = n + 1
      /\ \A j \in 1..n : longer[j] = positional[j]
      /\ longer[n + 1] = line[i + 1]
  BY <1>1, AppendProperties
<1> HIDE DEF longer
<1>3. \A k \in 1..(i + 1) : k \in 1..i \/ k = i + 1
  OBVIOUS
<1>4. \A j \in 1..(n + 1) : j \in 1..n \/ j = n + 1
  BY <1>1
<1>5. ASSUME NEW k \in 1..(i + 1), line[k].form # "word", line[k].name \notin namespaces
      PROVE  \E j \in 1..Len(longer) : longer[j] = line[k]
  <2>1. n + 1 \in 1..(n + 1) /\ \A j \in 1..n : j \in 1..(n + 1)
    BY <1>1
  <2>2. CASE k = i + 1
    BY <1>2, <2>1, <2>2
  <2>3. CASE k \in 1..i
    BY <1>2, <1>5, <2>1, <2>3 DEF Kept
  <2> QED
    BY <1>3, <2>2, <2>3
<1>6. ASSUME NEW j \in 1..Len(longer) PROVE \E k \in 1..(i + 1) : longer[j] = line[k]
  <2>1. i + 1 \in 1..(i + 1) /\ \A k \in 1..i : k \in 1..(i + 1)
    OBVIOUS
  <2>2. CASE j = n + 1
    BY <1>2, <2>1, <2>2
  <2>3. CASE j \in 1..n
    BY <1>2, <2>1, <2>3 DEF Kept
  <2> QED
    BY <1>2, <1>4, <2>2, <2>3
<1>7. Len(longer) # 0 /\ longer[1] = line[1]
  <2>1. CASE i = 0
    <3>1. \A j \in 1..n : \E k \in 1..0 : TRUE
      BY <2>1 DEF Kept
    <3>2. n = 0
      <4>1. n # 0 => 1 \in 1..n
        BY <1>1
      <4> QED
        BY <3>1, <4>1
    <3> HIDE DEF n
    <3> QED
      BY <1>2, <2>1, <3>2
  <2>2. CASE i # 0
    <3>1. n # 0 /\ positional[1] = line[1]
      BY <2>2 DEF Kept
    <3>2. 1 \in 1..n /\ n + 1 # 0
      BY <1>1, <3>1
    <3> QED
      BY <1>2, <3>1, <3>2
  <2> QED
    BY <2>1, <2>2
<1> QED
  BY <1>2, <1>5, <1>6, <1>7 DEF Kept, longer

(* One argument more.                                                      *)
LEMMA ExtractKeeps ==
  ASSUME NEW line, Clear(line), line[1].form = "word", NEW i \in Nat, i + 1 \in 1..Len(line),
         NEW x, ExtractInv(x, line, i)
  PROVE  ExtractInv(extractArg(x, line[i + 1]), line, i + 1)
<1> DEFINE arg == line[i + 1]
           y == extractArg(x, arg)
<1> SUFFICES ExtractInv(y, line, i + 1)
  OBVIOUS
<1>1. /\ Len(line) \in Nat /\ DOMAIN line = 1..Len(line)
      /\ \A k \in 1..Len(line) : line[k] \in Arguments
  BY LenProperties, ElementOfSeq DEF Clear
<1>2. x = [z \in extractFields |-> x[z]] /\ x["pending"] \in BOOLEAN
  BY DEF ExtractInv
<1>3. /\ arg.form \in {"word", "flag", "eq"} /\ (arg.form = "word" => arg.name = "")
      /\ (i = 0 => arg.form = "word") /\ arg \in Arguments
  <2>1. i = 0 => i + 1 = 1
    OBVIOUS
  <2> QED
    BY <1>1, <2>1 DEF Arguments, Clear
<1>4. \A j \in 1..(i + 1) : j \in 1..i \/ j = i + 1
  OBVIOUS
<1>5. CASE x["pending"]
  <2>1. /\ i # 0 /\ line[i].form = "flag" /\ line[i].name \in namespaces
        /\ HeardSpace(x["ns"], line, i - 1)
    BY <1>5 DEF ExtractInv
  <2>2. y = [x EXCEPT !["ok"] = x["ok"] /\ ~asValue(arg).slash, !["ns"] = asValue(arg),
                      !["pending"] = FALSE]
    BY <1>5 DEF extractArg
  <2>3. /\ y = [z \in extractFields |-> y[z]] /\ y["pending"] = FALSE
        /\ y["ns"] = asValue(arg) /\ y["positional"] = x["positional"]
    BY <1>2, <2>2 DEF extractFields
  <2>4. i \in 1..Len(line) /\ i # Len(line)
    <3>1. i # 0 /\ Len(line) \in Nat
      BY <1>1, <2>1
    <3> QED
      BY <3>1
  <2>5. Gives(line, i, namespaces) /\ ValueAt(line, i) = asValue(arg)
    BY <1>1, <2>1, <2>4 DEF Gives, ValueAt
  <2>6. arg.form = "word" /\ arg.name = ""
    BY <1>1, <1>3, <2>1, <2>4 DEF Clear, namespaces, valued
  <2>7. ~Gives(line, i + 1, namespaces)
    BY <2>6 DEF Gives, namespaces
  <2>8. Heard(asValue(arg), line, i + 1, namespaces)
    BY <2>1, <2>5, <2>7, HeardNew, HeardOn
  <2>9. HeardSpace(asValue(arg), line, i + 1)
    <3>1. i \in 1..(i + 1)
      BY <2>1
    <3> QED
      BY <2>5, <2>8, <3>1 DEF HeardSpace
  <2>10. Kept(x["positional"], line, i + 1)
    BY <2>1, <2>6, KeptOn DEF ExtractInv
  <2> HIDE DEF y
  <2> QED
    BY <2>3, <2>9, <2>10 DEF ExtractInv
<1>6. CASE ~x["pending"] /\ arg.form = "flag" /\ arg.name \in namespaces
  <2>1. y = [x EXCEPT !["pending"] = TRUE]
    BY <1>6 DEF extractArg, namespaces
  <2>2. /\ y = [z \in extractFields |-> y[z]] /\ y["pending"] = TRUE
        /\ y["ns"] = x["ns"] /\ y["positional"] = x["positional"]
    BY <1>2, <2>1 DEF extractFields
  <2>3. HeardSpace(x["ns"], line, (i + 1) - 1) /\ i + 1 # 0
    <3>1. (i + 1) - 1 = i /\ i + 1 # 0
      OBVIOUS
    <3> QED
      BY <1>6, <3>1 DEF ExtractInv
  <2>4. Kept(x["positional"], line, i + 1)
    BY <1>3, <1>6, KeptOn DEF ExtractInv
  <2> HIDE DEF y
  <2> QED
    BY <1>6, <2>2, <2>3, <2>4 DEF ExtractInv
<1>7. CASE ~x["pending"] /\ arg.form = "eq" /\ arg.name \in namespaces
  <2>1. y = [x EXCEPT !["ok"] = x["ok"] /\ ~arg.value.slash, !["ns"] = arg.value,
                      !["pending"] = FALSE]
    BY <1>7 DEF extractArg, namespaces
  <2>2. /\ y = [z \in extractFields |-> y[z]] /\ y["pending"] = FALSE
        /\ y["ns"] = arg.value /\ y["positional"] = x["positional"]
    BY <1>2, <2>1 DEF extractFields
  <2>3. Gives(line, i + 1, namespaces) /\ ValueAt(line, i + 1) = arg.value
    BY <1>1, <1>7 DEF Gives, ValueAt
  <2>4. Heard(arg.value, line, i + 1, namespaces)
    BY <2>3, HeardNew
  <2>5. HeardSpace(arg.value, line, i + 1)
    <3>1. i + 1 \in 1..(i + 1)
      OBVIOUS
    <3> QED
      BY <2>3, <2>4, <3>1 DEF HeardSpace
  <2>6. Kept(x["positional"], line, i + 1)
    BY <1>3, <1>7, KeptOn DEF ExtractInv
  <2> HIDE DEF y
  <2> QED
    BY <2>2, <2>5, <2>6 DEF ExtractInv
<1>8. CASE ~x["pending"] /\ (arg.form = "word" \/ arg.name \notin namespaces)
  <2>1. y = [x EXCEPT !["positional"] = Append(x["positional"], arg)]
    BY <1>3, <1>8 DEF extractArg, namespaces
  <2>2. /\ y = [z \in extractFields |-> y[z]] /\ y["pending"] = x["pending"]
        /\ y["ns"] = x["ns"] /\ y["positional"] = Append(x["positional"], arg)
    BY <1>2, <2>1 DEF extractFields
  <2>3. ~Gives(line, i + 1, namespaces)
    BY <1>3, <1>8 DEF Gives, namespaces
  <2>4. HeardSpace(x["ns"], line, i)
    BY <1>8 DEF ExtractInv
  <2>5. HeardSpace(x["ns"], line, i + 1)
    <3>1. Heard(x["ns"], line, i + 1, namespaces)
      BY <2>3, <2>4, HeardOn DEF HeardSpace
    <3>2. \A j \in 1..i : j \in 1..(i + 1)
      OBVIOUS
    <3> QED
      BY <2>4, <3>1, <3>2 DEF HeardSpace
  <2>6. Kept(Append(x["positional"], arg), line, i + 1)
    BY <1>3, KeptNew DEF ExtractInv
  <2> HIDE DEF y
  <2> QED
    BY <1>8, <2>2, <2>5, <2>6 DEF ExtractInv
<1> QED
  BY <1>2, <1>3, <1>5, <1>6, <1>7, <1>8

(* extractNamespace, argument by argument.                                 *)
LEMMA ExtractedStepByStep ==
  ASSUME NEW line, Len(line) \in Nat
  PROVE  /\ extracted(line)[0] = unextracted
         /\ \A i \in 1..Len(line) : extracted(line)[i] = extractArg(extracted(line)[i - 1], line[i])
<1> DEFINE n == Len(line)
           IsUpTo(f, k) ==
             f = [i \in 0..k |-> IF i = 0 THEN unextracted ELSE extractArg(f[i - 1], line[i])]
           Missing == {k \in Nat : ~\E f : IsUpTo(f, k)}
<1>1. Missing = {}
  <2> SUFFICES ASSUME Missing # {} PROVE FALSE
    OBVIOUS
  <2>1. PICK k \in Missing : \A j \in Missing : k <= j
    <3>1. Missing \subseteq Nat
      OBVIOUS
    <3> HIDE DEF Missing
    <3> QED
      BY <3>1, FirstPlace
  <2>2. k \in Nat /\ ~\E f : IsUpTo(f, k)
    BY <2>1
  <2>3. k # 0
    <3>1. IsUpTo([i \in 0..0 |-> unextracted], 0)
      OBVIOUS
    <3> QED
      BY <2>2, <3>1
  <2>4. PICK f : IsUpTo(f, k - 1)
    <3>1. k - 1 \in Nat /\ ~(k <= k - 1)
      BY <2>2, <2>3
    <3> QED
      BY <2>1, <3>1
  <2> DEFINE g == [i \in 0..k |-> IF i = 0 THEN unextracted ELSE extractArg(f[i - 1], line[i])]
  <2>5. \A i \in 0..k : i # 0 => g[i - 1] = f[i - 1]
    <3> SUFFICES ASSUME NEW i \in 0..k, i # 0 PROVE g[i - 1] = f[i - 1]
      OBVIOUS
    <3>1. i - 1 \in 0..(k - 1) /\ i - 1 \in 0..k
      BY <2>2
    <3>2. f[i - 1] = IF i - 1 = 0 THEN unextracted ELSE extractArg(f[(i - 1) - 1], line[i - 1])
      BY <2>4, <3>1
    <3> QED
      BY <3>1, <3>2
  <2>6. IsUpTo(g, k)
    BY <2>5
  <2> QED
    BY <2>2, <2>6
<1>2. PICK f : IsUpTo(f, n)
  BY <1>1
<1>3. IsUpTo(extracted(line), n)
  BY <1>2 DEF extracted
<1> HIDE DEF Missing
<1>4. 0 \in 0..n /\ \A i \in 1..n : i \in 0..n /\ i # 0
  OBVIOUS
<1> QED
  BY <1>3, <1>4

(* So it is for every rest of a line and every number of its arguments.   *)
LEMMA ExtractHolds ==
  ASSUME NEW line, Clear(line), line[1].form = "word"
  PROVE  \A i \in 0..Len(line) : ExtractInv(extracted(line)[i], line, i)
<1>1. Len(line) \in Nat
  BY LenProperties DEF Clear
<1> DEFINE Wrong == {i \in 0..Len(line) : ~ExtractInv(extracted(line)[i], line, i)}
<1> SUFFICES ASSUME Wrong # {} PROVE FALSE
  OBVIOUS
<1>2. PICK i \in Wrong : \A j \in Wrong : i <= j
  <2>1. Wrong \subseteq Nat
    BY <1>1
  <2> HIDE DEF Wrong
  <2> QED
    BY <2>1, FirstPlace
<1>3. i \in 0..Len(line) /\ ~ExtractInv(extracted(line)[i], line, i)
  BY <1>2
<1>4. i # 0
  BY <1>1, <1>3, ExtractedStepByStep, ExtractStarts
<1>5. i - 1 \in Nat /\ i - 1 \in 0..Len(line) /\ (i - 1) + 1 = i /\ i \in 1..Len(line)
  BY <1>1, <1>3, <1>4
<1>6. i - 1 \notin Wrong
  BY <1>2, <1>5
<1>7. ExtractInv(extracted(line)[i - 1], line, i - 1)
  BY <1>5, <1>6
<1>8. ExtractInv(extractArg(extracted(line)[i - 1], line[(i - 1) + 1]), line, (i - 1) + 1)
  BY <1>5, <1>7, ExtractKeeps
<1>9. extracted(line)[i] = extractArg(extracted(line)[i - 1], line[i])
  BY <1>1, <1>5, ExtractedStepByStep
<1> QED
  BY <1>3, <1>5, <1>8, <1>9

-----------------------------------------------------------------------------
(* From a part of a line to the line.                                      *)

(* short is what is left of long without its first d arguments.            *)
After(long, short, d) ==
  /\ d \in Nat /\ long \in Seq(Arguments) /\ short \in Seq(Arguments)
  /\ Len(long) = d + Len(short) /\ \A k \in 1..Len(short) : short[k] = long[d + k]

LEMMA GivesAfter ==
  ASSUME NEW long, NEW short, NEW d, After(long, short, d), NEW names
  PROVE  \A k \in 1..Len(short) :
           /\ d + k \in 1..Len(long)
           /\ Gives(long, d + k, names) <=> Gives(short, k, names)
           /\ Gives(short, k, names) => ValueAt(long, d + k) = ValueAt(short, k)
<1>1. /\ d \in Nat /\ Len(short) \in Nat /\ Len(long) = d + Len(short)
      /\ DOMAIN short = 1..Len(short) /\ DOMAIN long = 1..Len(long)
  BY LenProperties DEF After
<1> SUFFICES ASSUME NEW k \in 1..Len(short)
             PROVE  /\ d + k \in 1..Len(long)
                    /\ Gives(long, d + k, names) <=> Gives(short, k, names)
                    /\ Gives(short, k, names) => ValueAt(long, d + k) = ValueAt(short, k)
  OBVIOUS
<1>2. d + k \in 1..Len(long) /\ (d + k = Len(long) <=> k = Len(short))
  <2> DEFINE n == Len(short)
             m == Len(long)
  <2>1. d \in Nat /\ n \in Nat /\ m = d + n /\ k \in 1..n
    BY <1>1
  <2> HIDE DEF n, m
  <2>2. d + k \in 1..m /\ (d + k = m <=> k = n)
    BY <2>1
  <2> QED
    BY <2>2 DEF n, m
<1>3. short[k] = long[d + k]
  BY DEF After
<1>4. Gives(long, d + k, names) <=> Gives(short, k, names)
  BY <1>1, <1>2, <1>3 DEF Gives
<1>5. ASSUME Gives(short, k, names) PROVE ValueAt(long, d + k) = ValueAt(short, k)
  <2>1. CASE short[k].form = "eq"
    BY <1>3, <2>1 DEF ValueAt
  <2>2. CASE short[k].form # "eq"
    <3>1. k # Len(short)
      BY <1>5, <2>2 DEF Gives
    <3>2. k + 1 \in 1..Len(short) /\ d + (k + 1) = (d + k) + 1
      <4>1. \A a, b \in Nat : \A c \in 1..b :
              c # b => c + 1 \in 1..b /\ a + (c + 1) = (a + c) + 1
        OBVIOUS
      <4> QED
        BY <1>1, <3>1, <4>1
    <3>3. short[k + 1] = long[(d + k) + 1]
      BY <3>2 DEF After
    <3> QED
      BY <1>3, <2>2, <3>3 DEF ValueAt
  <2> QED
    BY <2>1, <2>2
<1> QED
  BY <1>2, <1>4, <1>5

(* What the end of a line says counts, if it says anything.                *)
LEMMA HeardLater ==
  ASSUME NEW long, NEW short, NEW d, After(long, short, d), NEW names, NEW v,
         Heard(v, short, Len(short), names),
         \/ \E k \in 1..Len(short) : Gives(short, k, names)
         \/ \A j \in 1..d : ~Gives(long, j, names)
  PROVE  Heard(v, long, Len(long), names)
<1> SUFFICES ASSUME NEW i, LastGives(long, Len(long), names, i) PROVE v = ValueAt(long, i)
  BY DEF Heard
<1>1. d \in Nat /\ Len(short) \in Nat /\ Len(long) = d + Len(short)
  BY LenProperties DEF After
<1>2. /\ i \in 1..Len(long) /\ Gives(long, i, names)
      /\ \A j \in 1..Len(long) : Gives(long, j, names) => j <= i
  BY DEF LastGives
<1>3. i \notin 1..d
  <2> SUFFICES ASSUME i \in 1..d PROVE FALSE
    OBVIOUS
  <2>1. PICK k \in 1..Len(short) : Gives(short, k, names)
    BY <1>2
  <2>2. d + k <= i
    BY <1>2, <2>1, GivesAfter
  <2> QED
    BY <1>1, <2>2
<1>4. i - d \in 1..Len(short) /\ d + (i - d) = i
  BY <1>1, <1>2, <1>3
<1>5. Gives(short, i - d, names) /\ ValueAt(long, i) = ValueAt(short, i - d)
  BY <1>2, <1>4, GivesAfter
<1>6. ASSUME NEW k \in 1..Len(short), Gives(short, k, names) PROVE k <= i - d
  <2>1. d + k <= i
    BY <1>2, <1>6, GivesAfter
  <2> QED
    BY <1>1, <1>4, <2>1
<1>7. LastGives(short, Len(short), names, i - d)
  BY <1>4, <1>5, <1>6 DEF LastGives
<1> QED
  BY <1>5, <1>7 DEF Heard

(* And what was said before counts if it does not.                         *)
LEMMA HeardBefore ==
  ASSUME NEW long, NEW short, NEW d, After(long, short, d), NEW names, NEW v,
         Heard(v, long, d, names), \A k \in 1..Len(short) : ~Gives(short, k, names)
  PROVE  Heard(v, long, Len(long), names)
<1> SUFFICES ASSUME NEW i, LastGives(long, Len(long), names, i) PROVE v = ValueAt(long, i)
  BY DEF Heard
<1>1. d \in Nat /\ Len(short) \in Nat /\ Len(long) = d + Len(short)
  BY LenProperties DEF After
<1>2. i \in 1..Len(long) /\ Gives(long, i, names)
  BY DEF LastGives
<1>3. i \in 1..d
  <2> SUFFICES ASSUME i \notin 1..d PROVE FALSE
    OBVIOUS
  <2>1. i - d \in 1..Len(short) /\ d + (i - d) = i
    BY <1>1, <1>2
  <2>2. Gives(short, i - d, names)
    BY <1>2, <2>1, GivesAfter
  <2> QED
    BY <2>1, <2>2
<1>4. \A j \in 1..d : j \in 1..Len(long)
  BY <1>1
<1>5. LastGives(long, d, names, i)
  BY <1>2, <1>3, <1>4 DEF LastGives
<1> QED
  BY <1>5 DEF Heard

-----------------------------------------------------------------------------
(* A line as a whole.                                                      *)

(* No namespace is empty.                                                  *)
NamespacesNamed(line) ==
  \A i \in DOMAIN line : Gives(line, i, namespaces) => ValueAt(line, i) # text("")

(* The last of these flags has the value that is acted on.                 *)
ActsOn(line, names, string) ==
  \E v : Heard(v, line, Len(line), names) /\ asString(v) = string

(* What is set aside is the end of the line, and clear too.                *)
LEMMA RestIsAfter ==
  ASSUME NEW line, Clear(line), NEW p, NEW w \in 1..Len(line), RestFrom(p, line, Len(line), w)
  PROVE  /\ After(line, p["rest"], w - 1) /\ Clear(p["rest"])
         /\ p["rest"][1] = line[w] /\ p["rest"][1].form = "word"
<1> DEFINE n == Len(line)
           r == p["rest"]
<1>1. n \in Nat /\ DOMAIN line = 1..n /\ w \in 1..n
  BY LenProperties DEF Clear
<1>2. /\ line[w].form = "word" /\ r \in Seq(Arguments) /\ Len(r) = n - w + 1
      /\ \A k \in 1..(n - w + 1) : r[k] = line[w + k - 1]
  BY DEF RestFrom
<1>3. DOMAIN r = 1..Len(r)
  BY <1>2, LenProperties
<1>4. line \in Seq(Arguments)
  BY DEF Clear
<1> HIDE DEF n, r
<1>5. w - 1 \in Nat /\ n = (w - 1) + (n - w + 1) /\ \A k \in Nat : w + k - 1 = (w - 1) + k
  BY <1>1
<1>6. After(line, r, w - 1)
  <2>1. \A k \in 1..(n - w + 1) : r[k] = line[(w - 1) + k]
    <3>1. \A k \in 1..(n - w + 1) : k \in Nat
      OBVIOUS
    <3> QED
      BY <1>2, <1>5, <3>1
  <2> QED
    BY <1>2, <1>4, <1>5, <2>1 DEF After, n
<1>7. 1 \in 1..(n - w + 1) /\ w + 1 - 1 = w
  BY <1>1
<1>8. r[1] = line[w]
  BY <1>2, <1>7
<1>9. Clear(r)
  <2>1. ASSUME NEW k \in DOMAIN r
        PROVE  /\ w + k - 1 \in DOMAIN line /\ r[k] = line[w + k - 1]
               /\ k # Len(r) => /\ w + k - 1 # n /\ k + 1 \in 1..(n - w + 1)
                                /\ w + (k + 1) - 1 = (w + k - 1) + 1
    <3>1. k \in 1..(n - w + 1)
      BY <1>2, <1>3
    <3> QED
      BY <1>1, <1>2, <3>1
  <2>2. \A k \in DOMAIN r : r[k].form = "word" => r[k].name = ""
    BY <2>1 DEF Clear
  <2>3. ASSUME NEW k \in DOMAIN r \ {Len(r)}, r[k].form = "flag",
               r[k].name \in valued \cup {"namespace"}
        PROVE  r[k + 1].form = "word"
    <3>1. r[k + 1] = line[(w + k - 1) + 1]
      BY <1>2, <2>1
    <3>2. w + k - 1 \in DOMAIN line \ {Len(line)} /\ r[k] = line[w + k - 1]
      BY <2>1 DEF n
    <3> QED
      BY <2>3, <3>1, <3>2 DEF Clear
  <2> QED
    BY <1>2, <2>2, <2>3 DEF Clear
<1> QED
  BY <1>2, <1>6, <1>8, <1>9 DEF r

(* A line that leads to a check has words after its flags.                 *)
LEMMA CheckHasRest ==
  ASSUME NEW line, Clear(line), runCheck(line).way \in {"scenario", "live"}
  PROVE  LET p == parseFlags(line)
         IN  /\ \E w \in 1..Len(line) : RestFrom(p, line, Len(line), w)
             /\ asString(p["mode"]) = p["mode"].val
             /\ \/ runCheck(line) = checkLive(p) /\ runCheck(line).way = "live"
                \/ /\ runCheck(line) = checkScenario(p) /\ Len(p["rest"]) = 1
                   /\ runCheck(line).way = "scenario"
<1> DEFINE p == parseFlags(line)
<1>1. \A how : usage(how).way = how
  BY DEF usage
<1>2. p.status \notin {"help", "error"} /\ modeKnown(p["mode"])
  <2>1. p.status # "help"
    <3> SUFFICES ASSUME p.status = "help" PROVE FALSE
      OBVIOUS
    <3>1. runCheck(line) = usage("usage")
      BY DEF runCheck
    <3> QED
      BY <1>1, <3>1
  <2>2. p.status # "error" /\ modeKnown(p.mode)
    <3> SUFFICES ASSUME p.status = "error" \/ ~modeKnown(p.mode) PROVE FALSE
      OBVIOUS
    <3>1. runCheck(line) = usage("error")
      BY <2>1 DEF runCheck
    <3> QED
      BY <1>1, <3>1
  <2> QED
    BY <2>1, <2>2
<1>3. \/ runCheck(line) = checkLive(p) \/ runCheck(line) = checkScenario(p)
  BY <1>2 DEF runCheck
<1>4. asString(p["mode"]) = p["mode"].val
  <2>1. /\ p["mode"] = text("audit") \/ p["mode"] = text("enforce")
        /\ ~text("audit").slash /\ ~text("enforce").slash
    BY <1>2 DEF modeKnown, text
  <2> QED
    BY <2>1 DEF asString
<1>5. runCheck(line) = checkLive(p) => runCheck(line).way = "live"
  <2> SUFFICES ASSUME runCheck(line) = checkLive(p) PROVE checkLive(p).way \in {"live", "error"}
    OBVIOUS
  <2> QED
    BY DEF checkLive, usage
<1>6. runCheck(line) = checkScenario(p) => runCheck(line).way = "scenario" /\ Len(p["rest"]) = 1
  <2> SUFFICES ASSUME runCheck(line) = checkScenario(p)
               PROVE  \/ checkScenario(p).way = "scenario" /\ Len(p["rest"]) = 1
                      \/ checkScenario(p).way = "error"
    OBVIOUS
  <2> QED
    BY DEF checkScenario, usage
<1>7. p.rest # <<>>
  <2> SUFFICES ASSUME p.rest = <<>> PROVE FALSE
    OBVIOUS
  <2>1. Len(<<>>) = 0
    OBVIOUS
  <2>2. runCheck(line) = checkLive(p)
    BY <1>3, <1>6, <2>1
  <2>3. extractNamespace(p.rest) = unextracted
    BY <2>1, ExtractedStepByStep DEF extractNamespace
  <2>4. unextracted.positional = <<>>
    BY DEF unextracted
  <2>5. Len(extractNamespace(p.rest).positional) = 0
    BY <2>1, <2>3, <2>4
  <2>6. checkLive(p) = usage("error")
    BY <2>5 DEF checkLive
  <2> QED
    BY <1>1, <2>2, <2>6
<1>8. \E w \in 1..Len(line) : RestFrom(p, line, Len(line), w)
  BY <1>2, <1>7, ParsedLineIs
<1> QED
  BY <1>3, <1>4, <1>5, <1>6, <1>8

(* A scenario is checked in the last mode written (main.go:189-203).       *)
LEMMA ScenarioLineIsHeard ==
  ASSUME NEW line, Clear(line), runCheck(line).way = "scenario"
  PROVE  ActsOn(line, {"mode"}, runCheck(line).mode)
<1> DEFINE p == parseFlags(line)
<1>1. PICK w \in 1..Len(line) : RestFrom(p, line, Len(line), w)
  BY CheckHasRest
<1>2. /\ runCheck(line) = checkScenario(p) /\ Len(p["rest"]) = 1
      /\ asString(p["mode"]) = p["mode"].val
  BY CheckHasRest
<1>3. runCheck(line).mode = p["mode"].val
  BY <1>2 DEF checkScenario, usage
<1> HIDE DEF p
<1>4. After(line, p["rest"], w - 1) /\ p["rest"][1].form = "word"
  BY <1>1, RestIsAfter
<1>5. Heard(p["mode"], line, w - 1, {"mode"})
  BY <1>1 DEF RestFrom, HeardFlags, valued
<1>6. \A k \in 1..Len(p["rest"]) : ~Gives(p["rest"], k, {"mode"})
  BY <1>2, <1>4 DEF Gives
<1>7. Heard(p["mode"], line, Len(line), {"mode"})
  BY <1>4, <1>5, <1>6, HeardBefore
<1> QED
  BY <1>2, <1>3, <1>7 DEF ActsOn

(* A live check is made in the last mode written, on the last namespace    *)
(* and the target written, wherever they are (main.go:238-253, 311-342).   *)
LEMMA LiveLineIsHeard ==
  ASSUME NEW line, Clear(line), NamespacesNamed(line), runCheck(line).way = "live",
         splits(runCheck(line).target)
  PROVE  /\ ActsOn(line, {"mode"}, runCheck(line).mode)
         /\ ActsOn(line, namespaces, runCheck(line).ns)
         /\ \E j \in 1..Len(line) :
              line[j] = word(path(runCheck(line).target.kind, runCheck(line).target.val))
<1> DEFINE p == parseFlags(line)
           r == p["rest"]
           x == extractNamespace(r)
           positional == x["positional"]
           target == runCheck(line).target
<1>1. PICK w \in 1..Len(line) : RestFrom(p, line, Len(line), w)
  BY CheckHasRest
<1>2. /\ runCheck(line) = checkLive(p)
      /\ asString(p["mode"]) = p["mode"].val
  BY CheckHasRest
<1>3. ~(~x.ok \/ x.pending \/ Len(x.positional) # 2)
  <2> SUFFICES ASSUME ~x.ok \/ x.pending \/ Len(x.positional) # 2 PROVE FALSE
    OBVIOUS
  <2>1. checkLive(p) = usage("error")
    BY DEF checkLive
  <2>2. usage("error").way = "error"
    BY DEF usage
  <2> QED
    BY <1>2, <2>1, <2>2
<1>4. /\ runCheck(line).mode = p["mode"].val
      /\ runCheck(line).ns = asString(IF x["ns"] # text("") THEN x["ns"] ELSE p["n"])
      /\ target = asValue(positional[2])
  <2>1. checkLive(p) = [usage("live") EXCEPT
              !.mode = p.mode.val,
              !.verb = asString(asValue(x.positional[1])),
              !.target = asValue(x.positional[2]),
              !.ns = asString(IF x.ns # text("") THEN x.ns ELSE p.n)]
    BY <1>3 DEF checkLive
  <2> HIDE DEF x
  <2> QED
    BY <1>2, <2>1 DEF usage
<1>5. x["pending"] = FALSE /\ Len(positional) = 2 /\ x = extracted(r)[Len(r)]
  <2>1. After(line, r, w - 1) /\ Clear(r) /\ r[1].form = "word"
    BY <1>1, RestIsAfter
  <2>2. Len(r) \in Nat /\ Len(r) \in 0..Len(r)
    <3>1. Len(r) \in Nat
      BY <2>1, LenProperties DEF Clear
    <3> HIDE DEF r
    <3> QED
      BY <3>1
  <2>3. ExtractInv(x, r, Len(r))
    BY <2>1, <2>2, ExtractHolds DEF extractNamespace
  <2> HIDE DEF x
  <2>4. x["pending"] \in BOOLEAN
    BY <2>3 DEF ExtractInv
  <2> QED
    BY <1>3, <2>4 DEF x, extractNamespace
<1> HIDE DEF p, r, x, positional, target
<1>6. /\ After(line, r, w - 1) /\ Clear(r) /\ r[1].form = "word"
      /\ Len(r) \in Nat /\ Len(r) \in 0..Len(r)
  <2>1. After(line, r, w - 1) /\ Clear(r) /\ r[1].form = "word"
    BY <1>1, RestIsAfter DEF r
  <2>2. Len(r) \in Nat
    BY <2>1, LenProperties DEF Clear
  <2> QED
    BY <2>1, <2>2
<1>7. HeardSpace(x["ns"], r, Len(r)) /\ Kept(positional, r, Len(r))
  <2>1. ExtractInv(x, r, Len(r))
    BY <1>5, <1>6, ExtractHolds
  <2> QED
    BY <1>5, <2>1 DEF ExtractInv, positional
<1>8. positional[2].form = "word" /\ target = positional[2].value /\ target.slash
  <2>1. target.slash
    BY DEF splits, target
  <2>2. \A v : ~text(v).slash
    BY DEF text
  <2>3. target = IF positional[2].form = "word" THEN positional[2].value
                                                ELSE text("-" \o positional[2].name)
    BY <1>4 DEF asValue
  <2> QED
    BY <2>1, <2>2, <2>3
<1>9. \A k \in 1..Len(r) : r[k].form = "word" \/ r[k].name \in namespaces
  <2> SUFFICES ASSUME NEW k \in 1..Len(r), r[k].form # "word", r[k].name \notin namespaces
               PROVE  FALSE
    OBVIOUS
  <2>1. PICK j \in 1..2 : positional[j] = r[k]
    BY <1>5, <1>7 DEF Kept
  <2>2. Len(r) # 0
    BY <1>6
  <2>3. positional[1] = r[1]
    BY <1>7, <2>2 DEF Kept
  <2>4. j = 1 \/ j = 2
    OBVIOUS
  <2> QED
    BY <1>6, <1>8, <2>1, <2>3, <2>4
<1>10. DOMAIN line = 1..Len(line) /\ line \in Seq(Arguments) /\ Len(line) \in Nat
  BY LenProperties DEF Clear
<1>11. ActsOn(line, {"mode"}, runCheck(line).mode)
  <2>1. Heard(p["mode"], line, w - 1, {"mode"})
    BY <1>1 DEF RestFrom, HeardFlags, valued
  <2>2. \A k \in 1..Len(r) : ~Gives(r, k, {"mode"})
    BY <1>9 DEF Gives, namespaces
  <2>3. Heard(p["mode"], line, Len(line), {"mode"})
    BY <1>6, <2>1, <2>2, HeardBefore
  <2>4. asString(p["mode"]) = runCheck(line).mode
    BY <1>2, <1>4 DEF p
  <2> QED
    BY <2>3, <2>4 DEF ActsOn
<1>12. ActsOn(line, namespaces, runCheck(line).ns)
  <2>1. CASE \A k \in 1..Len(r) : ~Gives(r, k, namespaces)
    <3>1. x["ns"] = text("")
      BY <1>7, <2>1 DEF HeardSpace
    <3>2. runCheck(line).ns = asString(p["n"])
      BY <1>4, <3>1
    <3>3. Heard(p["n"], line, w - 1, {"n"}) /\ \A j \in 1..(w - 1) : line[j].name # "namespace"
      BY <1>1 DEF RestFrom, HeardFlags, valued
    <3>4. \A j \in 1..(w - 1) : Gives(line, j, namespaces) <=> Gives(line, j, {"n"})
      BY <3>3 DEF Gives, namespaces
    <3>5. Heard(p["n"], line, w - 1, namespaces)
      BY <3>3, <3>4 DEF Heard, LastGives
    <3>6. Heard(p["n"], line, Len(line), namespaces)
      BY <1>6, <2>1, <3>5, HeardBefore
    <3> QED
      BY <3>2, <3>6 DEF ActsOn
  <2>2. CASE \E k \in 1..Len(r) : Gives(r, k, namespaces)
    <3> DEFINE S == {k \in 1..Len(r) : Gives(r, k, namespaces)}
    <3>1. PICK k \in S : \A j \in S : j <= k
      <4>1. S \subseteq 1..Len(r) /\ S # {}
        BY <2>2
      <4> HIDE DEF S
      <4> QED
        BY <1>6, <4>1, LastPlace
    <3>2. k \in 1..Len(r) /\ Gives(r, k, namespaces) /\ LastGives(r, Len(r), namespaces, k)
      BY <3>1 DEF LastGives
    <3>3. x["ns"] = ValueAt(r, k)
      BY <1>7, <3>2 DEF HeardSpace, Heard
    <3>4. x["ns"] # text("")
      <4>1. /\ (w - 1) + k \in 1..Len(line) /\ Gives(line, (w - 1) + k, namespaces)
            /\ ValueAt(line, (w - 1) + k) = ValueAt(r, k)
        BY <1>6, <3>2, GivesAfter
      <4> QED
        BY <1>10, <3>3, <4>1 DEF NamespacesNamed
    <3>5. Heard(x["ns"], line, Len(line), namespaces)
      BY <1>6, <1>7, <2>2, HeardLater DEF HeardSpace
    <3> QED
      BY <1>4, <3>4, <3>5 DEF ActsOn
  <2> QED
    BY <2>1, <2>2
<1>13. \E j \in 1..Len(line) : line[j] = word(path(target.kind, target.val))
  <2>1. PICK k \in 1..Len(r) : positional[2] = r[k]
    BY <1>5, <1>7 DEF Kept
  <2>2. (w - 1) + k \in 1..Len(line) /\ r[k] = line[(w - 1) + k]
    BY <1>6, GivesAfter DEF After
  <2> DEFINE arg == line[(w - 1) + k]
  <2>3. arg \in Arguments /\ arg.form = "word" /\ arg.value = target /\ arg.name = ""
    BY <1>8, <1>10, <2>1, <2>2, ElementOfSeq DEF Clear
  <2> HIDE DEF arg
  <2>4. target \in Values /\ arg = [form |-> "word", name |-> "", value |-> target]
    BY <2>3 DEF Arguments
  <2>5. target = [slash |-> TRUE, kind |-> target.kind, val |-> target.val]
    BY <1>8, <2>4 DEF Values
  <2>6. arg = word(path(target.kind, target.val))
    BY <2>4, <2>5 DEF word, path
  <2> QED
    BY <2>2, <2>6 DEF arg
<1> QED
  BY <1>11, <1>12, <1>13 DEF target

(* The same of the whole command line, "check" and all (main.go:132-151).  *)
LEMMA LineIsHeard ==
  ASSUME NEW line, Legible(line), run(line).way \in {"scenario", "live"},
         run(line).way = "live" => splits(run(line).target)
  PROVE  /\ ActsOn(line, {"mode"}, run(line).mode)
         /\ run(line).way = "live" =>
              /\ ActsOn(line, namespaces, run(line).ns)
              /\ \E j \in DOMAIN line :
                   line[j] = word(path(run(line).target.kind, run(line).target.val))
<1> DEFINE short == Tail(line)
<1>1. Clear(line) /\ NamespacesNamed(line)
  <2>1. Clear(line)
    BY DEF Legible, Clear, Arguments, Values
  <2>2. NamespacesNamed(line)
    BY DEF Legible, NamespacesNamed, Gives, ValueAt, namespaces
  <2> QED
    BY <2>1, <2>2
<1>2. line # <<>> /\ line[1].form = "word" /\ run(line) = runCheck(short)
  <2>1. \A how : usage(how).way = how
    BY DEF usage
  <2>2. line # <<>> /\ Head(line) = word(text("check")) /\ run(line) = runCheck(short)
    <3>1. run(line) # usage("usage") /\ run(line) # usage("error")
      <4>1. usage("usage").way = "usage" /\ usage("error").way = "error"
        BY <2>1
      <4> QED
        BY <4>1
    <3>2. word(text("help")) # word(text("check"))
      BY DEF word, text
    <3> QED
      BY <3>1, <3>2 DEF run
  <2>3. word(text("check")).form = "word"
    BY DEF word
  <2> QED
    BY <2>2, <2>3
<1>3. /\ short \in Seq(Arguments) /\ Len(line) = 1 + Len(short)
      /\ \A k \in 1..Len(short) : short[k] = line[1 + k]
  <2>1. /\ line \in Seq(Arguments) /\ short \in Seq(Arguments) /\ Len(short) = Len(line) - 1
        /\ \A k \in 1..Len(short) : short[k] = line[k + 1]
    BY <1>1, <1>2, HeadTailProperties DEF Clear
  <2>2. Len(line) \in Nat /\ Len(short) \in Nat
    BY <2>1, LenProperties
  <2> HIDE DEF short
  <2>3. Len(line) = 1 + Len(short) /\ \A k \in 1..Len(short) : 1 + k = k + 1
    BY <2>1, <2>2
  <2> QED
    BY <2>1, <2>3
<1> HIDE DEF short
<1>4. After(line, short, 1)
  BY <1>1, <1>3 DEF After, Clear
<1>5. /\ DOMAIN line = 1..Len(line) /\ DOMAIN short = 1..Len(short) /\ Len(short) \in Nat
  BY <1>1, <1>3, LenProperties DEF Clear
<1>6. \A k \in 1..Len(short) : 1 + k \in DOMAIN line /\ (1 + k) + 1 = 1 + (k + 1)
  BY <1>3, <1>5
<1>7. Clear(short)
  <2>1. ASSUME NEW k \in DOMAIN short, short[k].form = "word" PROVE short[k].name = ""
    <3>1. k \in 1..Len(short)
      BY <1>5
    <3>2. short[k] = line[1 + k] /\ 1 + k \in DOMAIN line
      BY <1>3, <1>6, <3>1
    <3> QED
      BY <1>1, <2>1, <3>2 DEF Clear
  <2>2. ASSUME NEW k \in DOMAIN short \ {Len(short)}, short[k].form = "flag",
               short[k].name \in valued \cup {"namespace"}
        PROVE  short[k + 1].form = "word"
    <3>1. k \in 1..Len(short) /\ k + 1 \in 1..Len(short) /\ 1 + k # Len(line)
      BY <1>3, <1>5
    <3>2. short[k] = line[1 + k] /\ short[k + 1] = line[(1 + k) + 1]
      BY <1>3, <1>6, <3>1
    <3>3. 1 + k \in DOMAIN line \ {Len(line)}
      BY <1>6, <3>1
    <3> QED
      BY <1>1, <2>2, <3>2, <3>3 DEF Clear
  <2> QED
    BY <1>3, <2>1, <2>2 DEF Clear
<1>8. NamespacesNamed(short)
  <2> SUFFICES ASSUME NEW k \in DOMAIN short, Gives(short, k, namespaces)
               PROVE  ValueAt(short, k) # text("")
    BY DEF NamespacesNamed
  <2>1. k \in 1..Len(short)
    BY <1>5
  <2>2. /\ 1 + k \in DOMAIN line /\ Gives(line, 1 + k, namespaces)
        /\ ValueAt(line, 1 + k) = ValueAt(short, k)
    BY <1>4, <1>6, <2>1, GivesAfter
  <2> QED
    BY <1>1, <2>2 DEF NamespacesNamed
<1>9. \A names : ~Gives(line, 1, names)
  BY <1>2 DEF Gives
<1>10. ASSUME NEW names, NEW string, ActsOn(short, names, string) PROVE ActsOn(line, names, string)
  <2>1. PICK v : Heard(v, short, Len(short), names) /\ asString(v) = string
    BY <1>10 DEF ActsOn
  <2>2. \A j \in 1..1 : ~Gives(line, j, names)
    BY <1>9
  <2>3. Heard(v, line, Len(line), names)
    BY <1>4, <2>1, <2>2, HeardLater
  <2> QED
    BY <2>1, <2>3 DEF ActsOn
<1>11. CASE run(line).way = "scenario"
  BY <1>2, <1>7, <1>10, <1>11, ScenarioLineIsHeard
<1>12. CASE run(line).way = "live"
  <2>1. /\ ActsOn(short, {"mode"}, run(line).mode) /\ ActsOn(short, namespaces, run(line).ns)
        /\ \E j \in 1..Len(short) :
             short[j] = word(path(run(line).target.kind, run(line).target.val))
    BY <1>2, <1>7, <1>8, <1>12, LiveLineIsHeard
  <2> QED
    BY <1>3, <1>6, <1>10, <2>1
<1> QED
  BY <1>11, <1>12

(* What counts is what the last flag says (lastGiven).                     *)
LEMMA ActedOnIsLast ==
  ASSUME NEW names, NEW string, DOMAIN args = 1..Len(args), ActsOn(args, names, string)
  PROVE  lastGiven(names) \subseteq {string}
<1> SUFFICES ASSUME NEW g \in {y \in given(names) : \A z \in given(names) : z[1] <= y[1]}
             PROVE  asString(g[2]) = string
  BY DEF lastGiven
<1>1. PICK v : Heard(v, args, Len(args), names) /\ asString(v) = string
  BY DEF ActsOn
<1>2. ASSUME NEW i \in DOMAIN args, Gives(args, i, names)
      PROVE  <<i, ValueAt(args, i)>> \in given(names)
  <2>1. CASE args[i].form = "eq"
    BY <1>2, <2>1 DEF Gives, ValueAt, given
  <2>2. CASE args[i].form = "flag" /\ i # Len(args)
    <3>1. ValueAt(args, i) = asValue(args[i + 1])
      BY <2>2 DEF ValueAt
    <3>2. i \in {j \in DOMAIN args \ {Len(args)} : args[j].form = "flag" /\ args[j].name \in names}
      BY <1>2, <2>2 DEF Gives
    <3> QED
      BY <3>1, <3>2 DEF given
  <2> QED
    BY <1>2, <2>1, <2>2 DEF Gives
<1>3. /\ g[1] \in DOMAIN args /\ Gives(args, g[1], names) /\ g[2] = ValueAt(args, g[1])
  <2>1. CASE g \in {<<i, args[i].value>> : i \in {j \in DOMAIN args :
                       args[j].form = "eq" /\ args[j].name \in names}}
    BY <2>1 DEF Gives, ValueAt
  <2>2. CASE g \in {<<i, asValue(args[i + 1])>> : i \in {j \in DOMAIN args \ {Len(args)} :
                       args[j].form = "flag" /\ args[j].name \in names}}
    BY <2>2 DEF Gives, ValueAt
  <2> QED
    BY <2>1, <2>2 DEF given
<1>4. ASSUME NEW j \in 1..Len(args), Gives(args, j, names) PROVE j <= g[1]
  <2>1. <<j, ValueAt(args, j)>>[1] <= g[1]
    BY <1>2, <1>4
  <2> QED
    BY <2>1
<1>5. LastGives(args, Len(args), names, g[1])
  BY <1>3, <1>4 DEF LastGives
<1> QED
  BY <1>1, <1>3, <1>5 DEF Heard

-----------------------------------------------------------------------------
(* What a run does with its command line.                                  *)

(* The pieces of the command line, on their way to the call: each phase     *)
(* has them where main.go leaves them (main.go:189-203, 238-289).          *)
LineInv ==
  /\ asked = run(args)
  /\ phase \notin {"args", "usage", "error"} => asked.way \in {"scenario", "live"}
  /\ phase \in {"cluster", "request", "contract", "scope"} => fromScenario
  /\ phase \in {"connect", "resolve", "discover", "list", "checked"} /\ ~fromScenario =>
       check = [verb |-> asked.verb, token |-> asked.target.kind, ns |-> asked.ns,
                name |-> asked.target.val, mode |-> asked.mode]
  /\ phase \in {"resolve", "discover", "list", "checked"} /\ ~fromScenario =>
       splits(asked.target)
  /\ phase \in {"discover", "list", "checked"} /\ ~fromScenario =>
       call.mode = check.mode /\ call.a.target.ns = check.ns /\ call.a.target.name = check.name

LEMMA LineStarts == CInit => LineInv
  BY DEF CInit, LineInv

(* The action of a live check has the target it was made of                *)
(* (main.go:401-416).                                                      *)
LEMMA ParsedActionNames ==
  ASSUME NEW verb, NEW kind, NEW ns, NEW name
  PROVE  LET target == parseAction(verb, kind, ns, name).target
         IN  target.ns = ns /\ target.name = name
  BY DEF parseAction

(* Every step hands them on or leaves them alone.                          *)
LEMMA LineKeeps ==
  ASSUME RunInv, LineInv, [CNext]_cvars
  PROVE  LineInv'
<1>1. UNCHANGED <<args, asked>>
  BY DEF CNext, Run, ShowUsage, RejectArgs, ChooseScenario, ChooseLive, Connect, ConnectFails,
         ReadCluster, ReadRequest, ReadContract, SkipContract, ReadScope, DeriveScope, LoadFails,
         ReadLive, Judge, Finish, Others, cvars, proceed, fail, startCheck
<1>2. fromScenario' <=> fromScenario
  BY <1>1 DEF fromScenario
<1>3. CASE phase' \in {"usage", "error"}
  BY <1>1, <1>3 DEF LineInv
<1>4. CASE UNCHANGED <<phase, check, call>>
  BY <1>1, <1>2, <1>4 DEF LineInv
<1>5. CASE ShowUsage \/ RejectArgs \/ ConnectFails \/ LoadFails
  <2>1. phase' \in {"usage", "error"}
    BY <1>5 DEF ShowUsage, RejectArgs, ConnectFails, LoadFails, proceed, fail, exitWithError
  <2> QED
    BY <1>3, <2>1
<1>6. CASE ChooseScenario
  BY <1>1, <1>6 DEF ChooseScenario, proceed, LineInv, fromScenario
<1>7. CASE ChooseLive
  BY <1>1, <1>7 DEF ChooseLive, proceed, LineInv, fromScenario
<1>8. CASE Connect
  BY <1>1, <1>2, <1>8 DEF Connect, proceed, LineInv
<1>9. CASE ReadCluster \/ ReadRequest \/ SkipContract
  BY <1>1, <1>2, <1>9 DEF ReadCluster, ReadRequest, SkipContract, proceed, LineInv
<1>10. CASE ReadContract \/ ReadScope \/ DeriveScope
  <2>1. phase \in {"contract", "scope"} /\ phase' = "checked"
    BY <1>10 DEF ReadContract, ReadScope, DeriveScope, startCheck
  <2> QED
    BY <1>1, <1>2, <2>1 DEF LineInv
<1>11. CASE ReadLive
  <2>1. CASE ResolveFails \/ ApiFails \/ BuildFails
    <3>1. phase' = "error"
      BY <2>1 DEF ResolveFails, ApiFails, BuildFails, exitWithError
    <3> QED
      BY <1>3, <3>1
  <2>2. CASE Resolve
    <3>1. /\ phase = "resolve" /\ phase' = "discover" /\ check' = check
          /\ call' = [noCall EXCEPT !.mode = check.mode,
                        !.a = parseAction(check.verb, ResolveKind(served, check.token),
                                          check.ns, check.name)]
      BY <2>2 DEF Resolve
    <3>2. /\ call'.mode = check.mode
          /\ call'.a = parseAction(check.verb, ResolveKind(served, check.token),
                                   check.ns, check.name)
      BY <3>1 DEF noCall
    <3>3. call'.a.target.ns = check.ns /\ call'.a.target.name = check.name
      BY <3>2, ParsedActionNames
    <3> QED
      BY <1>1, <1>2, <3>1, <3>2, <3>3 DEF LineInv
  <2>3. CASE Discover \/ List
    <3>1. /\ phase \in {"discover", "list"} /\ phase' = "list" /\ check' = check /\ call' = call
      BY <2>3 DEF Discover, List, allVars
    <3> QED
      BY <1>1, <1>2, <3>1 DEF LineInv
  <2>4. CASE Build
    <3>1. phase = "list" /\ phase' = "checked" /\ check' = check
      BY <2>4 DEF Build
    <3>2. (call.a)' = call.a /\ (call.mode)' = call.mode
      BY <3>1, CheckStarts
    <3> QED
      BY <1>1, <1>2, <3>1, <3>2 DEF LineInv
  <2> QED
    BY <1>11, <2>1, <2>2, <2>3, <2>4 DEF ReadLive
<1>12. CASE Judge \/ Finish
  <2>1. phase = "checked"
    BY <1>12, NothingJudgedBefore DEF RunInv
  <2>2. UNCHANGED <<phase, check, call>>
    BY <2>1, CheckSteps, CheckStepsWalk
  <2> QED
    BY <1>4, <2>2
<1>13. CASE Others \/ UNCHANGED cvars
  <2>1. UNCHANGED <<phase, check, call>>
    BY <1>13 DEF Others, ChangeApi, Write, cvars, lvars, liveVars, allVars
  <2> QED
    BY <1>4, <2>1
<1> QED
  BY <1>5, <1>6, <1>7, <1>8, <1>9, <1>10, <1>11, <1>12, <1>13 DEF CNext, Run

(* Whatever the command line, if it is Legible a verdict is given under the *)
(* last mode it names, in a live check on the last namespace and the target *)
(* it names, and on no other (main.go:192-197, 238-253 and 311-342): the   *)
(* flag package, the namespace among the positionals and the phases of a   *)
(* run lose none of its arguments, however many they are.                  *)
THEOREM ArgumentsAlwaysCount == CSpec => [](Legible(args) => NothingIgnored)
<1>1. ASSUME RunInv, LoadInv, LineInv, Legible(args) PROVE NothingIgnored
  <2> SUFFICES ASSUME shown # nothingShown PROVE NothingIgnored
    BY DEF NothingIgnored
  <2>1. phase = "checked" /\ asked = run(args) /\ asked.way \in {"scenario", "live"}
    BY <1>1 DEF RunInv, UndecidedUntilScoped, LineInv
  <2>2. DOMAIN args = 1..Len(args)
    BY <1>1, LenProperties DEF Legible
  <2>3. asked.way = "live" => splits(asked.target)
    BY <1>1, <2>1 DEF LineInv, fromScenario
  <2>4. /\ ActsOn(args, {"mode"}, asked.mode)
        /\ asked.way = "live" =>
             /\ ActsOn(args, namespaces, asked.ns)
             /\ \E j \in DOMAIN args : args[j] = word(path(asked.target.kind, asked.target.val))
    BY <1>1, <2>1, <2>3, LineIsHeard
  <2>5. CASE fromScenario
    <3>1. call.mode = asked.mode
      BY <1>1, <2>1, <2>5 DEF LoadInv
    <3>2. lastGiven({"mode"}) \subseteq {call.mode}
      BY <2>2, <2>4, <3>1, ActedOnIsLast
    <3> QED
      BY <2>5, <3>2 DEF NothingIgnored
  <2>6. CASE ~fromScenario
    <3>1. asked.way = "live"
      BY <2>1, <2>6 DEF fromScenario
    <3>2. /\ call.mode = asked.mode /\ call.a.target.ns = asked.ns
          /\ call.a.target.name = asked.target.val /\ check.token = asked.target.kind
      BY <1>1, <2>1, <2>6 DEF LineInv
    <3>3. lastGiven({"mode"}) \subseteq {call.mode}
      BY <2>2, <2>4, <3>2, ActedOnIsLast
    <3>4. lastGiven({"n", "namespace"}) \subseteq {call.a.target.ns}
      BY <2>2, <2>4, <3>1, <3>2, ActedOnIsLast DEF namespaces
    <3>5. \E i \in DOMAIN args : args[i] = word(path(check.token, call.a.target.name))
      BY <2>4, <3>1, <3>2
    <3> QED
      BY <3>3, <3>4, <3>5 DEF NothingIgnored
  <2> QED
    BY <2>5, <2>6
<1>2. CInit => RunInv /\ LoadInv /\ LineInv
  BY RunStarts, LoadStarts, LineStarts
<1>3. RunInv /\ LoadInv /\ LineInv /\ [CNext]_cvars => (RunInv /\ LoadInv /\ LineInv)'
  BY RunKeeps, LoadKeeps, LineKeeps
<1> QED
  BY <1>1, <1>2, <1>3, PTL DEF CSpec
=============================================================================
