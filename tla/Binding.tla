------------------------------- MODULE Binding --------------------------------
(* How a struct is filled from outside: LoadConfig walks nested structs and   *)
(* takes environment variables, BindForm walks one struct and takes the form  *)
(* that is left for it by the accessors called before (Forms).  Both may stop *)
(* half way.                                                                  *)
(*                                                                            *)
(* The name of a variable is the sequence of its words: "DB_URL" is           *)
(* <<"DB", "URL">>, so that a prefix is prepended by appending sequences.     *)
(* What a field holds is tagged: <<"text", s>>, <<"number", n>>, <<"list", q>>. *)
(* "int64" stands for every kind of field that holds what was parsed.         *)
EXTENDS Forms, SequencesExt

CONSTANTS Struct,   \* Struct[s]: the fields of the struct type s, in order
          Config,   \* the type LoadConfig is called with
          Form,     \* the type BindForm is called with
          Vars,     \* the environment variables there may be
          Raw,      \* the strings they may be set to
          Number,   \* Number[r]: the number r is, for those that are one
          Parts,    \* Parts[r]: r between its commas, trimmed
          Unset     \* not set

\* No type of Go contains itself.
ASSUME BindingAssumption ==
    /\ Unset \notin Raw /\ DOMAIN Number \subseteq Raw /\ DOMAIN Parts = Raw
    /\ \A r \in DOMAIN Number : Number[r] \in Int
    /\ Values \subseteq Seq(Raw) /\ MaxCalls \in Nat
    /\ Config \in DOMAIN Struct /\ Form \in DOMAIN Struct
    /\ \A s \in DOMAIN Struct : Struct[s] \in Seq(ToSet(Struct[s]))
    /\ \A s \in DOMAIN Struct : \A f \in ToSet(Struct[s]) :
          f.tag \in Seq(ToSet(f.tag)) /\ (f.kind = "struct" => f.of \in DOMAIN Struct)
    /\ IsFiniteSet(DOMAIN Struct)
    /\ \E depth \in [DOMAIN Struct -> 0..Cardinality(DOMAIN Struct)] :
          \A s \in DOMAIN Struct : \A f \in ToSet(Struct[s]) : f.kind = "struct" => depth[f.of] < depth[s]

VARIABLES task,     \* "load"; "access" until BindForm is called, then "bind"
          env,      \* os.LookupEnv
          stack,    \* the calls of fillStruct, or the loop of BindForm: innermost first
          target,   \* what fields were set to, by their path from the root
          missing,  \* LoadConfig's list
          result    \* "none" while it runs, "ok", "missing", "invalid"

bindingVars == <<task, env, formVars, stack, target, missing, result>>
inputs == <<task, env, formVars>>

\* A field: its env or form tag, its kind, the struct type if it is one, its other tags.
Field(tag, kind, of, default, required, exported) ==
    [tag |-> tag, kind |-> kind, of |-> of, default |-> default, required |-> required, exported |-> exported]

Frame(s, prefix, path) == [struct |-> s, next |-> 1, prefix |-> prefix, path |-> path]
Error == <<"error">>

\* A signed field of eight bits keeps the low bits of what SetInt is given, an unsigned one of SetUint.
Signed(n) == ((n + 128) % 256) - 128
Unsigned(n) == n % 256

\* setField: the value a configuration field gets.
Parsed(kind, raw) ==
    CASE kind = "string" -> <<"text", raw>>
      [] kind = "int64" /\ raw \in DOMAIN Number -> <<"number", Number[raw]>>
      [] kind = "strings" -> <<"list", Parts[raw]>>
      [] OTHER -> Error

\* setFormField: the value a field gets from the values of its name.
BoundForm(kind, vals) ==
    LET raw == vals[1] number == raw \in DOMAIN Number IN
    CASE kind = "strings" -> <<"list", vals>>
      [] kind = "string" -> <<"text", raw>>
      [] kind = "int64" /\ number -> <<"number", Number[raw]>>
      [] kind = "int8" /\ number -> <<"number", Signed(Number[raw])>>
      [] kind = "uint8" /\ number /\ Number[raw] >= 0 -> <<"number", Unsigned(Number[raw])>>
      [] OTHER -> Error

Value(key) == IF key \in Vars THEN env[key] ELSE Unset
Given(values, name) == IF name \in Names THEN values[name] ELSE <<>>

BindingInit ==
    /\ FormsInit
    /\ \/ /\ task = "load" /\ stack = <<Frame(Config, <<>>, <<>>)>>
          /\ env \in [Vars -> Raw \cup {Unset}] /\ contentType = "other" /\ sound = "sound" /\ query = NoValues
       \/ /\ task = "access" /\ stack = <<>>
          /\ env = [v \in Vars |-> Unset]
    /\ target = [p \in {} |-> Error] /\ missing = <<>> /\ result = "none"

\* The field the innermost loop is at.
Top == Head(stack)
AtField(t) == task = t /\ result = "none" /\ stack # <<>> /\ Top.next <= Len(Struct[Top.struct])
Current == Struct[Top.struct][Top.next]
Here == Append(Top.path, Top.next)
Key == Top.prefix \o Current.tag
Continued == <<[Top EXCEPT !.next = @ + 1]>> \o Tail(stack)

\* A field that cannot be set, or says nothing about the environment, or "-" about the form.
Skip ==
    /\ \/ AtField("load") /\ (~Current.exported \/ Current.tag = <<>>)
       \/ AtField("bind") /\ (~Current.exported \/ Current.tag = <<"-">>)
    /\ stack' = Continued
    /\ UNCHANGED <<inputs, target, missing, result>>

\* A nested struct: the walk goes on inside it, under its tag.
Descend ==
    /\ AtField("load") /\ Current.exported /\ Current.tag # <<>> /\ Current.kind = "struct"
    /\ stack' = <<Frame(Current.of, Key, Here)>> \o Continued
    /\ UNCHANGED <<inputs, target, missing, result>>

With(f, x, value) == [y \in DOMAIN f \cup {x} |-> IF y = x THEN value ELSE f[y]]

\* The field is set, or the walk ends with the error.
Assign(value) ==
    IF value = Error
    THEN result' = "invalid" /\ UNCHANGED <<stack, target>>
    ELSE target' = With(target, Here, value) /\ stack' = Continued /\ UNCHANGED result

\* The variable, or the default when there is no such variable; an empty one is there.
Source(key, f) == IF Value(key) # Unset THEN Value(key) ELSE f.default

\* Mutant of LookUp: Getenv in place of LookupEnv.
GetEnv ==
    /\ AtField("load") /\ Current.exported /\ Current.tag # <<>> /\ Current.kind # "struct"
    /\ LET raw == IF Value(Key) = "" THEN Current.default ELSE Source(Key, Current) IN
       IF raw # Unset THEN Assign(Parsed(Current.kind, raw)) /\ UNCHANGED missing
       ELSE /\ missing' = IF Current.required THEN Append(missing, Key) ELSE missing
            /\ stack' = Continued /\ UNCHANGED <<target, result>>
    /\ UNCHANGED inputs

LookUp ==
    /\ AtField("load") /\ Current.exported /\ Current.tag # <<>> /\ Current.kind # "struct"
    /\ LET raw == Source(Key, Current) IN
       IF raw # Unset THEN Assign(Parsed(Current.kind, raw)) /\ UNCHANGED missing
       ELSE /\ missing' = IF Current.required THEN Append(missing, Key) ELSE missing
            /\ stack' = Continued /\ UNCHANGED <<target, result>>
    /\ UNCHANGED inputs

\* Mutant of TakeValues: an invalid field is left out, the rest is bound.
TakeValid ==
    /\ AtField("bind") /\ Current.exported /\ Current.tag # <<"-">>
    /\ IF Given(form, Key) = <<>> \/ BoundForm(Current.kind, Given(form, Key)) = Error
       THEN stack' = Continued /\ UNCHANGED <<target, result>>
       ELSE Assign(BoundForm(Current.kind, Given(form, Key)))
    /\ UNCHANGED <<inputs, missing>>

TakeValues ==
    /\ AtField("bind") /\ Current.exported /\ Current.tag # <<"-">>
    /\ IF Given(form, Key) = <<>>
       THEN stack' = Continued /\ UNCHANGED <<target, result>>
       ELSE Assign(BoundForm(Current.kind, Given(form, Key)))
    /\ UNCHANGED <<inputs, missing>>

\* An accessor before BindForm.
Before == task = "access" /\ Access /\ UNCHANGED <<task, env, stack, target, missing, result>>

\* BindForm up to its loop: ParseForm only, whatever the body is.
BindForm ==
    /\ task = "access"
    /\ task' = "bind"
    /\ Left(ParsedForm)
    /\ IF ParsedForm.failed THEN result' = "invalid" /\ UNCHANGED stack
                            ELSE stack' = <<Frame(Form, <<>>, <<>>)>> /\ UNCHANGED result
    /\ UNCHANGED <<body, calls, env, target, missing>>

\* The end of a struct, and of the whole.
Return ==
    /\ result = "none" /\ stack # <<>> /\ Top.next > Len(Struct[Top.struct])
    /\ stack' = Tail(stack)
    /\ UNCHANGED <<inputs, target, missing, result>>

Finish ==
    /\ result = "none" /\ stack = <<>> /\ task # "access"
    /\ result' = IF missing = <<>> THEN "ok" ELSE "missing"
    /\ UNCHANGED <<inputs, stack, target, missing>>

BindingNext == Before \/ BindForm \/ Skip \/ Descend \/ LookUp \/ TakeValues \/ Return \/ Finish
BindingSpec == BindingInit /\ [][BindingNext]_bindingVars

-----------------------------------------------------------------------------
\* The variables a struct type asks for, read off the type: where each goes and what it is called.
Leaves[s \in DOMAIN Struct] ==
    LET Below(i, f) == [j \in DOMAIN Leaves[f.of] |->
                          LET l == Leaves[f.of][j] IN [path |-> <<i>> \o l.path, key |-> f.tag \o l.key, field |-> l.field]]
        At(i, f) == IF ~f.exported \/ f.tag = <<>> THEN <<>>
                    ELSE IF f.kind = "struct" THEN Below(i, f)
                    ELSE <<[path |-> <<i>>, key |-> f.tag, field |-> f]>>
    IN  FlattenSeq([i \in DOMAIN Struct[s] |-> At(i, Struct[s][i])])

\* Of the items there is something given for, those before the first invalid one are set as parsed, no other is.
FilledUpTo(given, values, paths) ==
    LET set == {i \in given : \A j \in given : values[j] = Error => i < j}
    IN  /\ DOMAIN target = {paths[i] : i \in set}
        /\ \A i \in set : target[paths[i]] = values[i]

\* What ks lists of q is just the items of S, in their order.
Lists(ks, S, q) ==
    \E at \in [DOMAIN ks -> S] :
        /\ \A k, n \in DOMAIN ks : k < n => at[k] < at[n]
        /\ \A i \in S : \E n \in DOMAIN ks : at[n] = i
        /\ \A n \in DOMAIN ks : ks[n] = q[at[n]].key

\* LoadConfig: the environment before the default at every depth, and no error exactly when every value is
\* one and no required variable is neither set nor has a default ("app refuses to start if absent and no
\* default", config.go:19); an error that names such variables names all of them, in the order of the
\* fields.
LoadedAsDeclared ==
    task = "load" /\ result # "none" =>
        LET leaves == Leaves[Config]
            raw == [i \in DOMAIN leaves |-> Source(leaves[i].key, leaves[i].field)]
            there == {i \in DOMAIN leaves : raw[i] # Unset}
            values == [i \in there |-> Parsed(leaves[i].field.kind, raw[i])]
            bad == {i \in there : values[i] = Error}
            lost == {i \in DOMAIN leaves : raw[i] = Unset /\ leaves[i].field.required}
        IN  /\ result = "ok" <=> bad = {} /\ lost = {}
            /\ result = "invalid" => bad # {}
            /\ result = "missing" => lost # {} /\ Lists(missing, lost, leaves)
            /\ FilledUpTo(there, values, [i \in there |-> leaves[i].path])

\* A number that a field of eight bits can hold.
Fits(kind, raw) ==
    raw \in DOMAIN Number => /\ kind = "int8" => Number[raw] \in -128..127
                             /\ kind = "uint8" => Number[raw] < 256

\* BindForm.  "Invalid input yields a 400 BastError" (ctx.go:441): what is malformed or too large, if BindForm
\* is the first to parse it, and the first value that is none.  "Values populated by FormValue's r.Form
\* (query + POST body) are used" (ctx.go:442): a sound form is bound in full, up to that value, but a
\* multipart one only after another accessor has parsed it; and whatever happens, nothing else is bound.
\* Nothing is said of numbers that do not fit their field.
BoundAsSent ==
    task = "bind" /\ result # "none" =>
        LET fields == Struct[Form]
            bindable == {i \in DOMAIN fields : fields[i].exported /\ fields[i].tag # <<"-">>}
            whole == IF contentType = "urlencoded" THEN Both(sent, query) ELSE Both(query, sent)
            Of(f, i) == Given(f, fields[i].tag)
            Bound(f, i) == BoundForm(fields[i].kind, Of(f, i))
            Held(f, i) == Fits(fields[i].kind, Of(f, i)[1])
            given == {i \in bindable : Of(whole, i) # <<>>}
            first == \A i \in DOMAIN calls : calls[i] = "RawBody"
        IN  /\ first /\ (sound = "malformed" \/ (sound = "large" /\ contentType = "urlencoded")) =>
                  result = "invalid" /\ DOMAIN target = {}
            /\ sound = "sound" /\ ~(first /\ contentType = "multipart") /\ (\A i \in given : Held(whole, i)) =>
                  /\ result = "ok" <=> \A i \in given : Bound(whole, i) # Error
                  /\ FilledUpTo(given, [i \in given |-> Bound(whole, i)], [i \in given |-> <<i>>])
            /\ \A p \in DOMAIN target : \E i \in bindable, f \in {query, whole} :
                  p = <<i>> /\ Of(f, i) # <<>> /\ (Held(f, i) => target[p] = Bound(f, i))
=============================================================================
