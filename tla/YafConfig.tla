----------------------------- MODULE YafConfig -----------------------------
(***************************************************************************)
(* The configuration component: the callback that builds the arrays of an  *)
(* ini file line by line (configs/yaf_config_ini.c), and the objects that  *)
(* are read and written afterwards (Yaf_Config_Ini, Yaf_Config_Simple).    *)
(*                                                                         *)
(* What is hard here is sharing.  A PHP array is counted by reference and  *)
(* copied on write, by whoever writes to it.  A section that inherits      *)
(* another shares the nested arrays of its parent, nested objects share    *)
(* the arrays of the object they were got from, and toArray() hands the    *)
(* array itself to PHP code; some of the writers separate first and some   *)
(* write in place.  So arrays have identities here: heap[i] is the i-th    *)
(* array, a partial function from keys to values, and a value is a scalar  *)
(* or a reference to an array.  heap[1] is the array of the whole file.    *)
(* Freed arrays stay in heap; RefCount looks only at live ones.            *)
(*                                                                         *)
(* A line writes its own number, so two lines never write the same value.  *)
(* Keys have at most two segments.  The words of a line (trimming, quoting,*)
(* numeric parsing) are the ini scanner's and are left out.                *)
(***************************************************************************)
EXTENDS Naturals, Sequences, FiniteSets, FiniteSetsExt, SequencesExt

CONSTANTS
  Headers,   \* section headers of the file: records [name, parents]
  Keys,      \* first segments of keys
  Index,     \* sequence of the names of the integer keys 0, 1, ...
  Names,     \* second segments that are not integers
  Wanted,    \* section names the caller may ask for
  Lower,     \* strncasecmp: each section name in lower case
  Null,
  MaxLines,  \* bound on the lines of the file
  MaxSteps   \* bound on the lines and the later operations together

Sections == {h.name : h \in Headers}

\* A key outside all sections is not named like a section, nor asked for or
\* inherited as one (the code takes what it finds there for an array).
ASSUME ConfigAssumption ==
  /\ Keys \cap (Sections \cup Wanted) = {}
  /\ \A h \in Headers : /\ h.parents \in Seq(ToSet(h.parents))
                        /\ Keys \cap ToSet(h.parents) = {}
  /\ MaxLines \in Nat /\ MaxSteps \in Nat /\ MaxLines <= MaxSteps
  /\ Null \notin Nat \cup Sections \cup Wanted

VARIABLES
  heap,    \* all arrays ever made
  active,  \* YAF_G(active_ini_file_section), Null while IS_UNDEF
  flag,    \* YAF_G(parsing_flag)
  wanted,  \* YAF_G(ini_wanted_section)
  phase,   \* "parse" while zend_parse_ini_file runs, then "live"
  objs,    \* the configuration objects, in the order they were made
  vars,    \* arrays held by PHP variables
  last,    \* what the last step was
  steps    \* lines and operations so far

state == <<heap, active, flag, wanted, phase, objs, vars, last, steps>>

----------------------------------------------------------------------------
(* Arrays and their sharing.                                               *)

Scalar(v) == [kind |-> "scalar", val |-> v]
Arr(i) == [kind |-> "array", id |-> i]
IsArr(v) == v.kind = "array"
Empty == [k \in {} |-> Scalar(0)]
Single(k, v) == [x \in {k} |-> v]

\* The entries of a, and those of b that a does not have.
Over(a, b) == [k \in DOMAIN a \cup DOMAIN b |-> IF k \in DOMAIN a THEN a[k] ELSE b[k]]
Paths == {<<k>> : k \in Keys} \cup {<<k, j>> : k \in Keys, j \in Names \cup ToSet(Index)}

Children(h, S) ==
  {v.id : v \in {w \in UNION {{h[i][k] : k \in DOMAIN h[i]} : i \in S} : IsArr(w)}}

\* Nothing nests deeper than file, section, key.
Reach(h, S) ==
  LET one == S \cup Children(h, S) IN one \cup Children(h, one)

Held == (IF phase = "parse" THEN {1} ELSE {}) \cup {o.arr : o \in ToSet(objs)} \cup ToSet(vars)

\* The reference count of array i: the slots of live arrays, the properties
\* of objects and the PHP variables that hold it.
RefCount(i) ==
  LET slots == UNION {{j} \X DOMAIN heap[j] : j \in Reach(heap, Held)} IN
    Cardinality({s \in slots : heap[s[1]][s[2]] = Arr(i)})
    + Cardinality({n \in DOMAIN objs : objs[n].arr = i})
    + Cardinality({n \in DOMAIN vars : vars[n] = i})

\* Mutant: an entry line writes where it finds the array.
SeparateNot(i, k) == heap

\* SEPARATE_ZVAL on the slot k of array i: a shared array is duplicated and
\* the slot refers to the duplicate.
Separate(i, k) ==
  LET v == heap[i][k] IN
    IF IsArr(v) /\ RefCount(v.id) > 1
    THEN Append([heap EXCEPT ![i][k] = Arr(Len(heap) + 1)], heap[v.id])
    ELSE heap

\* zend_hash_update on array i, in place.
Write(h, i, k, v) == [h EXCEPT ![i] = Over(Single(k, v), @)]

\* array_init and its insertion under k of array i.
Fresh(h, i, k, a) == Append(Write(h, i, k, Arr(Len(h) + 1)), a)

----------------------------------------------------------------------------
(* yaf_config_ini_parser_cb: the lines of the file.                        *)

Current == IF active = Null THEN 1 ELSE active

\* yaf_deep_copy_section(dst, src): two arrays are merged into a new one,
\* anything else is taken over, arrays by reference.  No two keys of src touch
\* the same slot.
DeepCopySection(h, dst, src) ==
  LET both == {k \in DOMAIN h[dst] \cap DOMAIN h[src] : IsArr(h[dst][k]) /\ IsArr(h[src][k])}
      order == SetToSeq(both)
      merged == [n \in DOMAIN order |-> Over(h[h[src][order[n]].id], h[h[dst][order[n]].id])]
      new == [k \in both |-> Arr(Len(h) + CHOOSE n \in DOMAIN order : order[n] = k)]
  IN [h EXCEPT ![dst] = Over(new, Over(h[src], @))] \o merged

\* A parent that the file does not have is skipped.
InheritFrom(h, new, p) == IF p \in DOMAIN h[1] THEN DeepCopySection(h, new, h[1][p].id) ELSE h

\* The new section is array Len(heap) + 1; parents are copied from the last
\* listed to the first.
InheritAll(parents) ==
  LET new == Len(heap) + 1
      copied[n \in 1 .. Len(parents) + 1] ==
        IF n = Len(parents) + 1 THEN Append(heap, Empty)
        ELSE InheritFrom(copied[n + 1], new, parents[n])
  IN copied[1]

NextLine(line) ==
  /\ phase = "parse"
  /\ steps < MaxLines
  /\ steps' = steps + 1
  /\ last' = line
  /\ UNCHANGED <<wanted, phase, objs, vars>>

\* [name : parent1 : parent2].  After the wanted section the rest of the
\* file is ignored.
Header(h) ==
  /\ NextLine([op |-> "header", name |-> h.name, parents |-> h.parents])
  /\ flag = "start"
  /\ LET new == Len(heap) + 1 IN
       /\ heap' = Write(InheritAll(h.parents), 1, h.name, Arr(new))
       /\ active' = new
  /\ flag' = IF wanted /= Null /\ Lower[wanted] = Lower[h.name] THEN "process" ELSE flag

LastHeader ==
  /\ NextLine([op |-> "ignored"])
  /\ flag = "process"
  /\ flag' = "end"
  /\ UNCHANGED <<heap, active>>

IgnoredLine ==
  /\ NextLine([op |-> "ignored"])
  /\ flag = "end"
  /\ UNCHANGED <<heap, active, flag>>

\* ZEND_INI_PARSER_ENTRY, key = value or key.sub = value: existing arrays on
\* the way are separated, a scalar in the way gives way to an array, and a
\* scalar for an existing array is dropped (though the array is separated).
EntryHeap(path, v) ==
  LET k == path[1]
      found == k \in DOMAIN heap[Current]
      array == found /\ IsArr(heap[Current][k])
      h == IF found THEN Separate(Current, k) ELSE heap
  IN IF Len(path) = 1
     THEN IF array THEN h ELSE Write(h, Current, k, v)
     ELSE IF array THEN Write(h, h[Current][k].id, path[2], v)
     ELSE Fresh(h, Current, k, Single(path[2], v))

Entry(path) ==
  /\ NextLine([op |-> "entry", path |-> path, value |-> Scalar(steps)])
  /\ flag /= "end"
  /\ heap' = EntryHeap(path, Scalar(steps))
  /\ UNCHANGED <<active, flag>>

\* add_next_index_zval: the integer key after the largest one in use.
NextIndex(a) == 1 + Max({0} \cup {n \in DOMAIN Index : Index[n] \in DOMAIN a})

ListOf(k) ==
  IF k \in DOMAIN heap[Current] /\ IsArr(heap[Current][k])
  THEN heap[heap[Current][k].id] ELSE Empty

\* ZEND_INI_PARSER_POP_ENTRY, key[] = value or key[sub] = value: written into
\* the array that is found, shared or not.
ListEntry(k, j) ==
  /\ NextLine([op |-> "list", path |-> <<k, j>>, value |-> Scalar(steps)])
  /\ flag /= "end"
  /\ heap' = IF k \in DOMAIN heap[Current] /\ IsArr(heap[Current][k])
             THEN Write(heap, heap[Current][k].id, j, Scalar(steps))
             ELSE Fresh(heap, Current, k, Single(j, Scalar(steps)))
  /\ UNCHANGED <<active, flag>>

ListAppend(k) ==
  LET n == NextIndex(ListOf(k)) IN n <= Len(Index) /\ ListEntry(k, Index[n])

\* The end of yaf_config_ini_instance: the object holds a copy of the wanted
\* section, or the whole file; without such a section it is an error.
Object(a, cls, ro, parent) == [arr |-> a, cls |-> cls, ro |-> ro, parent |-> parent]

ParseEnd ==
  /\ phase = "parse"
  /\ phase' = "live"
  /\ last' = [op |-> "parsed"]
  /\ IF wanted = Null
     THEN objs' = <<Object(1, "ini", TRUE, Null)>> /\ UNCHANGED heap
     ELSE IF wanted \in DOMAIN heap[1]
     THEN /\ heap' = Append(heap, heap[heap[1][wanted].id])
          /\ objs' = <<Object(Len(heap) + 1, "ini", TRUE, Null)>>
     ELSE UNCHANGED <<heap, objs>>
  /\ active' = Null
  /\ UNCHANGED <<flag, wanted, vars, steps>>

----------------------------------------------------------------------------
(* The objects.  vars are the arrays that PHP code holds in variables.     *)

Operation(op) ==
  /\ phase = "live"
  /\ steps < MaxSteps
  /\ steps' = steps + 1
  /\ last' = op
  /\ UNCHANGED <<active, flag, wanted, phase>>

\* PHP code writes an array of its own.
PhpArray(k, j) ==
  /\ Operation([op |-> "array"])
  /\ heap' = heap \o <<Single(k, Arr(Len(heap) + 2)), Single(j, Scalar(steps))>>
  /\ vars' = Append(vars, Len(heap) + 1)
  /\ UNCHANGED objs

\* new Yaf_Config_Simple($array, $readonly), new Yaf_Config_Ini($array)
Construct(v, cls, ro) ==
  /\ Operation([op |-> "construct"])
  /\ cls = "ini" => ro
  /\ objs' = Append(objs, Object(vars[v], cls, ro, Null))
  /\ UNCHANGED <<heap, vars>>

\* Mutant: the nested object is always writable.
FormatWritable(n, i) == Object(i, objs[n].cls, FALSE, n)

\* Mutant: only the class says whether a nested object is read-only.
FormatByClass(n, i) == Object(i, objs[n].cls, objs[n].cls = "ini", n)

\* get() of a nested array: yaf_config_ini_format, yaf_config_simple_format
Format(n, i) == Object(i, objs[n].cls, objs[n].ro, n)

Get(n, k) ==
  /\ Operation([op |-> "get"])
  /\ k \in DOMAIN heap[objs[n].arr] /\ IsArr(heap[objs[n].arr][k])
  /\ objs' = Append(objs, Format(n, heap[objs[n].arr][k].id))
  /\ UNCHANGED <<heap, vars>>

ToArray(n) ==
  /\ Operation([op |-> "toArray"])
  /\ vars' = Append(vars, objs[n].arr)
  /\ UNCHANGED <<heap, objs>>

\* Mutant: the array of the property is duplicated first.
UpdatePropsCopy(n, k, v) ==
  /\ heap' = Append(heap, Over(Single(k, v), heap[objs[n].arr]))
  /\ objs' = [objs EXCEPT ![n].arr = Len(heap) + 1]

\* zend_hash_update on the array of the property, whoever else refers to it.
UpdateProps(n, k, v) ==
  /\ heap' = Write(heap, objs[n].arr, k, v)
  /\ UNCHANGED objs

Set(n, k) ==
  /\ Operation([op |-> "set", obj |-> n, key |-> k, value |-> Scalar(steps)])
  /\ ~objs[n].ro
  /\ UpdateProps(n, k, Scalar(steps))
  /\ UNCHANGED vars

OffsetUnset(n, k) ==
  /\ Operation([op |-> "unset", obj |-> n])
  /\ ~objs[n].ro
  /\ k \in DOMAIN heap[objs[n].arr]
  /\ heap' = [heap EXCEPT ![objs[n].arr] = [x \in DOMAIN @ \ {k} |-> @[x]]]
  /\ UNCHANGED <<objs, vars>>

\* $array[$k] = ... : the engine separates a shared array first.
PhpWrite(v, k) ==
  /\ Operation([op |-> "php", value |-> Scalar(steps)])
  /\ IF RefCount(vars[v]) > 1
     THEN /\ heap' = Append(heap, Over(Single(k, Scalar(steps)), heap[vars[v]]))
          /\ vars' = [vars EXCEPT ![v] = Len(heap) + 1]
     ELSE /\ heap' = Write(heap, vars[v], k, Scalar(steps))
          /\ UNCHANGED vars
  /\ UNCHANGED objs

----------------------------------------------------------------------------
Init ==
  /\ heap = <<Empty>>
  /\ active = Null
  /\ flag = "start"
  /\ wanted \in Wanted \cup {Null}
  /\ phase = "parse"
  /\ objs = <<>> /\ vars = <<>>
  /\ last = [op |-> "none"]
  /\ steps = 0

ParseLine ==
  \/ \E h \in Headers : Header(h)
  \/ LastHeader
  \/ IgnoredLine
  \/ \E p \in Paths : Entry(p)
  \/ \E k \in Keys : ListAppend(k)
  \/ \E k \in Keys, j \in Names : ListEntry(k, j)

Use ==
  \/ \E k \in Keys, j \in Names : PhpArray(k, j)
  \/ \E v \in DOMAIN vars, ro \in BOOLEAN, cls \in {"ini", "simple"} : Construct(v, cls, ro)
  \/ \E n \in DOMAIN objs :
       \/ ToArray(n)
       \/ \E k \in Sections \cup Keys : Get(n, k)
       \/ \E k \in Keys \cup Names : Set(n, k) \/ OffsetUnset(n, k)
  \/ \E v \in DOMAIN vars, k \in Keys : PhpWrite(v, k)

Next == ParseLine \/ ParseEnd \/ Use

Spec == Init /\ [][Next]_state

----------------------------------------------------------------------------
(* The file by value: the set of its leaves, each with its path from the   *)
(* root, and what a line means for them.                                   *)

Slots(h, i) == {[path |-> <<k>>, v |-> h[i][k]] : k \in DOMAIN h[i]}
Deepen(h, S) ==
  UNION {IF IsArr(s.v) THEN {[path |-> s.path \o t.path, v |-> t.v] : t \in Slots(h, s.v.id)}
                       ELSE {s} : s \in S}
Leaves(h, i) == Deepen(h, Deepen(h, Slots(h, i)))

Under(L, s) == {[path |-> Tail(l.path), v |-> l.v] : l \in {m \in L : Head(m.path) = s}}
In(s, L) == {[path |-> <<s>> \o l.path, v |-> l.v] : l \in L}

\* The leaves of own, and those of other that own does not hide.
Before(own, other) ==
  own \cup {l \in other : \A m \in own : ~IsPrefix(m.path, l.path) /\ ~IsPrefix(l.path, m.path)}

Assign(L, path, v) ==
  IF \E l \in L : IsStrictPrefix(path, l.path) THEN L
  ELSE {l \in L : ~IsPrefix(l.path, path)} \cup {[path |-> path, v |-> v]}

Here == IF active = Null THEN <<>> ELSE <<CHOOSE s \in Sections \cap DOMAIN heap[1] : heap[1][s] = Arr(active)>>

\* What a section inherits: of parents[n], then of those after it.
Inherited(L, parents) ==
  LET from[n \in 1 .. Len(parents) + 1] ==
        IF n = Len(parents) + 1 THEN {} ELSE Before(Under(L, parents[n]), from[n + 1])
  IN from[1]

Meant(L, line) ==
  CASE line.op = "header" ->
         {l \in L : Head(l.path) /= line.name} \cup In(line.name, Inherited(L, line.parents))
    [] line.op \in {"entry", "list"} -> Assign(L, Here \o line.path, line.value)
    [] OTHER -> L

\* A list line whose array the section has inherited and not yet separated.
SharedList ==
  /\ last'.op = "list"
  /\ LET k == last'.path[1] IN
       k \in DOMAIN heap[Current] /\ IsArr(heap[Current][k]) /\ RefCount(heap[Current][k].id) > 1

\* Every variable has its type, references lead to arrays that exist, and the
\* section being filled is a section of the file (so that what is written to
\* YAF_G(active_ini_file_section) is not lost).
TypeOK ==
  /\ \A i \in DOMAIN heap : \A k \in DOMAIN heap[i] :
       LET v == heap[i][k] IN IF IsArr(v) THEN v.id \in DOMAIN heap ELSE v.val \in Nat
  /\ flag \in {"start", "process", "end"}
  /\ phase \in {"parse", "live"}
  /\ wanted \in Wanted \cup {Null}
  /\ steps \in 0 .. MaxSteps
  /\ \A n \in DOMAIN objs : /\ objs[n].arr \in DOMAIN heap
                            /\ objs[n].cls = "ini" => objs[n].ro
  /\ \A v \in DOMAIN vars : vars[v] \in DOMAIN heap
  /\ active /= Null => \E s \in Sections : s \in DOMAIN heap[1] /\ heap[1][s] = Arr(active)

\* A line means what it says, for the whole file: a header starts a section
\* that has the entries of its parents, the first listed before the next; a
\* value line sets one leaf of its own section and leaves every other section
\* as it was.  List lines on a list that is still shared with a parent are the
\* only exception (see LinesStayInTheirSection).
LinesMeanWhatTheySay ==
  [][phase = "parse" /\ phase' = "parse" /\ ~SharedList
       => Leaves(heap', 1) = Meant(Leaves(heap, 1), last')]_state

\* Stated by the tests of section inheritance: a line changes nothing
\* outside the section it stands in.  List lines break it, because
\* ZEND_INI_PARSER_POP_ENTRY writes in place.
LinesStayInTheirSection ==
  [][phase = "parse" /\ phase' = "parse" /\ last'.op = "list" =>
       \A s \in Sections : Here /= <<s>> => Under(Leaves(heap', 1), s) = Under(Leaves(heap, 1), s)]_state

\* The object that PHP code constructed and from which n was got.
Origin(n) ==
  IF objs[n].parent = Null THEN n
  ELSE IF objs[objs[n].parent].parent = Null THEN objs[n].parent
  ELSE objs[objs[n].parent].parent

Changed(n) == Leaves(heap', objs[n].arr) /= Leaves(heap, objs[n].arr)

\* However deep PHP code goes into a read-only configuration with get(), it
\* obtains nothing that could change it, nor does writing to an array it has
\* handed in or got from toArray(): if a read-only object changes, an object
\* that was constructed writable, over an array the two share, was written to.
ReadonlyThroughGet ==
  [][\A n \in DOMAIN objs : objs[n].ro /\ Changed(n) =>
       last'.op \in {"set", "unset"} /\ ~objs[Origin(last'.obj)].ro]_state

\* Writing to a nested object, $config->a->b = v, reaches the configuration
\* it was got from, as long as that still holds the nested array.
NestedSetReachesParent ==
  [][last'.op = "set" /\ steps' /= steps => LET n == last'.obj p == objs[n].parent IN
       p /= Null => \A k \in DOMAIN heap[objs[p].arr] :
         heap[objs[p].arr][k] = Arr(objs[n].arr) =>
           [path |-> <<k, last'.key>>, v |-> last'.value] \in Leaves(heap', objs'[p].arr)]_state

\* Stated by the class: a read-only configuration does not change.
ReadonlyKept == [][\A n \in DOMAIN objs : objs[n].ro => ~Changed(n)]_state

============================================================================
