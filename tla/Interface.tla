----------------------------- MODULE Interface ------------------------------
(***************************************************************************)
(* The interface-manifest tool, which decides what version a contract's    *)
(* bindings need: extract() turns the entries of a WASM into a manifest,   *)
(* diff() classifies what changed between two manifests and validate()     *)
(* holds the package's version and changelog against it.                   *)
(*                                                                         *)
(* A name is a number, so that names sort; the fields of a tuple struct    *)
(* are named by their positions, below FirstName.  A part (an argument, a  *)
(* field, a case) is [name, val] with val <<tag, arg>>: <<"udt", name>>    *)
(* refers to a type and <<"code", k>> is the code of an enum case.  All    *)
(* the docs of a definition are one field.                                 *)
(***************************************************************************)
EXTENDS Integers, Sequences, FiniteSets, SequencesExt

CONSTANTS FirstName,    \* the least name that is not a tuple position
          Roots,        \* roots.toml: the types whose encoding is committed
          Constructor   \* the name of __constructor

ASSUME InterfaceAssumption ==
    FirstName \in Nat /\ Roots \subseteq Nat /\ Constructor \in Nat

Enums == {"enum", "error"}

Sections == {"fn", "type", "error", "event"}

-----------------------------------------------------------------------------
(* extract()                                                               *)

Sorted(parts) == SortSeq(parts, LAMBDA p, q : p.name < q.name)

NamedStruct(e) ==
    e.kind = "struct" /\ \A i \in DOMAIN e.parts : e.parts[i].name >= FirstName

(* Named structs are maps and cases carry their own discriminants, so      *)
(* their order is dropped; tuple positions and arguments keep theirs.      *)
Normalized(e) ==
    IF NamedStruct(e) \/ e.kind \in {"union"} \cup Enums
    THEN [e EXCEPT !.parts = Sorted(@)] ELSE e

SectionOf(kind) ==
    CASE kind = "fn" -> "fn" [] kind = "error" -> "error"
      [] kind = "event" -> "event" [] OTHER -> "type"

EntriesOf(entries, section) ==
    {Normalized(e) : e \in {d \in Range(entries) :
                                SectionOf(d.kind) = section}}

Defs(entries, section) ==
    LET all == EntriesOf(entries, section)
    IN  [n \in {e.name : e \in all} |-> CHOOSE e \in all : e.name = n]

Refs(def) ==
    {v[2] : v \in {w \in {def.parts[i].val : i \in DOMAIN def.parts}
                         \cup {def.out} : w[1] = "udt"}}

(* The work list of hash_closure(): cycles and unknown names are skipped.  *)
RECURSIVE Closure(_, _, _)
Closure(types, seen, pending) ==
    IF pending = << >> THEN seen
    ELSE LET n == Last(pending)
             rest == Front(pending)
         IN  IF n \notin DOMAIN types \/ n \in seen
             THEN Closure(types, seen, rest)
             ELSE Closure(types, seen \cup {n},
                          rest \o SetToSeq(Refs(types[n])))

(* Mutant: the roots alone are critical.                                   *)
RootsOnly(types) == Roots \cap DOMAIN types

HashClosure(types) == Closure(types, {}, SetToSeq(Roots))

(* The manifest of entries that define no name of a section twice.         *)
Extract(entries) ==
    [defs |-> [s \in Sections |-> Defs(entries, s)],
     critical |-> HashClosure(Defs(entries, "type"))]

-----------------------------------------------------------------------------
(* diff()                                                                  *)

Cosmetic == 0
Additive == 1
Breaking == 2

WithoutDocs(def) == [def EXCEPT !.doc = 0]

Cases(def) ==
    [n \in {def.parts[i].name : i \in DOMAIN def.parts} |->
        (CHOOSE p \in Range(def.parts) : p.name = n).val]

CasesKept(x, y) == \A n \in DOMAIN x : n \in DOMAIN y /\ y[n] = x[n]

(* A case of an enum may take another name, never another code.            *)
CodesKept(x, y) ==
    /\ Range(x) \subseteq Range(y)
    /\ \A n \in DOMAIN x \cap DOMAIN y : y[n] = x[n]

Classify(a, b) ==
    IF a.kind # b.kind THEN Breaking
    ELSE IF WithoutDocs(a) = WithoutDocs(b) THEN Cosmetic
    ELSE IF \/ /\ a.kind \in {"union"} \cup Enums
               /\ CasesKept(Cases(a), Cases(b))
            \/ a.kind \in Enums /\ CodesKept(Cases(a), Cases(b))
    THEN Additive ELSE Breaking

(* Which line of the report a changed function gets: the first argument    *)
(* that differs, the number of arguments, or the return type.              *)
Detail(section, a, b) ==
    LET common == 1 .. Min({Len(a.parts), Len(b.parts)})
        differ == {i \in common : a.parts[i] # b.parts[i]}
        first == Min(differ)
    IN  IF section # "fn" THEN "changed"
        ELSE IF differ # {}
             THEN IF a.parts[first].name # b.parts[first].name
                  THEN "renamed" ELSE "retyped"
        ELSE IF Len(a.parts) # Len(b.parts) THEN "count"
        ELSE IF a.out # b.out THEN "return" ELSE "changed"

Critical(old, new, section, n) ==
    section = "type" /\ n \in old.critical \cup new.critical

(* The class of one name: a semantic change to a committed type breaks,    *)
(* and a change of the constructor breaks no deployed instance.            *)
ClassOf(old, new, section, n) ==
    LET a == old.defs[section]
        b == new.defs[section]
        plain == IF n \notin DOMAIN b THEN Breaking
                 ELSE IF n \notin DOMAIN a THEN Additive
                 ELSE Classify(a[n], b[n])
        critical == Critical(old, new, section, n) /\ plain # Cosmetic
    IN  IF critical THEN Breaking
        ELSE IF section = "fn" /\ n = Constructor /\ plain = Breaking
        THEN Additive ELSE plain

ItemOf(old, new, section, n) ==
    LET a == old.defs[section]
        b == new.defs[section]
    IN  <<section, n, IF n \notin DOMAIN b THEN "removed"
                      ELSE IF n \notin DOMAIN a THEN "added"
                      ELSE Detail(section, a[n], b[n])>>

Diff(old, new) ==
    UNION {LET a == old.defs[s]
               b == new.defs[s]
           IN  {[item |-> ItemOf(old, new, s, n),
                 class |-> ClassOf(old, new, s, n)] :
                    n \in {m \in DOMAIN a \cup DOMAIN b :
                              ~(m \in DOMAIN a /\ m \in DOMAIN b
                                /\ a[m] = b[m])}} : s \in Sections}

Classification(changes) == Max({c.class : c \in changes} \cup {Cosmetic})

-----------------------------------------------------------------------------
(* validate(): a version is <<major, minor, patch>>, a changelog a         *)
(* function from the versions it has a heading for to the items below it.  *)

AtLeast(v, w) ==
    \/ v = w
    \/ \E i \in 1 .. 3 : v[i] > w[i] /\ \A j \in 1 .. i - 1 : v[j] = w[j]

RequiredVersion(v, class) ==
    CASE class = Breaking /\ v[1] = 0 -> <<0, v[2] + 1, 0>>
      [] class = Breaking /\ v[1] # 0 -> <<v[1] + 1, 0, 0>>
      [] class = Additive -> <<v[1], v[2], v[3] + 1>>
      [] OTHER -> v

Validate(changes, v, w, changelog) ==
    /\ AtLeast(w, RequiredVersion(v, Classification(changes)))
    /\ w # v => /\ w \in DOMAIN changelog /\ changelog[w] # {}
                /\ \A c \in changes :
                       c.class = Breaking => c.item \in changelog[w]

-----------------------------------------------------------------------------
(* What the users of the old bindings rely on, stated without the tool.    *)

(* The versions npm and cargo take for one another.                        *)
Caret(v, w) ==
    /\ AtLeast(w, v)
    /\ IF v[1] > 0 THEN w[1] = v[1]
       ELSE IF v[2] > 0 THEN w[1] = 0 /\ w[2] = v[2] ELSE w = v

SameFields(a, b) ==
    Range(a.parts) = Range(b.parts) /\ Len(a.parts) = Len(b.parts)

(* What was encoded or called by the old definition means the same in the  *)
(* new one: positions for arguments and tuples, names for fields and cases,*)
(* numbers for codes.                                                      *)
StillUnderstood(a, b) ==
    /\ a.kind = b.kind
    /\ CASE a.kind \in {"fn", "event"} -> a.parts = b.parts /\ a.out = b.out
         [] a.kind = "struct" -> SameFields(a, b)
         [] a.kind = "union" -> Range(a.parts) \subseteq Range(b.parts)
         [] OTHER ->
              /\ \A p \in Range(a.parts) : \E q \in Range(b.parts) :
                     q.val = p.val
              /\ \A p \in Range(a.parts), q \in Range(b.parts) :
                     p.name = q.name => p.val = q.val

Reaches(types, root) ==
    {n \in DOMAIN types :
        \A S \in SUBSET DOMAIN types :
            /\ {root} \cap DOMAIN types \subseteq S
            /\ \A m \in S : Refs(types[m]) \cap DOMAIN types \subseteq S
            => n \in S}

(* The encoding of a committed type, down to the last type it contains.    *)
SameEncoding(s, t, root) ==
    /\ Reaches(s, root) = Reaches(t, root)
    /\ \A n \in Reaches(s, root) :
          s[n].kind = t[n].kind /\ SameFields(s[n], t[n])

(* Names of the old interface that its users cannot go on using.           *)
Lost(old, new) ==
    {<<s, n>> \in UNION {{s} \X DOMAIN old.defs[s] : s \in Sections} :
        /\ <<s, n>> # <<"fn", Constructor>>
        /\ \/ n \notin DOMAIN new.defs[s]
           \/ ~StillUnderstood(old.defs[s][n], new.defs[s][n])}

CommitmentsMoved(old, new) ==
    \E r \in Roots \cap DOMAIN old.defs["type"] :
        ~SameEncoding(old.defs["type"], new.defs["type"], r)
=============================================================================
