------------------------------ MODULE Variant ------------------------------
(***************************************************************************)
(* gaa::variant::Variant, a std::variant with an enumerator of its own     *)
(* next to it, and Visitor, which dispatches on that enumerator            *)
(* (wrap/std/variant).                                                     *)
(***************************************************************************)
EXTENDS Naturals, Sequences

CONSTANTS
  Variants,      (* the Variant objects of the program                     *)
  Alternatives   (* the registered types used, named by their enumerators  *)

(* GAA_VARIANT_register_compact: four enumerators for every type. *)
Bases == <<"Double", "String", "Integer", "Character", "Logical", "Index",
           "Latitude", "Longitude">>
Forms == <<"", "Vec_", "Map_Idx_", "Map_Str_">>

Enumerators == [form : 1..Len(Forms), base : 1..Len(Bases)]

ASSUME VariantAssumption ==
  Alternatives \subseteq Enumerators /\ [form |-> 1, base |-> 1] \in Alternatives

Double == [form |-> 1, base |-> 1]
Unknown == [form |-> 0, base |-> 0]
DEFAULT == [form |-> 0, base |-> Len(Bases) + 1]

(* std::to_underlying *)
Underlying(e) ==
  IF e = Unknown THEN 0 ELSE IF e = DEFAULT THEN Len(Bases) * Len(Forms) + 1
  ELSE (e.base - 1) * Len(Forms) + e.form

IsScalar(e) == Underlying(e) # 0 /\ (Underlying(e) - 1) % 4 = 0

VARIABLES
  variants,    (* the objects made so far: Variant -> its members            *)
  functions,   (* Visitor: the cases that have a function                    *)
  visit,       (* what the last call did: a record, see below                *)
  came         (* history: how the value of an object came there, see below  *)

variantVars == <<variants, functions, visit, came>>

(* What a call may end with; "called" names the case and the value passed. *)
Nothing == [end |-> "returns"]
Aborts(why) == [end |-> "aborts", why |-> why]
Called(case, held) == [end |-> "called", case |-> case, held |-> held]

(* A value came from one of a registered type, directly or through const    *)
(* copies ("const"), or through other copies too ("copied"), or it did not. *)
CopiedAs(how, const) == IF how = "const" /\ ~const THEN "copied" ELSE how

VariantInit ==
  /\ variants = [v \in {} |-> Double]
  /\ functions = {}
  /\ visit = Nothing
  /\ came = [v \in {} |-> "other"]

VariantRuns == visit.end \notin {"aborts", "undefined"}

MapsTo(f, v, r) == [w \in DOMAIN f \union {v} |-> IF w = v THEN r ELSE f[w]]

(* A value of an alternative; only of vectors and maps does the length     *)
(* matter, and only whether it is zero.                                    *)
Lengthy(e) == IF IsScalar(e) THEN {1} ELSE {0, 1}

(* Variant() = default: the first alternative, but no enumerator. *)
DefaultConstruct(v) ==
  /\ VariantRuns
  /\ v \notin DOMAIN variants
  /\ variants' = MapsTo(variants, v, [held |-> Double, length |-> 1, var |-> Unknown])
  /\ visit' = Nothing
  /\ came' = MapsTo(came, v, "other")
  /\ UNCHANGED functions

(* Wrong variant: an assignment changes the value only. *)
AssignValueOnly(v, e, n) ==
  /\ VariantRuns
  /\ variants' =
       MapsTo(variants, v, [held |-> e, length |-> n,
                var |-> IF v \in DOMAIN variants THEN variants[v].var ELSE e])
  /\ visit' = Nothing
  /\ came' = MapsTo(came, v, "const")
  /\ UNCHANGED functions

(* Variant(v) and operator=(v) for a value of a registered type. *)
FromValue(v, e, n) ==
  /\ VariantRuns
  /\ variants' = MapsTo(variants, v, [held |-> e, length |-> n, var |-> e])
  /\ visit' = Nothing
  /\ came' = MapsTo(came, v, "const")
  /\ UNCHANGED functions

(* The same for a type that converts to an alternative without being one,  *)
(* such as float to double: Variable_of is the unspecialized template.     *)
FromConvertible(v) ==
  /\ VariantRuns
  /\ variants' = MapsTo(variants, v, [held |-> Double, length |-> 1, var |-> Unknown])
  /\ visit' = Nothing
  /\ came' = MapsTo(came, v, "other")
  /\ UNCHANGED functions

(* The implicit copy constructor and assignment, taken for const lvalues. *)
CopyConst(v, w) ==
  /\ VariantRuns
  /\ w \in DOMAIN variants
  /\ variants' = MapsTo(variants, v, variants[w])
  /\ visit' = Nothing
  /\ came' = MapsTo(came, v, CopiedAs(came[w], TRUE))
  /\ UNCHANGED functions

(* For other lvalues and for rvalues the templates are the better match:   *)
(* they copy the std::variant and ask for the enumerator of Variant.       *)
CopyOther(v, w) ==
  /\ VariantRuns
  /\ w \in DOMAIN variants
  /\ variants' = MapsTo(variants, v, [variants[w] EXCEPT !.var = Unknown])
  /\ visit' = Nothing
  /\ came' = MapsTo(came, v, CopiedAs(came[w], FALSE))
  /\ UNCHANGED functions

(* Visitor::case_of(var, f) *)
CaseOf(e) ==
  /\ VariantRuns
  /\ functions' = functions \union {e}
  /\ visit' = Nothing
  /\ UNCHANGED <<variants, came>>

(* A new Visitor{}. *)
NewVisitor ==
  /\ VariantRuns
  /\ functions # {}
  /\ functions' = {}
  /\ visit' = Nothing
  /\ UNCHANGED <<variants, came>>

(* Wrong variant: the default is preferred to the function of a case. *)
ChosenDefault(e) == IF DEFAULT \in functions THEN DEFAULT ELSE e

(* m_fn_ENUM.is_null ? m_fn_DEFAULT : m_fn_ENUM *)
Chosen(e) == IF e \in functions THEN e ELSE DEFAULT

(* Visitor::operator(): a switch over the enumerator.  The function of a   *)
(* case is given std::get<type>(var), which throws for another value.      *)
Visit(v) ==
  /\ VariantRuns
  /\ v \in DOMAIN variants
  /\ LET r == variants[v]
         c == Chosen(r.var)
     IN  visit' = IF r.var = Unknown THEN Aborts("unreachable default case")
                  ELSE IF c \notin functions THEN Nothing
                  ELSE IF c = DEFAULT \/ c = r.held THEN Called(c, r.held)
                  ELSE [end |-> "throws"]
  /\ UNCHANGED <<variants, functions, came>>

(* as<T>(): the assertion looks at the enumerator, std::get at the value.  *)
(* unwrap_to(ref) is a visitor whose cases fail for all types but one.     *)
AsValue(v, e) ==
  /\ VariantRuns
  /\ v \in DOMAIN variants
  /\ visit' = IF variants[v].var # e THEN Aborts("variable mismatch")
              ELSE IF variants[v].held = e THEN Called(e, e)
              ELSE [end |-> "throws"]
  /\ UNCHANGED <<variants, functions, came>>

(* format_to(out): a visitor with a function for every case, which writes  *)
(* the first element of a vector or map without looking whether there is   *)
(* one.                                                                    *)
FormatTo(v) ==
  /\ VariantRuns
  /\ v \in DOMAIN variants
  /\ LET r == variants[v]
     IN  visit' = IF r.var = Unknown THEN Aborts("unreachable default case")
                  ELSE IF r.var # r.held THEN [end |-> "throws"]
                  ELSE IF r.length = 0 THEN [end |-> "undefined"]
                  ELSE Called(r.var, r.held)
  /\ UNCHANGED <<variants, functions, came>>

VariantNext ==
  \/ \E v \in Variants : DefaultConstruct(v)
  \/ \E v \in Variants, e \in Alternatives : \E n \in Lengthy(e) : FromValue(v, e, n)
  \/ \E v \in Variants : FromConvertible(v)
  \/ \E v, w \in Variants : CopyConst(v, w)
  \/ \E v, w \in Variants : CopyOther(v, w)
  \/ \E e \in Alternatives \union {DEFAULT} : CaseOf(e)
  \/ NewVisitor
  \/ \E v \in Variants : Visit(v)
  \/ \E v \in Variants, e \in Alternatives : AsValue(v, e)
  \/ \E v \in Variants : FormatTo(v)

-----------------------------------------------------------------------------
(* Properties *)

(* The enumerator of an object is that of its value or Unknown, and the    *)
(* first exactly when the value came from a type that is an alternative    *)
(* through nothing but const copies: a visitor never meets a wrong type,   *)
(* but it may meet none (variant.hpp:81-128).                              *)
VariantTold ==
  \A v \in DOMAIN variants :
    variants[v].var = IF came[v] = "const" THEN variants[v].held ELSE Unknown

(* A function is called with the alternative it was registered for and the *)
(* default one only for values without a function of their own; no call    *)
(* throws std::bad_variant_access (visitor.hpp:25-39, variant.cpp:7-26).   *)
VisitsFit ==
  /\ visit.end # "throws"
  /\ visit.end = "called" =>
       \/ visit.case = visit.held
       \/ visit.case = DEFAULT /\ visit.held \notin functions

(* The switch of the visitor ends in gaa_fail("unreachable default case")   *)
(* (variant.cpp:23-24): no Variant given a value of a registered type, or  *)
(* copied from one, gets there.  Does not hold: a copy made from an object *)
(* that is not const has lost the enumerator.                              *)
DefaultUnreachable ==
  [][\A v \in DOMAIN variants :
       (Visit(v) /\ came[v] # "other") =>
         visit' # Aborts("unreachable default case")]_variantVars

=============================================================================
