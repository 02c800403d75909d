-------------------------------- MODULE Any --------------------------------
(***************************************************************************)
(* gaa::Any (wrap/std/any): a std::any with, next to it, a reference to    *)
(* the table of functions of the type it was made from, and flags about    *)
(* that type.  The tables are kept in one registry for the whole program,  *)
(* filled when a type is first used, and carry the plugins a program adds. *)
(*                                                                         *)
(* Elements are not told apart: an object is its type and its length.      *)
(***************************************************************************)
EXTENDS Naturals, FiniteSets

CONSTANTS
  Anys,       (* the Any objects of the program                       *)
  AnyTypes,   (* the types stored, a subset of AllTypes               *)
  Plugins,    (* the names of plugins                                 *)
  MaxLength   (* bound on the length of a string or vector            *)

AllTypes == {"nullptr", "int", "string", "vector of int"}

ASSUME AnyAssumption == AnyTypes \subseteq AllTypes /\ MaxLength \in Nat

VARIABLES
  anys,      (* the objects made so far: Any -> its members            *)
  vtables,   (* vtable_ctrl(): registered type -> its plugins          *)
  anyEnd,    (* how the last call ended: "returns", "throws", "aborts" *)
  moved,     (* history: the objects moved from and not assigned since *)
  given      (* history: <<type, plugin>> of each new_plugin()         *)

anyVars == <<anys, vtables, anyEnd, moved, given>>

Empty == "no value"

(* Has_Size, Has_At, Has_Push_Back and std::ranges::range agree on these   *)
(* types; and the type of an element.                                      *)
IsRange(T) == T \in {"string", "vector of int"}
ValueType(T) == IF T = "string" THEN "char" ELSE "int"

Lengths(T) == IF IsRange(T) THEN 0..MaxLength ELSE {0}

(* An object made from a value of type T. *)
AnyOf(T, n) == [held |-> T, length |-> n, vtable |-> T, info |-> T]

(* Wrong variant: the registration is made anew every time. *)
GetReset(t, T) == [S \in DOMAIN t \union {T} |-> IF S = T THEN {} ELSE t[S]]

(* Vtable_ctrl::get<T>(): the table is made when the type is new. *)
Get(t, T) == [S \in DOMAIN t \union {T} |-> IF S \in DOMAIN t THEN t[S] ELSE {}]

AnyInit ==
  /\ anys = [o \in {} |-> AnyOf("int", 0)]
  /\ vtables = [T \in {} |-> {}]
  /\ anyEnd = "returns"
  /\ moved = {}
  /\ given = {}

AnyRuns == anyEnd # "aborts"

With(o, r) == [p \in DOMAIN anys \union {o} |-> IF p = o THEN r ELSE anys[p]]

(* Wrong variant: an assignment leaves the flags of the old type. *)
AnyFromValueUntold(o, T, n) ==
  /\ AnyRuns
  /\ anys' = With(o, [AnyOf(T, n) EXCEPT
                        !.info = IF o \in DOMAIN anys THEN anys[o].info ELSE T])
  /\ vtables' = Get(vtables, T)
  /\ anyEnd' = "returns"
  /\ moved' = moved \ {o}
  /\ UNCHANGED given

(* The constructors and assignments from a value, an initializer list or a *)
(* string literal.                                                         *)
AnyFromValue(o, T, n) ==
  /\ AnyRuns
  /\ anys' = With(o, AnyOf(T, n))
  /\ vtables' = Get(vtables, T)
  /\ anyEnd' = "returns"
  /\ moved' = moved \ {o}
  /\ UNCHANGED given

(* Copy constructor and copy assignment. *)
AnyCopy(o, p) ==
  /\ AnyRuns
  /\ p \in DOMAIN anys
  /\ anys' = With(o, anys[p])
  /\ anyEnd' = "returns"
  /\ moved' = IF p \in moved THEN moved \union {o} ELSE moved \ {o}
  /\ UNCHANGED <<vtables, given>>

(* The source of a move: only std::any lets its value go. *)
LetGo(r) == [r EXCEPT !.held = Empty, !.length = 0]

(* Move constructor and move assignment.  The assignment of an object to   *)
(* itself does nothing.                                                    *)
AnyMove(o, p) ==
  /\ AnyRuns
  /\ p \in DOMAIN anys
  /\ anys' = IF o = p THEN anys
             ELSE [With(o, anys[p]) EXCEPT ![p] = LetGo(anys[p])]
  /\ moved' = IF o = p THEN moved
              ELSE (IF p \in moved THEN moved \union {o} ELSE moved \ {o}) \union {p}
  /\ anyEnd' = "returns"
  /\ UNCHANGED <<vtables, given>>

(* is<T>() and as<T>(): one asks the vtable, the other the value. *)
Is(r, T) == r.vtable = T
As(r, T) == r.held = T

(* A function of the vtable that needs the value: it fails for types       *)
(* without the member, and in as<D>() when there is no value.              *)
Reaches(r) == IsRange(r.vtable) /\ As(r, r.vtable)

(* push_back(elem) and push_back_literal(text, type): the element must     *)
(* have the type of the elements.                                          *)
AnyPushBack(o, E) ==
  /\ AnyRuns
  /\ o \in DOMAIN anys
  /\ anys[o].length < MaxLength
  /\ IF Reaches(anys[o]) /\ E = ValueType(anys[o].vtable)
     THEN /\ anys' = [anys EXCEPT ![o].length = @ + 1]
          /\ anyEnd' = "returns"
     ELSE anyEnd' = "aborts" /\ UNCHANGED anys
  /\ vtables' = Get(vtables, E)
  /\ UNCHANGED <<moved, given>>

(* assign_at(i, elem), whose at() throws beyond the end. *)
AnyAssignAt(o, i, E) ==
  /\ AnyRuns
  /\ o \in DOMAIN anys
  /\ anyEnd' = IF ~(Reaches(anys[o]) /\ E = ValueType(anys[o].vtable)) THEN "aborts"
               ELSE IF i < anys[o].length THEN "returns" ELSE "throws"
  /\ vtables' = Get(vtables, E)
  /\ UNCHANGED <<anys, moved, given>>

(* as<T>() for the type that is<T>() names, and size().  (format() and     *)
(* for_each() look whether there is a value and return without one.)       *)
AnyRead(o, ofSize) ==
  /\ AnyRuns
  /\ o \in DOMAIN anys
  /\ LET r == anys[o]
     IN  anyEnd' = IF IF ofSize THEN Reaches(r) ELSE As(r, r.vtable)
                   THEN "returns" ELSE "aborts"
  /\ UNCHANGED <<anys, vtables, moved, given>>

(* vtable_ctrl().new_plugin<T>(key, f) *)
NewPlugin(T, key) ==
  /\ AnyRuns
  /\ vtables' = [Get(vtables, T) EXCEPT ![T] = @ \union {key}]
  /\ anyEnd' = "returns"
  /\ given' = given \union {<<T, key>>}
  /\ UNCHANGED <<anys, moved>>

(* invoke(key) *)
Invoke(o, key) ==
  /\ AnyRuns
  /\ o \in DOMAIN anys
  /\ anyEnd' = IF key \in vtables[anys[o].vtable] THEN "returns" ELSE "aborts"
  /\ UNCHANGED <<anys, vtables, moved, given>>

AnyNext ==
  \/ \E o \in Anys, T \in AnyTypes : \E n \in Lengths(T) : AnyFromValue(o, T, n)
  \/ \E o, p \in Anys : AnyCopy(o, p)
  \/ \E o, p \in Anys : AnyMove(o, p)
  \/ \E o \in Anys, E \in {"int", "char"} : AnyPushBack(o, E)
  \/ \E o \in Anys, i \in 0..MaxLength, E \in {"int", "char"} : AnyAssignAt(o, i, E)
  \/ \E o \in Anys, ofSize \in BOOLEAN : AnyRead(o, ofSize)
  \/ \E T \in AnyTypes, key \in Plugins : NewPlugin(T, key)
  \/ \E o \in Anys, key \in Plugins : Invoke(o, key)

-----------------------------------------------------------------------------
(* Properties *)

(* Through all copies and moves, the vtable and the info of an object tell *)
(* the type of its value, or it has been moved from: as<T>() of the type   *)
(* that is<T>() names aborts for such an object and for no other           *)
(* (any.cpp:7-26, any.hpp:85-103).                                         *)
AnyTold ==
  \A o \in DOMAIN anys :
    LET r == anys[o] IN
    /\ r.info = r.vtable
    /\ Is(r, r.vtable) /\ (As(r, r.vtable) <=> o \notin moved)
    /\ o \in moved => r.held = Empty

(* A plugin, once given for a type, can be invoked on every object of that *)
(* type, whether the object was made before or after, and whatever was     *)
(* registered in between (ctrl.hpp:20-44).                                 *)
PluginsReach ==
  /\ \A o \in DOMAIN anys : anys[o].vtable \in DOMAIN vtables
  /\ \A g \in given : g[1] \in DOMAIN vtables /\ g[2] \in vtables[g[1]]

=============================================================================
