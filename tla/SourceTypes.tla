---------------------------- MODULE SourceTypes ----------------------------
(***************************************************************************)
(* The types of the source language (include/types/types.hpp,              *)
(* type/type.cpp) and their translation to LLVM types (to_llvm_type).      *)
(*                                                                         *)
(* A type is a record with its kind in "k". Type objects are shared by     *)
(* pointer, and the code changes one field of a shared object: the depth   *)
(* of a pointer type that is the element type of an array (degrade). That  *)
(* field lives in a heap h, a function from object numbers to depths; a    *)
(* pointer type nobody changes carries its depth and the number 0.         *)
(***************************************************************************)
EXTENDS Integers, Sequences, FiniteSets

IntT   == [k |-> "int"]
VoidT  == [k |-> "void"]
ErrorT == [k |-> "error"]              \* HASERROR.type
NullT  == [k |-> "null"]               \* a null Type*
ClassVar(c)    == [k |-> "classvar", name |-> c]
Array(t, ds)   == [k |-> "array", elem |-> t, dims |-> ds]
PointerOf(t)   == [k |-> "pointer", elem |-> t, depth |-> 1, obj |-> 0]
SharedPtr(t,o) == [k |-> "pointer", elem |-> t, depth |-> 0, obj |-> o]
Function(f)    == [k |-> "function", def |-> f]
Class(c)       == [k |-> "class", name |-> c]

Depth(h, p) == IF p.obj = 0 THEN p.depth ELSE h[p.obj]

(* The pointer type one level below p: its element, or a new pointer type. *)
Pointee(h, p) == IF Depth(h, p) = 1 THEN p.elem
                 ELSE [PointerOf(p.elem) EXCEPT !.depth = Depth(h, p) - 1]

\* Slip: the first dimension is kept.
DegradeWhole(h, a) == [t |-> PointerOf(IF Len(a.dims) > 1 THEN a ELSE a.elem), h |-> h]

(* ArrayType::degrade: the pointer type of the array's first element and   *)
(* the heap after it. With one dimension and pointers as elements it is    *)
(* the element type object itself, one level deeper.                       *)
Degrade(h, a) ==
  CASE Len(a.dims) > 1 ->
         [t |-> PointerOf(Array(a.elem, Tail(a.dims))), h |-> h]
    [] Len(a.dims) <= 1 /\ a.elem.k # "pointer" -> [t |-> PointerOf(a.elem), h |-> h]
    [] OTHER -> [t |-> a.elem, h |-> [h EXCEPT ![a.elem.obj] = @ + 1]]

(* subscript of an array type: its element type, or the array of the rest. *)
Element(a) == IF Len(a.dims) = 1 THEN a.elem ELSE Array(a.elem, Tail(a.dims))

(* t.equals(u), which is not symmetric: an error type equals nothing.      *)
RECURSIVE Equals(_, _, _)
Equals(h, t, u) ==
  /\ t.k \notin {"error", "class"}
  /\ t.k = u.k
  /\ t.k = "pointer"  => /\ Depth(h, t) = Depth(h, u)
                         /\ Equals(h, t.elem, u.elem)
  /\ t.k = "array"    => t.dims = u.dims /\ Equals(h, t.elem, u.elem)
  /\ t.k = "classvar" => t.name = u.name

(* LLVM types (external): words, bits, void, pointers, arrays.             *)
PtrTo(t) == [k |-> "ptr", to |-> t]
Bit      == [k |-> "i1"]

RECURSIVE NestPtr(_, _)
NestPtr(t, n) == IF n = 0 THEN t ELSE PtrTo(NestPtr(t, n - 1))

RECURSIVE NestArr(_, _)
NestArr(t, ds) == IF ds = <<>> THEN t
                  ELSE [k |-> "arr", n |-> Head(ds), of |-> NestArr(t, Tail(ds))]

(* to_llvm_type. Classes and errors have no translation: the code exits.   *)
RECURSIVE ToLLVM(_, _)
ToLLVM(h, t) ==
  CASE t.k = "pointer" -> NestPtr(ToLLVM(h, t.elem), Depth(h, t))
    [] t.k = "array"   -> NestArr(ToLLVM(h, t.elem), t.dims)
    [] OTHER           -> t

RECURSIVE Translatable(_)
Translatable(t) == IF t.k \in {"pointer", "array"} THEN Translatable(t.elem)
                   ELSE t.k \in {"int", "void"}

(* What a value of a source type is in LLVM: an array is its address.      *)
ValueType(h, t) == IF t.k = "array" THEN PtrTo(ToLLVM(h, t)) ELSE ToLLVM(h, t)
=============================================================================
