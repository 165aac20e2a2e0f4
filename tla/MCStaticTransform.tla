-------------------------- MODULE MCStaticTransform --------------------------
(* StaticTransform with the abstract specification it implements. *)
EXTENDS StaticTransform, SplitTree

\* The recursion combines every sub-transform once, parts before wholes, as the
\* code that ffts_generate_func_code writes for the same plan does.
Abstract == INSTANCE SubTransforms WITH root <- log, done <- combined
ImplementsSubTransforms == Abstract!Spec
==============================================================================
