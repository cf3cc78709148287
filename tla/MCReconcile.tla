---------------------------- MODULE MCReconcile ----------------------------
(* Instances of Reconcile: configurations that differ where it matters.    *)
EXTENDS Reconcile, TLC

Dots(r) == [repo |-> r, target |-> "home"]

Plain == [spec |-> "image1", bridge |-> TRUE, hooks |-> "make",
          dotfiles |-> Dots("one")]

\* Features come with an image and with hooks of their own.
Featured == [spec |-> "image2", bridge |-> FALSE, hooks |-> "make and features",
             dotfiles |-> NoDotfiles]

\* Shares the container of Featured, but neither its commands nor its dotfiles.
Shared == [Featured EXCEPT !.hooks = "make", !.dotfiles = Dots("one")]

MCConfigs == {Plain, Featured, Shared}

\* Two repositories for the same target path.
MCDotfilesConfigs ==
  {[Plain EXCEPT !.dotfiles = Dots(r)] : r \in {"one", "two"}}

\* run looks at the source image, where the hooks of the features are missing.
MCRunHooks ==
  [c \in Configs |-> IF c.hooks = Featured.hooks THEN {"make"} ELSE {c.hooks}]

Symmetric == Permutations(Ids)
=============================================================================
