\* Every combination of the two variables and the three dotfiles.
SPECIFICATION Spec
INVARIANT TokenTypeOK
INVARIANT TokenPerSpec
CHECK_DEADLOCK FALSE
