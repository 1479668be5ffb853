-------------------------- MODULE MCModuleLifecycle --------------------------
EXTENDS ModuleLifecycle

CONSTANT m1

OneModule == {m1}

=============================================================================
