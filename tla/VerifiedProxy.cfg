\* With and without a deploy-time configuration, over an upgrade of the module.
CONSTANTS
  Schemed <- MCSchemed
  Roots <- MCRoots
  Inputs <- MCInputs
  Envs <- AnyEnvironment
  Files <- MCFiles
  Answers <- MCAnswers
  Tables <- MCTables
  Retired <- MCRetired
SPECIFICATION Spec
INVARIANT RemembersConfig
INVARIANT EndpointHasRun
INVARIANT StartIsWhole
INVARIANT LibraryCanStart
