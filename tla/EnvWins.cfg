\* A deploy-time configuration is set.
CONSTANTS
  Schemed <- MCSchemed
  Roots <- MCRoots
  Inputs <- MCInputs
  Envs <- DeployedLeast
  Files <- MCFiles
  Answers <- MCAnswers
  Tables <- MCTables
  Retired <- MCRetired
SPECIFICATION Spec
INVARIANT UserConfigWins
