------------------------------ MODULE MCPgPages ------------------------------
EXTENDS PgPages, TLC

CONSTANTS plain, described, scenario

\* An ordinary page, and a specification page with one scenario.
MCTexts == {plain, described}
MCDeclares == (plain :> {}) @@ (described :> {scenario})
=============================================================================
