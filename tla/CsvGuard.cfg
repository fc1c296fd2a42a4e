\* up to two rows of two columns, or one or two orders; four lists of rules; both
\* outputs or fewer
SPECIFICATION SpecCompare
CONSTANTS
    NotANumber = nan
    Tables <- MCTables
    RuleLists <- MCRuleLists
    Records <- MCRecords
INVARIANTS RowsAddUp OutputsArePrefixes OutputsComplete ExitTellsTruth CrossCheck
