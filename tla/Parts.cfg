INIT Init
NEXT Next
CONSTANTS MaxCalls = 3  Max = 3  Values = {1, 2}  Times = {500, 1500}  Start = 4  Limits = {14, 40}  MaxChunks = 2
INVARIANTS RoutesServed DescriptionServed HeadersKept ValuesKept RequestKept ResponseWhole SameReports EventsToTheirHandler MpmcFifo ConfigApplied
CHECK_DEADLOCK FALSE
