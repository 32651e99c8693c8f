CONSTANTS
    a = a  b = b  c = c  code = code  docs = docs  main = main  branch = branch
    sent = sent  second = second
    Candidates = {a, b, c}  Elder = {}  Requests = {sent, second}
    Home <- MCHome  Watches <- MCWatches  Replaces <- MCReplaces  Worlds <- OneCandidate
    MaxMoves = 1  MaxLosses = 0
SPECIFICATION Spec
PROPERTY ChangedSourceLeavesRetrieval
CHECK_DEADLOCK FALSE
