CONSTANTS
    a = a  b = b  c = c  code = code  docs = docs  main = main  branch = branch
    sent = sent  second = second
    Candidates = {a, b, c}  Elder = {a}  Requests = {sent, second}
    Home <- MCHome  Watches <- MCWatches  Replaces <- MCReplaces  Worlds <- MCWorlds
    MaxMoves = 1  MaxLosses = 1
SPECIFICATION Spec
PROPERTIES InvalidationIsExact ChangeTakesEffect
CHECK_DEADLOCK FALSE
