SPECIFICATION Spec
CONSTANT Status = {200, 400, 403, 404, 422, 429, 503}
INVARIANTS
    ResultOfLastAnswer
    TriesBounded
PROPERTY Settles
