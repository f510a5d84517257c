SPECIFICATION Spec
INVARIANTS AddSubMatchReference CompareMatchesReference MulMatchesReference UDivMatchesReference SDivMatchesReference
