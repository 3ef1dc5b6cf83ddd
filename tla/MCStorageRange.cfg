CONSTANTS
    NumSecKeys = 4
    Vals = {v1, v2}
    Zero = Zero
    MaxPage = 3
SPECIFICATION Spec
INVARIANTS ForEachStorageCorrect
