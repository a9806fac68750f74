\* Two columns and two rows of cells.
SPECIFICATION StockSpec
CONSTANTS
  MaxNodes = 23  Styles = {}  Sizes = {}  Cols = 2  Rows = 2
INVARIANT LabelsInHeader
